------------------------- MODULE JenkinsBuildsProofs -------------------------
(***************************************************************************)
(* Proofs about JenkinsPipeline and JenkinsBuilds, for any branches,       *)
(* commits, patterns, configurations and number of builds side by side.    *)
(*                                                                         *)
(* What the builds do depends on the pipeline only through its being safe  *)
(* for each branch (SafeFor).  The first part proves that the plan of a    *)
(* rendered pipeline is: it consists of known steps in a known order.  The *)
(* second proves it of the edited pipelines that the checks accept, and    *)
(* the third is about the builds.                                          *)
(***************************************************************************)
EXTENDS JenkinsBuilds, FiniteSetTheorems, SequenceTheorems, WellFoundedInduction, TLAPS

-----------------------------------------------------------------------------
(* The commands of a pipeline.                                             *)

CommandNames ==
    {"checkout", "intent", "template", "build", "test", "plan", "push", "inspect", "recheck",
     "sbom", "scan", "provenance", "verify", "apply", "status", "approve"}
Commands == [do : CommandNames, env : Environments \cup {"none"}, undo : BOOLEAN]

LEMMA Smallest ==
    ASSUME NEW S, S \subseteq Nat, S # {}
    PROVE  \E x \in S : \A y \in S : x <= y
<1>1. PICK x \in S : \A y \in S : ~(<<y, x>> \in OpToRel(<, Nat))
  BY NatLessThanWellFounded, WFMin
<1>2. \A y \in S : ~(y < x)
  BY <1>1 DEF OpToRel
<1>3. \A y \in S : y \in Int
  OBVIOUS
<1>4. \A y \in S : x <= y
  BY <1>2, <1>3
<1> QED BY <1>4

-----------------------------------------------------------------------------
(* The plan of a branch, as a concatenation.                               *)

\* What the stage adds to the plan of the branch.
Added(stage, b) == IF Enters(stage, b) THEN Steps(stage) ELSE <<>>
\* f holds the plan of the first n stages, for each n.
Unrolls(f, p, b, n) ==
    f = [i \in 0..n |-> IF i = 0 THEN <<>> ELSE f[i - 1] \o Added(p[i], b)]

\* The recursive function that Plan is defined by exists.
LEMMA PlanUnrolls ==
    ASSUME NEW p, Len(p) \in Nat, NEW b
    PROVE  \E f : Unrolls(f, p, b, Len(p)) /\ Plan(p, b) = f[Len(p)]
<1> DEFINE bad == {n \in 0..Len(p) : ~\E f : Unrolls(f, p, b, n)}
<1>1. bad = {}
  <2> SUFFICES ASSUME bad # {} PROVE FALSE
    OBVIOUS
  <2>1. PICK n \in bad : \A k \in bad : n <= k
    <3>1. bad \subseteq Nat
      OBVIOUS
    <3> HIDE DEF bad
    <3> QED BY <3>1, Smallest
  <2>2. n \in 0..Len(p) /\ ~\E f : Unrolls(f, p, b, n)
    BY <2>1
  <2>3. CASE n = 0
    <3>1. PICK f : f = [i \in 0..0 |-> <<>>]
      OBVIOUS
    <3>2. Unrolls(f, p, b, 0)
      BY <3>1 DEF Unrolls
    <3> QED BY <2>2, <2>3, <3>2
  <2>4. CASE n # 0
    <3>1. n - 1 \in 0..Len(p) /\ ~(n <= n - 1) /\ n \in Nat
      BY <2>2, <2>4
    <3>2. PICK f : Unrolls(f, p, b, n - 1)
      BY <2>1, <3>1
    <3>3. PICK g : g = [i \in 0..n |-> IF i = n THEN f[n - 1] \o Added(p[n], b) ELSE f[i]]
      OBVIOUS
    <3>4. ASSUME NEW i \in 0..n - 1
          PROVE  g[i] = f[i] /\ f[i] = IF i = 0 THEN <<>> ELSE f[i - 1] \o Added(p[i], b)
      <4>1. i \in 0..n /\ i # n
        BY <3>1
      <4> QED BY <3>2, <3>3, <4>1 DEF Unrolls
    <3>5. ASSUME NEW i \in 0..n
          PROVE  g[i] = IF i = 0 THEN <<>> ELSE g[i - 1] \o Added(p[i], b)
      <4>1. CASE i = n
        BY <2>4, <3>1, <3>3, <3>4, <4>1
      <4>2. CASE i # n
        <5>1. i \in 0..n - 1 /\ (i # 0 => i - 1 \in 0..n - 1)
          BY <3>1, <4>2
        <5> QED BY <3>4, <5>1
      <4> QED BY <4>1, <4>2
    <3>6. g = [i \in 0..n |-> IF i = 0 THEN <<>> ELSE g[i - 1] \o Added(p[i], b)]
      BY <3>3, <3>5
    <3> QED BY <2>2, <3>6 DEF Unrolls
  <2> QED BY <2>3, <2>4
<1>2. \E f : Unrolls(f, p, b, Len(p))
  BY <1>1
<1> DEFINE RunTo == CHOOSE f : f = [i \in 0..Len(p) |->
                       IF i = 0 THEN <<>> ELSE f[i - 1] \o Added(p[i], b)]
<1>3. Unrolls(RunTo, p, b, Len(p))
  BY <1>2 DEF Unrolls
<1>4. Plan(p, b) = RunTo[Len(p)]
  BY DEF Plan, Added
<1> QED BY <1>3, <1>4

\* A plan is in order when each of its steps has a higher rank than the ones
\* before it.
Ascends(rank, s) == \A i, j \in DOMAIN s : i < j => rank[s[i]] < rank[s[j]]

\* The steps that the stages add follow one another by rank.
StagesAscend(S, rank, p, b) ==
    /\ \A i \in 1..Len(p) : Added(p[i], b) \in Seq(S) /\ Ascends(rank, Added(p[i], b))
    /\ \A i, j \in 1..Len(p) : i < j =>
          \A k \in DOMAIN Added(p[i], b), l \in DOMAIN Added(p[j], b) :
              rank[Added(p[i], b)[k]] < rank[Added(p[j], b)[l]]
\* s is the steps that the stages add, in the order of their ranks.
Gathers(S, rank, p, b, s) ==
    /\ s \in Seq(S) /\ Ascends(rank, s)
    /\ \A x : (\E i \in DOMAIN s : s[i] = x)
              <=> \E i \in 1..Len(p) : \E k \in DOMAIN Added(p[i], b) : Added(p[i], b)[k] = x

LEMMA PlanAscends ==
    ASSUME NEW S, NEW rank \in [S -> Nat], NEW p, Len(p) \in Nat, NEW b,
           StagesAscend(S, rank, p, b)
    PROVE  Gathers(S, rank, p, b, Plan(p, b))
<1>1. PICK f : Unrolls(f, p, b, Len(p)) /\ Plan(p, b) = f[Len(p)]
  BY PlanUnrolls
<1> DEFINE holds(n) ==
      /\ f[n] \in Seq(S) /\ Ascends(rank, f[n])
      /\ \A x : (\E i \in DOMAIN f[n] : f[n][i] = x)
                <=> \E i \in 1..n : \E k \in DOMAIN Added(p[i], b) : Added(p[i], b)[k] = x
    bad == {n \in 0..Len(p) : ~holds(n)}
<1>2. f[0] = <<>> /\ \A n \in 1..Len(p) : f[n] = f[n - 1] \o Added(p[n], b)
  <2>1. \A n \in 0..Len(p) : f[n] = IF n = 0 THEN <<>> ELSE f[n - 1] \o Added(p[n], b)
    BY <1>1 DEF Unrolls
  <2>2. 0 \in 0..Len(p) /\ \A n \in 1..Len(p) : n \in 0..Len(p) /\ n # 0
    OBVIOUS
  <2> QED BY <2>1, <2>2
<1>3. bad = {}
  <2> SUFFICES ASSUME bad # {} PROVE FALSE
    OBVIOUS
  <2>1. PICK n \in bad : \A k \in bad : n <= k
    <3>1. bad \subseteq Nat
      OBVIOUS
    <3> HIDE DEF bad
    <3> QED BY <3>1, Smallest
  <2>2. n \in 0..Len(p) /\ ~holds(n)
    BY <2>1
  <2>3. n # 0
    <3>1. holds(0)
      BY <1>2 DEF Ascends
    <3> QED BY <2>2, <3>1
  <2>4. n \in 1..Len(p) /\ n - 1 \in 0..Len(p) /\ ~(n <= n - 1)
    BY <2>2, <2>3
  <2>5. holds(n - 1)
    <3>1. n - 1 \notin bad
      <4> HIDE DEF bad
      <4> QED BY <2>1, <2>4
    <3> QED BY <2>4, <3>1
  <2>6. PICK s : s = f[n - 1]
    OBVIOUS
  <2>7. PICK t : t = Added(p[n], b)
    OBVIOUS
  <2>8. PICK u : u = f[n]
    OBVIOUS
  <2>9. s \in Seq(S) /\ t \in Seq(S) /\ u = s \o t
    BY <1>2, <2>4, <2>5, <2>6, <2>7, <2>8 DEF StagesAscend
  <2>10. Ascends(rank, s) /\ Ascends(rank, t)
    BY <2>4, <2>5, <2>6, <2>7 DEF StagesAscend
  <2>11. /\ \A i \in DOMAIN s : i \in DOMAIN u /\ u[i] = s[i]
         /\ \A k \in DOMAIN t : Len(s) + k \in DOMAIN u /\ u[Len(s) + k] = t[k]
         /\ \A i \in DOMAIN u : \/ i \in DOMAIN s /\ u[i] = s[i]
                               \/ /\ i - Len(s) \in DOMAIN t /\ u[i] = t[i - Len(s)]
                                  /\ \A j \in DOMAIN s : j < i
    <3>1. /\ u \in Seq(S) /\ Len(u) = Len(s) + Len(t)
          /\ \A i \in 1..Len(s) + Len(t) : u[i] = IF i <= Len(s) THEN s[i] ELSE t[i - Len(s)]
      BY <2>9, ConcatProperties
    <3>2. Len(s) \in Nat /\ Len(t) \in Nat /\ DOMAIN s = 1..Len(s) /\ DOMAIN t = 1..Len(t)
          /\ DOMAIN u = 1..Len(s) + Len(t)
      BY <2>9, <3>1
    <3>3. PICK ls \in Nat, lt \in Nat : ls = Len(s) /\ lt = Len(t)
      BY <3>2
    <3>4. ASSUME NEW k \in DOMAIN t PROVE Len(s) + k \in DOMAIN u /\ u[Len(s) + k] = t[k]
      <4>1. ls + k \in 1..ls + lt /\ ~(ls + k <= ls) /\ (ls + k) - ls = k
        BY <3>2, <3>3
      <4> QED BY <3>1, <3>2, <3>3, <4>1
    <3>5. ASSUME NEW i \in DOMAIN s PROVE i \in DOMAIN u /\ u[i] = s[i]
      <4>1. i \in 1..ls + lt /\ i <= ls
        BY <3>2, <3>3
      <4> QED BY <3>1, <3>2, <3>3, <4>1
    <3>6. ASSUME NEW i \in DOMAIN u, i \notin DOMAIN s
          PROVE  /\ i - Len(s) \in DOMAIN t /\ u[i] = t[i - Len(s)]
                 /\ \A j \in DOMAIN s : j < i
      <4>1. ~(i <= ls) /\ i - ls \in 1..lt /\ \A j \in 1..ls : j < i
        BY <3>2, <3>3, <3>6
      <4> QED BY <3>1, <3>2, <3>3, <4>1
    <3> QED BY <3>4, <3>5, <3>6
  <2>12. \A i \in DOMAIN s : \A l \in DOMAIN t : rank[s[i]] < rank[t[l]]
    <3> SUFFICES ASSUME NEW i \in DOMAIN s, NEW l \in DOMAIN t PROVE rank[s[i]] < rank[t[l]]
      OBVIOUS
    <3>1. PICK h \in 1..n - 1 : \E k \in DOMAIN Added(p[h], b) : Added(p[h], b)[k] = s[i]
      BY <2>5, <2>6
    <3>2. h \in 1..Len(p) /\ h < n
      BY <2>4
    <3> QED BY <2>4, <2>7, <3>1, <3>2 DEF StagesAscend
  <2>13. u \in Seq(S) /\ \A i \in DOMAIN u : i \in Int
    BY <2>9, ConcatProperties
  <2>14. Ascends(rank, u)
    <3> SUFFICES ASSUME NEW i \in DOMAIN u, NEW j \in DOMAIN u, i < j
                 PROVE  rank[u[i]] < rank[u[j]]
      BY DEF Ascends
    <3>1. CASE j \in DOMAIN s /\ u[j] = s[j]
      <4>1. i \in DOMAIN s /\ u[i] = s[i]
        <5>1. i \in Int /\ j \in Int
          BY <2>9, <2>13
        <5> QED BY <2>11, <3>1, <5>1
      <4> QED BY <2>10, <3>1, <4>1 DEF Ascends
    <3>2. CASE j - Len(s) \in DOMAIN t /\ u[j] = t[j - Len(s)]
      <4>1. CASE i \in DOMAIN s /\ u[i] = s[i]
        BY <2>12, <3>2, <4>1
      <4>2. CASE i - Len(s) \in DOMAIN t /\ u[i] = t[i - Len(s)]
        <5>1. i - Len(s) < j - Len(s)
          BY <2>9
        <5> QED BY <2>10, <3>2, <4>2, <5>1 DEF Ascends
      <4> QED BY <2>11, <4>1, <4>2
    <3> QED BY <2>11, <3>1, <3>2
  <2>15. ASSUME NEW x
         PROVE  (\E i \in DOMAIN u : u[i] = x)
                <=> \E i \in 1..n : \E k \in DOMAIN Added(p[i], b) : Added(p[i], b)[k] = x
    <3>1. (\E i \in DOMAIN u : u[i] = x)
          <=> (\E i \in DOMAIN s : s[i] = x) \/ (\E k \in DOMAIN t : t[k] = x)
      BY <2>11
    <3>2. (\E i \in DOMAIN s : s[i] = x)
          <=> \E i \in 1..n - 1 : \E k \in DOMAIN Added(p[i], b) : Added(p[i], b)[k] = x
      BY <2>5, <2>6
    <3>3. \A i : i \in 1..n <=> i \in 1..n - 1 \/ i = n
      BY <2>4
    <3> QED BY <2>7, <3>1, <3>2, <3>3
  <2> QED BY <2>2, <2>8, <2>13, <2>14, <2>15
<1> HIDE DEF bad
<1>4. holds(Len(p))
  <2>1. Len(p) \in 0..Len(p)
    OBVIOUS
  <2> QED BY <1>3, <2>1 DEF bad
<1> QED BY <1>1, <1>4 DEF Gathers

-----------------------------------------------------------------------------
(* The plan of a rendered pipeline.                                        *)

Plain(command) == [do |-> command, env |-> "none", undo |-> FALSE]
Applies(m, e) == [do |-> "apply", env |-> e, undo |-> m.rollback[e]]
Waits(m, e) == [do |-> "status", env |-> e, undo |-> m.rollback[e]]
RoutedTo(m, b, e) == \E q \in m.routes[e] : b \in Globs[q]
IsRouted(m, b) == \E e \in Environments : RoutedTo(m, b, e)
OnlyIf(condition, A) == IF condition THEN A ELSE {}

\* The steps of the plan of a branch.
Content(m, b) ==
    {Plain(c) : c \in {"checkout", "intent", "template", "build", "test", "plan"}}
    \cup OnlyIf(IsRouted(m, b),
                {Plain(c) : c \in {"push", "inspect", "recheck", "verify"}}
                \cup OnlyIf(m.sbom, {Plain("sbom")})
                \cup OnlyIf(ScanRequested(m), {Plain("scan")})
                \cup OnlyIf(m.provenance, {Plain("provenance")}))
    \cup OnlyIf(m.approval /\ RoutedTo(m, b, "production"), {Plain("approve")})
    \cup UNION {OnlyIf(RoutedTo(m, b, e), {Applies(m, e), Waits(m, e)}) : e \in Environments}

\* Their order: the place of the command in the pipeline; the commands of an
\* environment follow the ones of the environments before it.
Place(command) ==
    CASE command = "checkout" -> 1 [] command = "intent" -> 2 [] command = "template" -> 3
      [] command = "build" -> 4 [] command = "test" -> 5 [] command = "plan" -> 6
      [] command = "push" -> 7 [] command = "inspect" -> 8 [] command = "recheck" -> 9
      [] command = "sbom" -> 10 [] command = "scan" -> 11 [] command = "provenance" -> 12
      [] command = "verify" -> 13 [] command = "apply" -> 14 [] command = "status" -> 15
      [] command = "approve" -> 18 [] OTHER -> 0
Offset(env) == CASE env = "staging" -> 2 [] env = "production" -> 5 [] OTHER -> 0
Rank == [x \in Commands |-> Place(x.do) + Offset(x.env)]
\* The ranks of the steps of the i-th stage; stage 8 has two.
Low(m, i) == IF i <= 8 THEN i ELSE IF i <= 16 \/ m.approval THEN i + 1 ELSE i + 2
High(m, i) == IF i = 8 THEN 9 ELSE Low(m, i)

\* v is s followed by t.
Joins(S, v, s, t) ==
    /\ v \in Seq(S) /\ Len(v) = Len(s) + Len(t)
    /\ \A i \in 1..Len(s) : v[i] = s[i]
    /\ \A i \in 1..Len(t) : v[Len(s) + i] = t[i]

LEMMA Joined ==
    ASSUME NEW S, NEW s \in Seq(S), NEW t \in Seq(S)
    PROVE  Joins(S, s \o t, s, t)
<1>1. /\ (s \o t) \in Seq(S) /\ Len((s \o t)) = Len(s) + Len(t)
      /\ \A i \in 1..Len(s) + Len(t) : (s \o t)[i] = IF i <= Len(s) THEN s[i] ELSE t[i - Len(s)]
  BY ConcatProperties, Zenon
<1>2. PICK n \in Nat, k \in Nat : n = Len(s) /\ k = Len(t)
  BY LenProperties
<1>3. \A i \in 1..n : i \in 1..n + k /\ i <= n
  BY Z3
<1>4. \A i \in 1..k : n + i \in 1..n + k /\ ~(n + i <= n) /\ (n + i) - n = i
  BY Z3
<1>5. \A i \in 1..Len(s) : (s \o t)[i] = s[i]
  BY <1>1, <1>2, <1>3, Zenon
<1>6. \A i \in 1..Len(t) : (s \o t)[Len(s) + i] = t[i]
  BY <1>1, <1>2, <1>4, Zenon
<1> QED BY <1>1, <1>5, <1>6, Zenon DEF Joins

\* p is the rendering of m, stage by stage.
IsRendering(m, p) ==
    /\ Len(p) = (IF m.approval THEN 19 ELSE 18) /\ DOMAIN p = 1..Len(p)
    /\ p[1] = Stage("Checkout", Always, <<"checkout">>)
    /\ p[2] = ImageIntentStage /\ p[3] = DockerTemplateStage
    /\ p[4] = Stage("Application Build", Always, <<"build">>)
    /\ p[5] = Stage("Test", Always, <<"test">>)
    /\ p[6] = Stage("Container Plan Validation", Always, <<"plan">>)
    /\ p[7] = BuildOnceStage(m) /\ p[8] = ResolveDigestStage(m)
    /\ p[9] = SbomStage(m) /\ p[10] = ScanStage(m)
    /\ p[11] = ProvenanceStage(m) /\ p[12] = VerifyArtifactStage(m)
    /\ p[13] = DeploymentStage(m, "dev") /\ p[14] = RolloutStage(m, "dev")
    /\ p[15] = DeploymentStage(m, "staging") /\ p[16] = RolloutStage(m, "staging")
    /\ m.approval =>
         /\ p[17] = Stage("Production Approval", Routed(m.routes["production"]),
                          <<"approve">>)
         /\ p[18] = DeploymentStage(m, "production")
         /\ p[19] = RolloutStage(m, "production")
    /\ ~m.approval => /\ p[17] = DeploymentStage(m, "production")
                      /\ p[18] = RolloutStage(m, "production")

LEMMA Stages ==
    ASSUME NEW m
    PROVE  IsRendering(m, Render(m)) /\ \E S : Render(m) \in Seq(S)
<1>1. PICK c1, c2, c3, c4, c5, c6, c7, c8, c9, c10, c11, c12 :
         /\ c1 = Stage("Checkout", Always, <<"checkout">>)
         /\ c2 = ImageIntentStage
         /\ c3 = DockerTemplateStage
         /\ c4 = Stage("Application Build", Always, <<"build">>)
         /\ c5 = Stage("Test", Always, <<"test">>)
         /\ c6 = Stage("Container Plan Validation", Always, <<"plan">>)
         /\ c7 = BuildOnceStage(m)
         /\ c8 = ResolveDigestStage(m)
         /\ c9 = SbomStage(m)
         /\ c10 = ScanStage(m)
         /\ c11 = ProvenanceStage(m)
         /\ c12 = VerifyArtifactStage(m)
  OBVIOUS
<1>2. PICK d1, d2, g1, g2, o1, o2, a1 :
         /\ d1 = DeploymentStage(m, "dev") /\ d2 = RolloutStage(m, "dev")
         /\ g1 = DeploymentStage(m, "staging") /\ g2 = RolloutStage(m, "staging")
         /\ o1 = DeploymentStage(m, "production") /\ o2 = RolloutStage(m, "production")
         /\ a1 = Stage("Production Approval", Routed(m.routes["production"]), <<"approve">>)
  OBVIOUS
<1>3. PICK S : {c1, c2, c3, c4, c5, c6, c7, c8, c9, c10, c11, c12,
                d1, d2, g1, g2, o1, o2, a1} \subseteq S
  OBVIOUS
<1>4. PICK h, d, g, o :
         /\ h = <<c1, c2, c3, c4, c5, c6, c7, c8, c9, c10, c11, c12>>
         /\ d = <<d1, d2>> /\ g = <<g1, g2>> /\ o = <<o1, o2>>
  OBVIOUS
<1>5. PICK a : a = ApprovalStages(m)
  OBVIOUS
<1>6. /\ h \in Seq(S) /\ Len(h) = 12
      /\ h[1] = c1 /\ h[2] = c2 /\ h[3] = c3 /\ h[4] = c4 /\ h[5] = c5 /\ h[6] = c6
      /\ h[7] = c7 /\ h[8] = c8 /\ h[9] = c9 /\ h[10] = c10 /\ h[11] = c11 /\ h[12] = c12
  BY <1>3, <1>4
<1>7. /\ d \in Seq(S) /\ Len(d) = 2 /\ d[1] = d1 /\ d[2] = d2
      /\ g \in Seq(S) /\ Len(g) = 2 /\ g[1] = g1 /\ g[2] = g2
      /\ o \in Seq(S) /\ Len(o) = 2 /\ o[1] = o1 /\ o[2] = o2
  BY <1>3, <1>4
<1>81. PICK v : v = h \o d
  OBVIOUS
<1>82. PICK w : w = v \o g
  OBVIOUS
<1>83. PICK x : x = w \o a
  OBVIOUS
<1>84. PICK p : p = x \o o
  OBVIOUS
<1>9. Render(m) = p
  BY <1>1, <1>2, <1>4, <1>5, <1>81, <1>82, <1>83, <1>84, Zenon DEF Render, Deployment
<1>10. /\ v \in Seq(S) /\ Len(v) = 14
       /\ \A i \in 1..12 : v[i] = h[i]
       /\ v[13] = d1 /\ v[14] = d2
  <2>1. Joins(S, v, h, d)
    <3>1. h \in Seq(S) /\ d \in Seq(S)
      BY <1>6, <1>7
    <3> QED BY <1>81, <3>1, Joined
  <2> QED BY <1>6, <1>7, <2>1 DEF Joins
<1>11. /\ w \in Seq(S) /\ Len(w) = 16
       /\ \A i \in 1..14 : w[i] = v[i]
       /\ w[15] = g1 /\ w[16] = g2
  <2>1. Joins(S, w, v, g)
    <3>1. v \in Seq(S) /\ g \in Seq(S)
      BY <1>7, <1>10
    <3> QED BY <1>82, <3>1, Joined
  <2> QED BY <1>7, <1>10, <2>1 DEF Joins
<1>12. a \in Seq(S) /\ (IF m.approval THEN Len(a) = 1 /\ a[1] = a1 ELSE Len(a) = 0)
  <2>1. CASE m.approval
    <3>1. a = <<a1>>
      BY <1>2, <1>5, <2>1, Zenon DEF ApprovalStages
    <3> QED BY <1>3, <2>1, <3>1
  <2>2. CASE ~m.approval
    <3>1. a = <<>>
      BY <1>5, <2>2, Zenon DEF ApprovalStages
    <3> QED BY <2>2, <3>1
  <2> QED BY <2>1, <2>2
<1>13. PICK n \in Nat : n = Len(a)
  BY <1>12, LenProperties
<1>14. /\ x \in Seq(S) /\ Len(x) = 16 + n
       /\ \A i \in 1..16 : x[i] = w[i]
       /\ m.approval => x[17] = a1
  <2>1. Joins(S, x, w, a)
    <3>1. w \in Seq(S) /\ a \in Seq(S)
      BY <1>11, <1>12
    <3> QED BY <1>83, <3>1, Joined
  <2>2. Len(w) = 16 /\ n = Len(a)
    BY <1>11, <1>13
  <2>3. Len(x) = 16 + n /\ \A i \in 1..16 : x[i] = w[i]
    BY <2>1, <2>2 DEF Joins
  <2>4. m.approval => x[17] = a1
    <3>1. m.approval => Len(a) = 1 /\ a[1] = a1
      BY <1>12
    <3>2. 1 \in 1..1 /\ 16 + 1 = 17
      OBVIOUS
    <3>3. \A i \in 1..Len(a) : x[16 + i] = a[i]
      BY <2>1, <2>2 DEF Joins
    <3> QED BY <3>1, <3>2, <3>3
  <2> QED BY <2>1, <2>3, <2>4 DEF Joins
<1>15. /\ p \in Seq(S) /\ Len(p) = 18 + n
       /\ \A i \in 1..16 + n : p[i] = x[i]
       /\ p[17 + n] = o1 /\ p[18 + n] = o2
  <2>1. Joins(S, p, x, o)
    <3>1. x \in Seq(S) /\ o \in Seq(S)
      BY <1>7, <1>14
    <3> QED BY <1>84, <3>1, Joined
  <2>2. 16 + n + 2 = 18 + n /\ 16 + n + 1 = 17 + n
    OBVIOUS
  <2> QED BY <1>7, <1>14, <2>1, <2>2 DEF Joins
<1>16. /\ \A i \in 1..12 : p[i] = h[i]
       /\ p[13] = d1 /\ p[14] = d2 /\ p[15] = g1 /\ p[16] = g2
  <2>1. \A i \in 1..16 : p[i] = w[i]
    <3>1. \A i \in 1..16 : i \in 1..16 + n
      OBVIOUS
    <3> QED BY <1>14, <1>15, <3>1, Zenon
  <2>2. \A i \in 1..14 : p[i] = v[i]
    <3>1. \A i \in 1..14 : i \in 1..16
      OBVIOUS
    <3> QED BY <1>11, <2>1, <3>1, Zenon
  <2>3. \A i \in 1..12 : p[i] = h[i]
    <3>1. \A i \in 1..12 : i \in 1..14
      OBVIOUS
    <3> QED BY <1>10, <2>2, <3>1, Zenon
  <2>4. 13 \in 1..14 /\ 14 \in 1..14 /\ 15 \in 1..16 /\ 16 \in 1..16
    OBVIOUS
  <2> QED BY <1>10, <1>11, <2>1, <2>2, <2>3, <2>4, Zenon
<1>17. /\ n = (IF m.approval THEN 1 ELSE 0)
       /\ m.approval => p[17] = a1 /\ p[18] = o1 /\ p[19] = o2
       /\ ~m.approval => p[17] = o1 /\ p[18] = o2
  <2>1. CASE m.approval
    <3>1. n = 1
      BY <1>12, <1>13, <2>1
    <3>2. p[18] = o1 /\ p[19] = o2
      <4>1. 17 + n = 18 /\ 18 + n = 19
        BY <3>1
      <4> QED BY <1>15, <4>1, Zenon
    <3>3. p[17] = a1
      <4>1. 17 \in 1..16 + n
        BY <3>1
      <4> QED BY <1>14, <1>15, <2>1, <4>1, Zenon
    <3> QED BY <2>1, <3>1, <3>2, <3>3
  <2>2. CASE ~m.approval
    <3>1. n = 0
      BY <1>12, <1>13, <2>2
    <3>2. 17 + n = 17 /\ 18 + n = 18
      BY <3>1
    <3> QED BY <1>15, <2>2, <3>1, <3>2, Zenon
  <2> QED BY <2>1, <2>2
<1>18. Len(p) = (IF m.approval THEN 19 ELSE 18) /\ DOMAIN p = 1..Len(p)
  <2>1. Len(p) = IF m.approval THEN 19 ELSE 18
    BY <1>15, <1>17
  <2>2. p \in Seq(S)
    BY <1>15
  <2> QED BY <2>1, <2>2, LenProperties
<1>19. /\ p[1] = c1 /\ p[2] = c2 /\ p[3] = c3 /\ p[4] = c4 /\ p[5] = c5 /\ p[6] = c6
       /\ p[7] = c7 /\ p[8] = c8 /\ p[9] = c9 /\ p[10] = c10 /\ p[11] = c11 /\ p[12] = c12
  BY <1>6, <1>16
<1>20. IsRendering(m, p)
  BY <1>1, <1>2, <1>16, <1>17, <1>18, <1>19, Zenon DEF IsRendering
<1>21. \E T : p \in Seq(T)
  BY <1>15
<1> QED BY <1>9, <1>20, <1>21, Zenon

\* What a stage adds to the plan of b: the steps in A, in the order of their ranks,
\* which are between lo and hi.
Yields(b, stage, A, lo, hi) ==
    LET t == Added(stage, b)
    IN  /\ t \in Seq(Commands) /\ Ascends(Rank, t)
        /\ \A k \in DOMAIN t : Rank[t[k]] \in lo..hi
        /\ \A x : (\E k \in DOMAIN t : t[k] = x) <=> x \in A

LEMMA OneStep ==
    ASSUME NEW b, NEW stage, NEW x \in Commands, Steps(stage) = <<x>>
    PROVE  Yields(b, stage, OnlyIf(Enters(stage, b), {x}), Rank[x], Rank[x])
<1>1. Rank[x] \in Int
  BY DEF Rank, Place, Offset
<1>2. CASE Enters(stage, b)
  <2>1. Added(stage, b) = <<x>>
    BY <1>2 DEF Added
  <2> QED BY <1>1, <1>2, <2>1 DEF Yields, Ascends, OnlyIf
<1>3. CASE ~Enters(stage, b)
  <2>1. Added(stage, b) = <<>>
    BY <1>3 DEF Added
  <2> QED BY <1>3, <2>1 DEF Yields, Ascends, OnlyIf
<1> QED BY <1>2, <1>3

LEMMA NoStep ==
    ASSUME NEW b, NEW stage, Steps(stage) = <<>>, NEW lo, NEW hi
    PROVE  Yields(b, stage, {}, lo, hi)
<1>1. Added(stage, b) = <<>>
  BY DEF Added
<1> QED BY <1>1 DEF Yields, Ascends

LEMMA TwoSteps ==
    ASSUME NEW b, NEW stage, NEW x \in Commands, NEW y \in Commands,
           Steps(stage) = <<x, y>>, Rank[x] < Rank[y]
    PROVE  Yields(b, stage, OnlyIf(Enters(stage, b), {x, y}), Rank[x], Rank[y])
<1>1. Rank[x] \in Int /\ Rank[y] \in Int
  BY DEF Rank, Place, Offset
<1>2. CASE Enters(stage, b)
  <2>1. Added(stage, b) = <<x, y>>
    BY <1>2 DEF Added
  <2> QED BY <1>1, <1>2, <2>1 DEF Yields, Ascends, OnlyIf
<1>3. CASE ~Enters(stage, b)
  <2>1. Added(stage, b) = <<>>
    BY <1>3 DEF Added
  <2> QED BY <1>3, <2>1 DEF Yields, Ascends, OnlyIf
<1> QED BY <1>2, <1>3

\* The steps of a stage without environment.
LEMMA StageSteps ==
    ASSUME NEW name, NEW when, NEW c \in CommandNames, NEW d \in CommandNames
    PROVE  /\ Steps(Stage(name, when, <<>>)) = <<>>
           /\ Steps(Stage(name, when, <<c>>)) = <<Plain(c)>>
           /\ Steps(Stage(name, when, <<c, d>>)) = <<Plain(c), Plain(d)>>
           /\ \A b : Enters(Stage(name, when, <<>>), b) <=>
                       (when.routed => \E p \in when.patterns : b \in Globs[p])
<1>1. ASSUME NEW st PROVE LET p == Stage(name, when, st)
                          IN  /\ p.steps = st /\ p.env = "none" /\ p.undo = FALSE
                              /\ p.when = when
  BY DEF Stage
<1>2. ASSUME NEW st
      PROVE  Steps(Stage(name, when, st)) = [i \in DOMAIN st |-> Plain(st[i])]
  <2>1. PICK p : p = Stage(name, when, st)
    OBVIOUS
  <2>2. p.steps = st /\ p.env = "none" /\ p.undo = FALSE
    BY <1>1, <2>1
  <2>3. Steps(p) = [i \in DOMAIN st |-> Plain(st[i])]
    BY <2>2 DEF Steps, Plain
  <2> QED BY <2>1, <2>3
<1>3. Steps(Stage(name, when, <<>>)) = <<>>
  BY <1>2
<1>4. Steps(Stage(name, when, <<c>>)) = <<Plain(c)>>
  <2>1. PICK st : st = <<c>>
    OBVIOUS
  <2>2. PICK x : x = Plain(c)
    OBVIOUS
  <2>3. PICK f : f = [i \in DOMAIN st |-> Plain(st[i])]
    OBVIOUS
  <2>4. f = Steps(Stage(name, when, <<c>>))
    BY <1>2, <2>1, <2>3, Zenon
  <2>5. DOMAIN st = 1..1 /\ st[1] = c
    BY <2>1
  <2>6. 1 \in DOMAIN st
    BY <2>5
  <2>7. DOMAIN f = 1..1 /\ f[1] = x /\ f = [i \in 1..1 |-> f[i]]
    BY <2>2, <2>3, <2>5, <2>6, Zenon
  <2>8. f = <<x>>
    BY <2>7
  <2> QED BY <2>2, <2>4, <2>8, Zenon
<1>5. Steps(Stage(name, when, <<c, d>>)) = <<Plain(c), Plain(d)>>
  <2>1. PICK st : st = <<c, d>>
    OBVIOUS
  <2>2. PICK x, y : x = Plain(c) /\ y = Plain(d)
    OBVIOUS
  <2>3. PICK f : f = [i \in DOMAIN st |-> Plain(st[i])]
    OBVIOUS
  <2>4. f = Steps(Stage(name, when, <<c, d>>))
    BY <1>2, <2>1, <2>3, Zenon
  <2>5. DOMAIN st = 1..2 /\ st[1] = c /\ st[2] = d
    BY <2>1
  <2>6. 1 \in DOMAIN st /\ 2 \in DOMAIN st
    BY <2>5
  <2>7. DOMAIN f = 1..2 /\ f[1] = x /\ f[2] = y /\ f = [i \in 1..2 |-> f[i]]
    BY <2>2, <2>3, <2>5, <2>6, Zenon
  <2>8. f = <<x, y>>
    BY <2>7
  <2> QED BY <2>2, <2>4, <2>8, Zenon
<1>6. \A b : Enters(Stage(name, when, <<>>), b) <=>
              (when.routed => \E p \in when.patterns : b \in Globs[p])
  BY <1>1 DEF Enters
<1> QED BY <1>3, <1>4, <1>5, <1>6

LEMMA PlainRank ==
    ASSUME NEW c \in CommandNames
    PROVE  Plain(c) \in Commands /\ Rank[Plain(c)] = Place(c)
<1>1. Plain(c) \in Commands
  BY DEF Plain, Commands
<1>2. Place(c) \in Int
  BY DEF Place
<1>3. Plain(c).do = c /\ Offset(Plain(c).env) = 0
  BY DEF Plain, Offset
<1> QED BY <1>1, <1>2, <1>3 DEF Rank

\* A stage without environment that has one command.
LEMMA PlainStage ==
    ASSUME NEW b, NEW name, NEW when, NEW c \in CommandNames
    PROVE  Yields(b, Stage(name, when, <<c>>),
                  OnlyIf(when.routed => \E p \in when.patterns : b \in Globs[p], {Plain(c)}),
                  Place(c), Place(c))
<1>1. PICK stage : stage = Stage(name, when, <<c>>)
  OBVIOUS
<1>2. PICK x : x = Plain(c)
  OBVIOUS
<1>3. Steps(stage) = <<x>>
  BY <1>1, <1>2, StageSteps, Zenon
<1>4. Yields(b, stage, OnlyIf(Enters(stage, b), {x}), Rank[x], Rank[x])
  BY <1>2, <1>3, OneStep, PlainRank
<1>5. stage.when = when
  BY <1>1 DEF Stage
<1>6. Enters(stage, b) <=> (when.routed => \E p \in when.patterns : b \in Globs[p])
  BY <1>5 DEF Enters
<1>7. Yields(b, stage, OnlyIf(when.routed => \E p \in when.patterns : b \in Globs[p], {x}),
             Rank[x], Rank[x])
  <2>1. CASE Enters(stage, b)
    BY <1>4, <1>6, <2>1 DEF OnlyIf
  <2>2. CASE ~Enters(stage, b)
    BY <1>4, <1>6, <2>2 DEF OnlyIf
  <2> QED BY <2>1, <2>2
<1>8. Rank[x] = Place(c)
  BY <1>2, PlainRank
<1> QED BY <1>1, <1>2, <1>7, <1>8, Zenon

\* The stages of an environment.
EnvPlace(e) == 14 + Offset(e)
LEMMA EnvironmentStages ==
    ASSUME NEW m \in DeliveryModels, NEW b, NEW e \in Environments
    PROVE  /\ Yields(b, DeploymentStage(m, e), OnlyIf(RoutedTo(m, b, e), {Applies(m, e)}),
                     EnvPlace(e), EnvPlace(e))
           /\ Yields(b, RolloutStage(m, e), OnlyIf(RoutedTo(m, b, e), {Waits(m, e)}),
                     EnvPlace(e) + 1, EnvPlace(e) + 1)
<1>1. m.rollback[e] \in BOOLEAN
  BY DEF DeliveryModels
<1>2. PICK x, y : x = Applies(m, e) /\ y = Waits(m, e)
  OBVIOUS
<1>3. /\ x \in Commands /\ x.do = "apply" /\ x.env = e
      /\ y \in Commands /\ y.do = "status" /\ y.env = e
  <2>1. x \in Commands /\ x.do = "apply" /\ x.env = e
    BY <1>1, <1>2 DEF Applies, Commands, CommandNames
  <2>2. y \in Commands /\ y.do = "status" /\ y.env = e
    BY <1>1, <1>2 DEF Waits, Commands, CommandNames
  <2> QED BY <2>1, <2>2
<1>4. Offset(e) \in Int
  BY DEF Offset
<1>5. Rank[x] = EnvPlace(e) /\ Rank[y] = EnvPlace(e) + 1
  BY <1>3, <1>4 DEF Rank, Place, EnvPlace
<1>6. PICK s, t : s = DeploymentStage(m, e) /\ t = RolloutStage(m, e)
  OBVIOUS
<1>7. /\ s.steps = <<"apply">> /\ s.env = e /\ s.undo = m.rollback[e]
      /\ s.when = Routed(m.routes[e])
      /\ t.steps = <<"status">> /\ t.env = e /\ t.undo = m.rollback[e]
      /\ t.when = Routed(m.routes[e])
  BY <1>6 DEF DeploymentStage, RolloutStage
<1>8. /\ Enters(s, b) <=> RoutedTo(m, b, e)
      /\ Enters(t, b) <=> RoutedTo(m, b, e)
  BY <1>7 DEF Enters, Routed, RoutedTo
<1>9. Steps(s) = <<x>>
  <2>1. PICK st : st = <<"apply">>
    OBVIOUS
  <2>2. DOMAIN st = 1..1 /\ st[1] = "apply"
    BY <2>1
  <2>3. PICK f : f = Steps(s)
    OBVIOUS
  <2>4. f = [k \in 1..1 |-> x]
    <3>1. f = [k \in DOMAIN st |-> [do |-> st[k], env |-> e, undo |-> m.rollback[e]]]
      BY <1>7, <2>1, <2>3, Zenon DEF Steps
    <3>2. ASSUME NEW k \in 1..1
          PROVE  [do |-> st[k], env |-> e, undo |-> m.rollback[e]] = x
      BY <1>2, <2>2 DEF Applies
    <3> QED BY <2>2, <3>1, <3>2
  <2>5. f = <<x>>
    BY <2>4
  <2> QED BY <2>3, <2>5
<1>10. Steps(t) = <<y>>
  <2>1. PICK st : st = <<"status">>
    OBVIOUS
  <2>2. DOMAIN st = 1..1 /\ st[1] = "status"
    BY <2>1
  <2>3. PICK f : f = Steps(t)
    OBVIOUS
  <2>4. f = [k \in 1..1 |-> y]
    <3>1. f = [k \in DOMAIN st |-> [do |-> st[k], env |-> e, undo |-> m.rollback[e]]]
      BY <1>7, <2>1, <2>3, Zenon DEF Steps
    <3>2. ASSUME NEW k \in 1..1
          PROVE  [do |-> st[k], env |-> e, undo |-> m.rollback[e]] = y
      BY <1>2, <2>2 DEF Waits
    <3> QED BY <2>2, <3>1, <3>2
  <2>5. f = <<y>>
    BY <2>4
  <2> QED BY <2>3, <2>5
<1>11. Yields(b, s, OnlyIf(Enters(s, b), {x}), Rank[x], Rank[x])
  BY <1>3, <1>9, OneStep
<1>12. Yields(b, t, OnlyIf(Enters(t, b), {y}), Rank[y], Rank[y])
  BY <1>3, <1>10, OneStep
<1>13. /\ OnlyIf(Enters(s, b), {x}) = OnlyIf(RoutedTo(m, b, e), {x})
       /\ OnlyIf(Enters(t, b), {y}) = OnlyIf(RoutedTo(m, b, e), {y})
  BY <1>8 DEF OnlyIf
<1> QED BY <1>2, <1>5, <1>6, <1>11, <1>12, <1>13, Zenon

\* The stage that resolves the digest has two commands.
LEMMA ResolveStage ==
    ASSUME NEW m, NEW b
    PROVE  Yields(b, ResolveDigestStage(m),
                  OnlyIf(\E q \in RoutedPatterns(m) : b \in Globs[q],
                         {Plain("inspect"), Plain("recheck")}), 8, 9)
<1>1. PICK stage : stage = ResolveDigestStage(m)
  OBVIOUS
<1>2. PICK x, y : x = Plain("inspect") /\ y = Plain("recheck")
  OBVIOUS
<1>3. Steps(stage) = <<x, y>>
  <2>1. "inspect" \in CommandNames /\ "recheck" \in CommandNames
    BY DEF CommandNames
  <2> QED BY <1>1, <1>2, <2>1, StageSteps, Zenon DEF ResolveDigestStage
<1>4. x \in Commands /\ y \in Commands /\ Rank[x] = 8 /\ Rank[y] = 9
  <2>1. Plain("inspect") \in Commands /\ Rank[Plain("inspect")] = Place("inspect")
    BY PlainRank DEF CommandNames
  <2>2. Plain("recheck") \in Commands /\ Rank[Plain("recheck")] = Place("recheck")
    BY PlainRank DEF CommandNames
  <2>3. Place("inspect") = 8 /\ Place("recheck") = 9
    BY DEF Place
  <2> QED BY <1>2, <2>1, <2>2, <2>3
<1>5. Yields(b, stage, OnlyIf(Enters(stage, b), {x, y}), 8, 9)
  <2>1. Rank[x] < Rank[y]
    BY <1>4
  <2>2. Yields(b, stage, OnlyIf(Enters(stage, b), {x, y}), Rank[x], Rank[y])
    BY <1>3, <1>4, <2>1, TwoSteps
  <2> QED BY <1>4, <2>2, Zenon
<1>6. stage.when = Routed(RoutedPatterns(m))
  BY <1>1 DEF ResolveDigestStage, Stage
<1>7. Enters(stage, b) <=> \E q \in RoutedPatterns(m) : b \in Globs[q]
  BY <1>6 DEF Enters, Routed
<1>8. OnlyIf(Enters(stage, b), {x, y})
      = OnlyIf(\E q \in RoutedPatterns(m) : b \in Globs[q], {x, y})
  BY <1>7 DEF OnlyIf
<1> QED BY <1>1, <1>2, <1>5, <1>8, Zenon

LEMMA AlwaysStage ==
    ASSUME NEW b, NEW name, NEW c \in CommandNames
    PROVE  Yields(b, Stage(name, Always, <<c>>), {Plain(c)}, Place(c), Place(c))
<1>1. OnlyIf(Always.routed => \E p \in Always.patterns : b \in Globs[p], {Plain(c)}) = {Plain(c)}
  BY DEF Always, OnlyIf
<1>2. Yields(b, Stage(name, Always, <<c>>),
             OnlyIf(Always.routed => \E p \in Always.patterns : b \in Globs[p], {Plain(c)}),
             Place(c), Place(c))
  BY PlainStage
<1> QED BY <1>1, <1>2, Zenon

LEMMA RoutedStage ==
    ASSUME NEW b, NEW name, NEW P, NEW c \in CommandNames
    PROVE  Yields(b, Stage(name, Routed(P), <<c>>),
                  OnlyIf(\E q \in P : b \in Globs[q], {Plain(c)}), Place(c), Place(c))
<1>1. PICK w : w = Routed(P)
  OBVIOUS
<1>2. w.routed = TRUE /\ w.patterns = P
  BY <1>1 DEF Routed
<1>3. OnlyIf(w.routed => \E q \in w.patterns : b \in Globs[q], {Plain(c)})
      = OnlyIf(\E q \in P : b \in Globs[q], {Plain(c)})
  BY <1>2 DEF OnlyIf
<1>4. Yields(b, Stage(name, w, <<c>>),
             OnlyIf(w.routed => \E q \in w.patterns : b \in Globs[q], {Plain(c)}),
             Place(c), Place(c))
  BY PlainStage
<1> QED BY <1>1, <1>3, <1>4, Zenon

LEMMA RoutedAnywhere ==
    ASSUME NEW m, NEW b
    PROVE  (\E q \in RoutedPatterns(m) : b \in Globs[q]) <=> IsRouted(m, b)
BY DEF RoutedPatterns, IsRouted, RoutedTo

LEMMA RoutedToBuild ==
    ASSUME NEW m, NEW b, NEW name, NEW c \in CommandNames
    PROVE  Yields(b, Stage(name, Routed(RoutedPatterns(m)), <<c>>),
                  OnlyIf(IsRouted(m, b), {Plain(c)}), Place(c), Place(c))
<1>1. OnlyIf(\E q \in RoutedPatterns(m) : b \in Globs[q], {Plain(c)})
      = OnlyIf(IsRouted(m, b), {Plain(c)})
  BY RoutedAnywhere DEF OnlyIf
<1>2. Yields(b, Stage(name, Routed(RoutedPatterns(m)), <<c>>),
             OnlyIf(\E q \in RoutedPatterns(m) : b \in Globs[q], {Plain(c)}),
             Place(c), Place(c))
  BY RoutedStage
<1> QED BY <1>1, <1>2, Zenon

LEMMA EvidenceStage ==
    ASSUME NEW m, NEW b, NEW name, NEW c \in CommandNames, NEW enabled
    PROVE  Yields(b, Stage(name, Routed(RoutedPatterns(m)), EvidenceSteps(enabled, c)),
                  OnlyIf(IsRouted(m, b), OnlyIf(enabled, {Plain(c)})), Place(c), Place(c))
<1>1. CASE enabled
  <2>1. EvidenceSteps(enabled, c) = <<c>> /\ OnlyIf(enabled, {Plain(c)}) = {Plain(c)}
    BY <1>1, Zenon DEF EvidenceSteps, OnlyIf
  <2> QED BY <2>1, RoutedToBuild, Zenon
<1>2. CASE ~enabled
  <2>1. /\ EvidenceSteps(enabled, c) = <<>>
        /\ OnlyIf(IsRouted(m, b), OnlyIf(enabled, {Plain(c)})) = {}
    BY <1>2 DEF EvidenceSteps, OnlyIf
  <2>2. Steps(Stage(name, Routed(RoutedPatterns(m)), <<>>)) = <<>>
    <3>1. c \in CommandNames
      OBVIOUS
    <3> QED BY <3>1, StageSteps, Zenon
  <2>3. Yields(b, Stage(name, Routed(RoutedPatterns(m)), <<>>), {}, Place(c), Place(c))
    BY <2>2, NoStep
  <2> QED BY <2>1, <2>3, Zenon
<1> QED BY <1>1, <1>2

\* The i-th stage adds the steps in A, which belong to the content of the plan.
Part(m, b, i, A) ==
    A \subseteq Content(m, b) /\ Yields(b, Render(m)[i], A, Low(m, i), High(m, i))

LEMMA RenderYields ==
    ASSUME NEW m \in DeliveryModels, NEW b
    PROVE  /\ Part(m, b, 1, {Plain("checkout")})
           /\ Part(m, b, 2, {Plain("intent")})
           /\ Part(m, b, 3, {Plain("template")})
           /\ Part(m, b, 4, {Plain("build")})
           /\ Part(m, b, 5, {Plain("test")})
           /\ Part(m, b, 6, {Plain("plan")})
           /\ Part(m, b, 7, OnlyIf(IsRouted(m, b), {Plain("push")}))
           /\ Part(m, b, 8, OnlyIf(IsRouted(m, b), {Plain("inspect"), Plain("recheck")}))
           /\ Part(m, b, 9, OnlyIf(IsRouted(m, b), OnlyIf(m.sbom, {Plain("sbom")})))
           /\ Part(m, b, 10, OnlyIf(IsRouted(m, b), OnlyIf(ScanRequested(m), {Plain("scan")})))
           /\ Part(m, b, 11, OnlyIf(IsRouted(m, b), OnlyIf(m.provenance, {Plain("provenance")})))
           /\ Part(m, b, 12, OnlyIf(IsRouted(m, b), {Plain("verify")}))
           /\ Part(m, b, 13, OnlyIf(RoutedTo(m, b, "dev"), {Applies(m, "dev")}))
           /\ Part(m, b, 14, OnlyIf(RoutedTo(m, b, "dev"), {Waits(m, "dev")}))
           /\ Part(m, b, 15, OnlyIf(RoutedTo(m, b, "staging"), {Applies(m, "staging")}))
           /\ Part(m, b, 16, OnlyIf(RoutedTo(m, b, "staging"), {Waits(m, "staging")}))
           /\ m.approval =>
                /\ Part(m, b, 17, OnlyIf(RoutedTo(m, b, "production"), {Plain("approve")}))
                /\ Part(m, b, 18, OnlyIf(RoutedTo(m, b, "production"),
                                          {Applies(m, "production")}))
                /\ Part(m, b, 19, OnlyIf(RoutedTo(m, b, "production"),
                                          {Waits(m, "production")}))
           /\ ~m.approval =>
                /\ Part(m, b, 17, OnlyIf(RoutedTo(m, b, "production"),
                                          {Applies(m, "production")}))
                /\ Part(m, b, 18, OnlyIf(RoutedTo(m, b, "production"),
                                          {Waits(m, "production")}))
<1>1. PICK p : p = Render(m)
  OBVIOUS
<1>2. \A c \in {"checkout", "intent", "template", "build", "test", "plan", "push", "sbom", "scan",
               "provenance", "verify", "approve"} : c \in CommandNames
  BY DEF CommandNames
<1>3. /\ Place("checkout") = 1 /\ Place("intent") = 2 /\ Place("template") = 3
      /\ Place("build") = 4 /\ Place("test") = 5 /\ Place("plan") = 6 /\ Place("push") = 7
      /\ Place("sbom") = 10 /\ Place("scan") = 11 /\ Place("provenance") = 12
      /\ Place("verify") = 13 /\ Place("approve") = 18
  BY DEF Place
<1>4. /\ EnvPlace("dev") = 14 /\ EnvPlace("dev") + 1 = 15
      /\ EnvPlace("staging") = 16 /\ EnvPlace("staging") + 1 = 17
      /\ EnvPlace("production") = 19 /\ EnvPlace("production") + 1 = 20
  BY DEF EnvPlace, Offset
<1>5. /\ "dev" \in Environments /\ "staging" \in Environments /\ "production" \in Environments
  BY DEF Environments
<1>6. IsRendering(m, p)
  BY <1>1, Stages, Zenon
<1>7. Part(m, b, 1, {Plain("checkout")})
  <2>1. {Plain("checkout")} \subseteq Content(m, b)
    BY DEF Content, OnlyIf
  <2>2. "checkout" \in CommandNames /\ Place("checkout") = 1
    BY <1>2, <1>3
  <2>3. Low(m, 1) = 1 /\ High(m, 1) = 1
    BY DEF Low, High
  <2> QED BY <1>1, <1>6, <2>1, <2>2, <2>3, AlwaysStage, Zenon DEF IsRendering, Part
<1>8. Part(m, b, 2, {Plain("intent")})
  <2>1. {Plain("intent")} \subseteq Content(m, b)
    BY DEF Content, OnlyIf
  <2>2. "intent" \in CommandNames /\ Place("intent") = 2
    BY <1>2, <1>3
  <2>3. Low(m, 2) = 2 /\ High(m, 2) = 2
    BY DEF Low, High
  <2> QED BY <1>1, <1>6, <2>1, <2>2, <2>3, AlwaysStage, Zenon
         DEF IsRendering, Part, ImageIntentStage
<1>9. Part(m, b, 3, {Plain("template")})
  <2>1. {Plain("template")} \subseteq Content(m, b)
    BY DEF Content, OnlyIf
  <2>2. "template" \in CommandNames /\ Place("template") = 3
    BY <1>2, <1>3
  <2>3. Low(m, 3) = 3 /\ High(m, 3) = 3
    BY DEF Low, High
  <2> QED BY <1>1, <1>6, <2>1, <2>2, <2>3, AlwaysStage, Zenon
         DEF IsRendering, Part, DockerTemplateStage
<1>10. Part(m, b, 4, {Plain("build")})
  <2>1. {Plain("build")} \subseteq Content(m, b)
    BY DEF Content, OnlyIf
  <2>2. "build" \in CommandNames /\ Place("build") = 4
    BY <1>2, <1>3
  <2>3. Low(m, 4) = 4 /\ High(m, 4) = 4
    BY DEF Low, High
  <2> QED BY <1>1, <1>6, <2>1, <2>2, <2>3, AlwaysStage, Zenon DEF IsRendering, Part
<1>11. Part(m, b, 5, {Plain("test")})
  <2>1. {Plain("test")} \subseteq Content(m, b)
    BY DEF Content, OnlyIf
  <2>2. "test" \in CommandNames /\ Place("test") = 5
    BY <1>2, <1>3
  <2>3. Low(m, 5) = 5 /\ High(m, 5) = 5
    BY DEF Low, High
  <2> QED BY <1>1, <1>6, <2>1, <2>2, <2>3, AlwaysStage, Zenon DEF IsRendering, Part
<1>12. Part(m, b, 6, {Plain("plan")})
  <2>1. {Plain("plan")} \subseteq Content(m, b)
    BY DEF Content, OnlyIf
  <2>2. "plan" \in CommandNames /\ Place("plan") = 6
    BY <1>2, <1>3
  <2>3. Low(m, 6) = 6 /\ High(m, 6) = 6
    BY DEF Low, High
  <2> QED BY <1>1, <1>6, <2>1, <2>2, <2>3, AlwaysStage, Zenon DEF IsRendering, Part
<1>13. Part(m, b, 7, OnlyIf(IsRouted(m, b), {Plain("push")}))
  <2>1. OnlyIf(IsRouted(m, b), {Plain("push")}) \subseteq Content(m, b)
    BY DEF Content, OnlyIf
  <2>2. "push" \in CommandNames /\ Place("push") = 7
    BY <1>2, <1>3
  <2>3. Low(m, 7) = 7 /\ High(m, 7) = 7
    BY DEF Low, High
  <2> QED BY <1>1, <1>6, <2>1, <2>2, <2>3, RoutedToBuild, Zenon
         DEF IsRendering, Part, BuildOnceStage
<1>14. Part(m, b, 8, OnlyIf(IsRouted(m, b), {Plain("inspect"), Plain("recheck")}))
  <2>1. OnlyIf(IsRouted(m, b), {Plain("inspect"), Plain("recheck")}) \subseteq Content(m, b)
    BY DEF Content, OnlyIf
  <2>2. OnlyIf(\E q \in RoutedPatterns(m) : b \in Globs[q], {Plain("inspect"), Plain("recheck")})
        = OnlyIf(IsRouted(m, b), {Plain("inspect"), Plain("recheck")})
    BY RoutedAnywhere DEF OnlyIf
  <2>3. Low(m, 8) = 8 /\ High(m, 8) = 9
    BY DEF Low, High
  <2> QED BY <1>1, <1>6, <2>1, <2>2, <2>3, ResolveStage, Zenon DEF IsRendering, Part
<1>15. Part(m, b, 9, OnlyIf(IsRouted(m, b), OnlyIf(m.sbom, {Plain("sbom")})))
  <2>1. OnlyIf(IsRouted(m, b), OnlyIf(m.sbom, {Plain("sbom")})) \subseteq Content(m, b)
    BY DEF Content, OnlyIf
  <2>2. "sbom" \in CommandNames /\ Place("sbom") = 10
    BY <1>2, <1>3
  <2>3. Low(m, 9) = 10 /\ High(m, 9) = 10
    BY DEF Low, High
  <2> QED BY <1>1, <1>6, <2>1, <2>2, <2>3, EvidenceStage, Zenon DEF IsRendering, Part, SbomStage
<1>16. Part(m, b, 10, OnlyIf(IsRouted(m, b), OnlyIf(ScanRequested(m), {Plain("scan")})))
  <2>1. OnlyIf(IsRouted(m, b), OnlyIf(ScanRequested(m), {Plain("scan")})) \subseteq Content(m, b)
    BY DEF Content, OnlyIf
  <2>2. "scan" \in CommandNames /\ Place("scan") = 11
    BY <1>2, <1>3
  <2>3. Low(m, 10) = 11 /\ High(m, 10) = 11
    BY DEF Low, High
  <2> QED BY <1>1, <1>6, <2>1, <2>2, <2>3, EvidenceStage, Zenon DEF IsRendering, Part, ScanStage
<1>17. Part(m, b, 11, OnlyIf(IsRouted(m, b), OnlyIf(m.provenance, {Plain("provenance")})))
  <2>1. OnlyIf(IsRouted(m, b), OnlyIf(m.provenance, {Plain("provenance")})) \subseteq Content(m, b)
    BY DEF Content, OnlyIf
  <2>2. "provenance" \in CommandNames /\ Place("provenance") = 12
    BY <1>2, <1>3
  <2>3. Low(m, 11) = 12 /\ High(m, 11) = 12
    BY DEF Low, High
  <2> QED BY <1>1, <1>6, <2>1, <2>2, <2>3, EvidenceStage, Zenon
         DEF IsRendering, Part, ProvenanceStage
<1>18. Part(m, b, 12, OnlyIf(IsRouted(m, b), {Plain("verify")}))
  <2>1. OnlyIf(IsRouted(m, b), {Plain("verify")}) \subseteq Content(m, b)
    BY DEF Content, OnlyIf
  <2>2. "verify" \in CommandNames /\ Place("verify") = 13
    BY <1>2, <1>3
  <2>3. Low(m, 12) = 13 /\ High(m, 12) = 13
    BY DEF Low, High
  <2> QED BY <1>1, <1>6, <2>1, <2>2, <2>3, RoutedToBuild, Zenon
         DEF IsRendering, Part, VerifyArtifactStage
<1>19. Part(m, b, 13, OnlyIf(RoutedTo(m, b, "dev"), {Applies(m, "dev")}))
  <2>1. OnlyIf(RoutedTo(m, b, "dev"), {Applies(m, "dev")}) \subseteq Content(m, b)
    BY DEF Content, OnlyIf, Environments
  <2>2. Yields(b, p[13], OnlyIf(RoutedTo(m, b, "dev"), {Applies(m, "dev")}), 14, 14)
    BY <1>4, <1>5, <1>6, EnvironmentStages, Zenon DEF IsRendering
  <2>3. Low(m, 13) = 14 /\ High(m, 13) = 14
    BY DEF Low, High
  <2> QED BY <1>1, <2>1, <2>2, <2>3, Zenon DEF Part
<1>20. Part(m, b, 14, OnlyIf(RoutedTo(m, b, "dev"), {Waits(m, "dev")}))
  <2>1. OnlyIf(RoutedTo(m, b, "dev"), {Waits(m, "dev")}) \subseteq Content(m, b)
    BY DEF Content, OnlyIf, Environments
  <2>2. Yields(b, p[14], OnlyIf(RoutedTo(m, b, "dev"), {Waits(m, "dev")}), 15, 15)
    BY <1>4, <1>5, <1>6, EnvironmentStages, Zenon DEF IsRendering
  <2>3. Low(m, 14) = 15 /\ High(m, 14) = 15
    BY DEF Low, High
  <2> QED BY <1>1, <2>1, <2>2, <2>3, Zenon DEF Part
<1>21. Part(m, b, 15, OnlyIf(RoutedTo(m, b, "staging"), {Applies(m, "staging")}))
  <2>1. OnlyIf(RoutedTo(m, b, "staging"), {Applies(m, "staging")}) \subseteq Content(m, b)
    BY DEF Content, OnlyIf, Environments
  <2>2. Yields(b, p[15], OnlyIf(RoutedTo(m, b, "staging"), {Applies(m, "staging")}), 16, 16)
    BY <1>4, <1>5, <1>6, EnvironmentStages, Zenon DEF IsRendering
  <2>3. Low(m, 15) = 16 /\ High(m, 15) = 16
    BY DEF Low, High
  <2> QED BY <1>1, <2>1, <2>2, <2>3, Zenon DEF Part
<1>22. Part(m, b, 16, OnlyIf(RoutedTo(m, b, "staging"), {Waits(m, "staging")}))
  <2>1. OnlyIf(RoutedTo(m, b, "staging"), {Waits(m, "staging")}) \subseteq Content(m, b)
    BY DEF Content, OnlyIf, Environments
  <2>2. Yields(b, p[16], OnlyIf(RoutedTo(m, b, "staging"), {Waits(m, "staging")}), 17, 17)
    BY <1>4, <1>5, <1>6, EnvironmentStages, Zenon DEF IsRendering
  <2>3. Low(m, 16) = 17 /\ High(m, 16) = 17
    BY DEF Low, High
  <2> QED BY <1>1, <2>1, <2>2, <2>3, Zenon DEF Part
<1>23. OnlyIf(RoutedTo(m, b, "production"), {Applies(m, "production"), Waits(m, "production")})
          \subseteq Content(m, b)
  BY DEF Content, OnlyIf, Environments
<1>24. /\ OnlyIf(RoutedTo(m, b, "production"), {Applies(m, "production")}) \subseteq Content(m, b)
       /\ OnlyIf(RoutedTo(m, b, "production"), {Waits(m, "production")}) \subseteq Content(m, b)
  BY <1>23 DEF OnlyIf
<1>25. ASSUME m.approval
       PROVE  /\ Part(m, b, 17, OnlyIf(RoutedTo(m, b, "production"), {Plain("approve")}))
              /\ Part(m, b, 18, OnlyIf(RoutedTo(m, b, "production"),
                                       {Applies(m, "production")}))
              /\ Part(m, b, 19, OnlyIf(RoutedTo(m, b, "production"),
                                       {Waits(m, "production")}))
  <2>1. "approve" \in CommandNames /\ Place("approve") = 18
    BY <1>2, <1>3
  <2>2. Yields(b, Stage("Production Approval", Routed(m.routes["production"]), <<"approve">>),
               OnlyIf(\E q \in m.routes["production"] : b \in Globs[q], {Plain("approve")}),
               Place("approve"), Place("approve"))
    BY <2>1, RoutedStage
  <2>3. Yields(b, p[17], OnlyIf(RoutedTo(m, b, "production"), {Plain("approve")}), 18, 18)
    <3>1. p[17] = Stage("Production Approval", Routed(m.routes["production"]), <<"approve">>)
      BY <1>6, <1>25 DEF IsRendering
    <3> QED BY <2>1, <2>2, <3>1, Zenon DEF RoutedTo
  <2>4. OnlyIf(RoutedTo(m, b, "production"), {Plain("approve")}) \subseteq Content(m, b)
    BY <1>25 DEF Content, OnlyIf
  <2>5. /\ Yields(b, p[18], OnlyIf(RoutedTo(m, b, "production"), {Applies(m, "production")}), 19, 19)
        /\ Yields(b, p[19], OnlyIf(RoutedTo(m, b, "production"), {Waits(m, "production")}), 20, 20)
    BY <1>4, <1>5, <1>6, <1>25, EnvironmentStages, Zenon DEF IsRendering
  <2>6. /\ Low(m, 17) = 18 /\ High(m, 17) = 18 /\ Low(m, 18) = 19 /\ High(m, 18) = 19
        /\ Low(m, 19) = 20 /\ High(m, 19) = 20
    BY <1>25 DEF Low, High
  <2> QED BY <1>1, <1>24, <2>3, <2>4, <2>5, <2>6, Zenon DEF Part
<1>26. ASSUME ~m.approval
       PROVE  /\ Part(m, b, 17, OnlyIf(RoutedTo(m, b, "production"),
                                       {Applies(m, "production")}))
              /\ Part(m, b, 18, OnlyIf(RoutedTo(m, b, "production"),
                                       {Waits(m, "production")}))
  <2>1. /\ Yields(b, p[17], OnlyIf(RoutedTo(m, b, "production"), {Applies(m, "production")}), 19, 19)
        /\ Yields(b, p[18], OnlyIf(RoutedTo(m, b, "production"), {Waits(m, "production")}), 20, 20)
    BY <1>4, <1>5, <1>6, <1>26, EnvironmentStages, Zenon DEF IsRendering
  <2>2. Low(m, 17) = 19 /\ High(m, 17) = 19 /\ Low(m, 18) = 20 /\ High(m, 18) = 20
    BY <1>26 DEF Low, High
  <2> QED BY <1>1, <1>24, <2>1, <2>2, Zenon DEF Part
<1> QED BY <1>1, <1>7, <1>8, <1>9, <1>10, <1>11, <1>12, <1>13, <1>14, <1>15,
       <1>16, <1>17, <1>18, <1>19, <1>20, <1>21,
       <1>22, <1>25, <1>26, Zenon

\* The stages add the steps of Content, each its part of them, in the order of
\* their ranks.
LEMMA RenderedStages ==
    ASSUME NEW m \in DeliveryModels, NEW b
    PROVE  LET p == Render(m)
           IN  /\ StagesAscend(Commands, Rank, p, b)
               /\ \A i \in 1..Len(p) : \E A : Part(m, b, i, A)
               /\ \A x : (\E i \in 1..Len(p) :
                              \E k \in DOMAIN Added(p[i], b) : Added(p[i], b)[k] = x)
                         <=> x \in Content(m, b)
<1>1. PICK p : p = Render(m)
  OBVIOUS
<1>2. Len(p) = (IF m.approval THEN 19 ELSE 18) /\ Len(p) \in Nat
  <2>1. Len(p) = IF m.approval THEN 19 ELSE 18
    BY <1>1, Stages, Zenon DEF IsRendering
  <2> QED BY <2>1
<1>3. ASSUME NEW i \in 1..Len(p) PROVE \E A : Part(m, b, i, A)
  <2>1. \/ i = 1 \/ i = 2 \/ i = 3 \/ i = 4 \/ i = 5 \/ i = 6 \/ i = 7 \/ i = 8 \/ i = 9
        \/ i = 10 \/ i = 11 \/ i = 12 \/ i = 13 \/ i = 14 \/ i = 15 \/ i = 16
        \/ m.approval /\ (i = 17 \/ i = 18 \/ i = 19)
        \/ ~m.approval /\ (i = 17 \/ i = 18)
    BY <1>2
  <2>2. /\ (\E A : Part(m, b, 1, A)) /\ (\E A : Part(m, b, 2, A)) /\ (\E A : Part(m, b, 3, A))
        /\ (\E A : Part(m, b, 4, A)) /\ (\E A : Part(m, b, 5, A)) /\ (\E A : Part(m, b, 6, A))
        /\ (\E A : Part(m, b, 7, A)) /\ (\E A : Part(m, b, 8, A)) /\ (\E A : Part(m, b, 9, A))
        /\ (\E A : Part(m, b, 10, A)) /\ (\E A : Part(m, b, 11, A)) /\ (\E A : Part(m, b, 12, A))
        /\ (\E A : Part(m, b, 13, A)) /\ (\E A : Part(m, b, 14, A)) /\ (\E A : Part(m, b, 15, A))
        /\ (\E A : Part(m, b, 16, A)) /\ (\E A : Part(m, b, 17, A)) /\ (\E A : Part(m, b, 18, A))
        /\ m.approval => \E A : Part(m, b, 19, A)
    <3>1. m.approval \/ ~m.approval
      OBVIOUS
    <3> QED BY <3>1, RenderYields, Zenon
  <2> QED BY <2>1, <2>2, Zenon
<1>4. ASSUME NEW x \in Content(m, b)
      PROVE  \E i \in 1..Len(p) : \E k \in DOMAIN Added(p[i], b) : Added(p[i], b)[k] = x
  <2>1. \/ x \in {Plain("checkout")} \/ x \in {Plain("intent")} \/ x \in {Plain("template")}
        \/ x \in {Plain("build")} \/ x \in {Plain("test")} \/ x \in {Plain("plan")}
        \/ x \in OnlyIf(IsRouted(m, b), {Plain("push")})
        \/ x \in OnlyIf(IsRouted(m, b), {Plain("inspect"), Plain("recheck")})
        \/ x \in OnlyIf(IsRouted(m, b), OnlyIf(m.sbom, {Plain("sbom")}))
        \/ x \in OnlyIf(IsRouted(m, b), OnlyIf(ScanRequested(m), {Plain("scan")}))
        \/ x \in OnlyIf(IsRouted(m, b), OnlyIf(m.provenance, {Plain("provenance")}))
        \/ x \in OnlyIf(IsRouted(m, b), {Plain("verify")})
        \/ x \in OnlyIf(RoutedTo(m, b, "dev"), {Applies(m, "dev")})
        \/ x \in OnlyIf(RoutedTo(m, b, "dev"), {Waits(m, "dev")})
        \/ x \in OnlyIf(RoutedTo(m, b, "staging"), {Applies(m, "staging")})
        \/ x \in OnlyIf(RoutedTo(m, b, "staging"), {Waits(m, "staging")})
        \/ m.approval /\ x \in OnlyIf(RoutedTo(m, b, "production"), {Plain("approve")})
        \/ x \in OnlyIf(RoutedTo(m, b, "production"), {Applies(m, "production")})
        \/ x \in OnlyIf(RoutedTo(m, b, "production"), {Waits(m, "production")})
    BY DEF Content, OnlyIf, Environments
  <2>2. 1..18 \subseteq 1..Len(p) /\ (m.approval => 19 \in 1..Len(p))
    BY <1>2
  <2>3. \E A : x \in A /\ (\/ \E i \in 1..18 : Part(m, b, i, A)
                           \/ m.approval /\ Part(m, b, 19, A))
    <3>1. /\ 1 \in 1..18 /\ 2 \in 1..18 /\ 3 \in 1..18 /\ 4 \in 1..18 /\ 5 \in 1..18
          /\ 6 \in 1..18 /\ 7 \in 1..18 /\ 8 \in 1..18 /\ 9 \in 1..18 /\ 10 \in 1..18
          /\ 11 \in 1..18 /\ 12 \in 1..18 /\ 13 \in 1..18 /\ 14 \in 1..18
          /\ 15 \in 1..18 /\ 16 \in 1..18 /\ 17 \in 1..18 /\ 18 \in 1..18
      OBVIOUS
    <3> QED BY <2>1, <3>1, RenderYields, Zenon
  <2>4. PICK i \in 1..Len(p) : \E A : Part(m, b, i, A) /\ x \in A
    BY <2>2, <2>3, Zenon
  <2> QED BY <1>1, <2>4 DEF Part, Yields
<1>5. \A i \in 1..Len(p) : Added(p[i], b) \in Seq(Commands) /\ Ascends(Rank, Added(p[i], b))
  BY <1>1, <1>3, Zenon DEF Part, Yields
<1>6. ASSUME NEW i \in 1..Len(p), NEW j \in 1..Len(p), i < j
      PROVE  \A k \in DOMAIN Added(p[i], b), l \in DOMAIN Added(p[j], b) :
                 Rank[Added(p[i], b)[k]] < Rank[Added(p[j], b)[l]]
  <2>1. High(m, i) < Low(m, j) /\ Low(m, i) \in Int /\ High(m, i) \in Int
        /\ Low(m, j) \in Int /\ High(m, j) \in Int
    BY <1>2, <1>6 DEF High, Low
  <2>2. \A k \in DOMAIN Added(p[i], b) : Rank[Added(p[i], b)[k]] \in Low(m, i)..High(m, i)
    BY <1>1, <1>3, Zenon DEF Part, Yields
  <2>3. \A l \in DOMAIN Added(p[j], b) : Rank[Added(p[j], b)[l]] \in Low(m, j)..High(m, j)
    BY <1>1, <1>3, Zenon DEF Part, Yields
  <2> QED BY <2>1, <2>2, <2>3
<1>7. StagesAscend(Commands, Rank, p, b)
  BY <1>5, <1>6 DEF StagesAscend
<1>8. ASSUME NEW x
      PROVE  (\E i \in 1..Len(p) : \E k \in DOMAIN Added(p[i], b) : Added(p[i], b)[k] = x)
             <=> x \in Content(m, b)
  BY <1>1, <1>3, <1>4, Zenon DEF Part, Yields
<1> QED BY <1>1, <1>3, <1>7, <1>8, Zenon

LEMMA RankType == Rank \in [Commands -> Nat]
  BY DEF Rank, Place, Offset

\* The plan of a branch holds exactly the steps of Content, in the order of their
\* ranks.
LEMMA RenderedPlan ==
    ASSUME NEW m \in DeliveryModels, NEW b
    PROVE  LET s == Plan(Render(m), b)
           IN  /\ s \in Seq(Commands) /\ Ascends(Rank, s)
               /\ \A x : (\E i \in DOMAIN s : s[i] = x) <=> x \in Content(m, b)
<1>1. PICK p : p = Render(m)
  OBVIOUS
<1>2. Len(p) \in Nat
  <2>1. Len(p) = IF m.approval THEN 19 ELSE 18
    BY <1>1, Stages, Zenon DEF IsRendering
  <2> QED BY <2>1
<1>3. /\ StagesAscend(Commands, Rank, p, b)
      /\ \A x : (\E i \in 1..Len(p) : \E k \in DOMAIN Added(p[i], b) : Added(p[i], b)[k] = x)
                <=> x \in Content(m, b)
  <2>1. LET q == Render(m)
        IN  /\ StagesAscend(Commands, Rank, q, b)
            /\ \A x : (\E i \in 1..Len(q) :
                           \E k \in DOMAIN Added(q[i], b) : Added(q[i], b)[k] = x)
                      <=> x \in Content(m, b)
    BY RenderedStages
  <2> QED BY <1>1, <2>1, Zenon
<1>4. Gathers(Commands, Rank, p, b, Plan(p, b))
  BY <1>2, <1>3, RankType, PlanAscends
<1> QED BY <1>1, <1>3, <1>4, Zenon DEF Gathers

\* The kinds of steps, with the conditions they stand under and their ranks.
LEMMA Kinds ==
    ASSUME NEW m \in DeliveryModels, NEW b, NEW x \in Content(m, b)
    PROVE  \/ /\ x.do \in CommandNames \ {"apply", "status"} /\ x = Plain(x.do)
              /\ Rank[x] = Place(x.do)
              /\ x.do = "approve" => m.approval
              /\ x.do \notin {"checkout", "intent", "template", "build", "test", "plan"}
                    => IsRouted(m, b)
           \/ \E e \in Environments :
                 /\ RoutedTo(m, b, e) /\ x.env = e /\ x.undo = m.rollback[e]
                 /\ \/ x = Applies(m, e) /\ x.do = "apply" /\ Rank[x] = EnvPlace(e)
                    \/ x = Waits(m, e) /\ x.do = "status" /\ Rank[x] = EnvPlace(e) + 1
<1>1. CASE \E e \in Environments : x \in OnlyIf(RoutedTo(m, b, e), {Applies(m, e), Waits(m, e)})
  <2>1. PICK e \in Environments : RoutedTo(m, b, e) /\ x \in {Applies(m, e), Waits(m, e)}
    BY <1>1 DEF OnlyIf
  <2>2. m.rollback[e] \in BOOLEAN
    BY DEF DeliveryModels
  <2>3. Offset(e) \in Int
    BY DEF Offset
  <2>4. CASE x = Applies(m, e)
    <3>1. x.do = "apply" /\ x.env = e /\ x.undo = m.rollback[e] /\ x \in Commands
      BY <2>2, <2>4 DEF Applies, Commands, CommandNames
    <3>2. Rank[x] = EnvPlace(e)
      BY <2>3, <3>1 DEF Rank, Place, EnvPlace
    <3> QED BY <2>1, <2>4, <3>1, <3>2
  <2>5. CASE x = Waits(m, e)
    <3>1. x.do = "status" /\ x.env = e /\ x.undo = m.rollback[e] /\ x \in Commands
      BY <2>2, <2>5 DEF Waits, Commands, CommandNames
    <3>2. Rank[x] = EnvPlace(e) + 1
      BY <2>3, <3>1 DEF Rank, Place, EnvPlace
    <3> QED BY <2>1, <2>5, <3>1, <3>2
  <2> QED BY <2>1, <2>4, <2>5
<1>2. ASSUME NEW c \in CommandNames \ {"apply", "status"}, x = Plain(c),
             c = "approve" => m.approval,
             c \notin {"checkout", "intent", "template", "build", "test", "plan"} => IsRouted(m, b)
      PROVE  /\ x.do \in CommandNames \ {"apply", "status"} /\ x = Plain(x.do)
             /\ Rank[x] = Place(x.do)
             /\ x.do = "approve" => m.approval
             /\ x.do \notin {"checkout", "intent", "template", "build", "test", "plan"}
                   => IsRouted(m, b)
  <2>1. x.do = c
    BY <1>2 DEF Plain
  <2>2. Rank[x] = Place(c)
    BY <1>2, PlainRank
  <2> QED BY <1>2, <2>1, <2>2
<1>3. \/ \E e \in Environments : x \in OnlyIf(RoutedTo(m, b, e), {Applies(m, e), Waits(m, e)})
      \/ \E c \in CommandNames \ {"apply", "status"} :
            /\ x = Plain(c) /\ (c = "approve" => m.approval)
            /\ c \notin {"checkout", "intent", "template", "build", "test", "plan"} => IsRouted(m, b)
  <2>1. CASE \E c \in {"checkout", "intent", "template", "build", "test", "plan"} : x = Plain(c)
    BY <2>1 DEF CommandNames
  <2>2. CASE /\ IsRouted(m, b)
             /\ \E c \in {"push", "inspect", "recheck", "verify", "sbom", "scan", "provenance"} :
                   x = Plain(c)
    BY <2>2 DEF CommandNames
  <2>3. CASE m.approval /\ RoutedTo(m, b, "production") /\ x = Plain("approve")
    BY <2>3 DEF CommandNames, IsRouted, Environments
  <2> QED BY <2>1, <2>2, <2>3 DEF Content, OnlyIf
<1> QED BY <1>1, <1>2, <1>3

LEMMA ContentType ==
    ASSUME NEW m \in DeliveryModels, NEW b
    PROVE  Content(m, b) \subseteq Commands
<1> SUFFICES ASSUME NEW x \in Content(m, b) PROVE x \in Commands
  OBVIOUS
<1>1. \A c \in CommandNames : Plain(c) \in Commands
  BY PlainRank
<1>2. \A e \in Environments : Applies(m, e) \in Commands /\ Waits(m, e) \in Commands
  BY DEF DeliveryModels, Applies, Waits, Commands, CommandNames
<1> QED BY <1>1, <1>2, Kinds

\* A step with a lower rank comes before.
LEMMA Before ==
    ASSUME NEW s \in Seq(Commands), Ascends(Rank, s), NEW i \in DOMAIN s, NEW j \in DOMAIN s,
           Rank[s[j]] < Rank[s[i]]
    PROVE  j \in 1..i - 1
<1>1. i \in Nat /\ j \in Nat /\ 1 <= j
  OBVIOUS
<1>2. Rank[s[i]] \in Int /\ Rank[s[j]] \in Int
  <2>1. Rank \in [Commands -> Nat]
    BY DEF Rank, Place, Offset
  <2>2. s[i] \in Commands /\ s[j] \in Commands
    OBVIOUS
  <2> QED BY <2>1, <2>2
<1>3. ~(i < j) /\ i # j
  BY <1>2 DEF Ascends
<1> QED BY <1>1, <1>3

\* Commands whose absence is harmless.
Skippable == {"checkout", "build", "test"}
\* Two steps that do the same; whether a step is undone when it fails matters
\* for those of a deployment only.
Like(x, y) ==
    /\ x.do = y.do /\ x.env = y.env
    /\ x.do \in {"apply", "status"} => x.undo = y.undo

LEMMA LikeRank ==
    ASSUME NEW x \in Commands, NEW y \in Commands, Like(x, y)
    PROVE  Rank[x] = Rank[y]
  BY DEF Like, Rank

\* s does what the rendered plan of the branch does, in its order, but for
\* commands that may be skipped.
Conforms(m, b, s) ==
    /\ s \in Seq(Commands) /\ Ascends(Rank, s)
    /\ \A i \in DOMAIN s : \E x \in Content(m, b) : Like(s[i], x)
    /\ \A x \in Content(m, b) : x.do \notin Skippable => \E i \in DOMAIN s : Like(s[i], x)

\* A plan that conforms to the rendered one is safe for its branch.
LEMMA ConformingIsSafe ==
    ASSUME NEW m \in DeliveryModels, NEW b, NEW s, Conforms(m, b, s)
    PROVE  SafeFor(m, b, s)
<1>2. s \in Seq(Commands) /\ Ascends(Rank, s) /\ Conforms(m, b, s)
  BY DEF Conforms
<1>3. /\ \A i \in DOMAIN s : s[i] \in Commands /\ i \in Nat /\ 1 <= i
      /\ \A i \in DOMAIN s, j \in DOMAIN s : i \in 1..j - 1 => j \in i + 1..Len(s)
      /\ \A x \in Content(m, b) : x \in Commands
  <2>1. /\ \A i \in DOMAIN s : s[i] \in Commands /\ i \in Nat /\ 1 <= i
        /\ \A i \in DOMAIN s, j \in DOMAIN s : i \in 1..j - 1 => j \in i + 1..Len(s)
    BY <1>2
  <2> QED BY <2>1, ContentType
<1>4. ASSUME NEW x \in Content(m, b), x.do \notin Skippable, NEW i \in DOMAIN s,
             Rank[x] < Rank[s[i]]
      PROVE  \E j \in 1..i - 1 : j \in DOMAIN s /\ Like(s[j], x)
  <2>1. PICK j \in DOMAIN s : Like(s[j], x)
    BY <1>2, <1>4 DEF Conforms
  <2>2. Rank[s[j]] < Rank[s[i]]
    BY <1>3, <1>4, <2>1, LikeRank
  <2>3. j \in 1..i - 1
    BY <1>2, <2>2, Before
  <2> QED BY <2>1, <2>3
<1>5. /\ Place("checkout") = 1 /\ Place("intent") = 2 /\ Place("template") = 3
      /\ Place("build") = 4 /\ Place("test") = 5 /\ Place("plan") = 6
      /\ Place("push") = 7 /\ Place("inspect") = 8 /\ Place("recheck") = 9
      /\ Place("sbom") = 10 /\ Place("scan") = 11 /\ Place("provenance") = 12
      /\ Place("verify") = 13 /\ Place("approve") = 18
  BY DEF Place
<1>6. EnvPlace("dev") = 14 /\ EnvPlace("staging") = 16 /\ EnvPlace("production") = 19
  BY DEF EnvPlace, Offset
<1>7. \A c \in CommandNames : Plain(c).do = c /\ Rank[Plain(c)] = Place(c)
  BY PlainRank, Zenon DEF Plain
<1>8. /\ Plain("intent") \in Content(m, b)
      /\ IsRouted(m, b) => \A c \in {"push", "inspect", "recheck", "verify"} :
                               Plain(c) \in Content(m, b)
      /\ IsRouted(m, b) /\ m.sbom => Plain("sbom") \in Content(m, b)
      /\ IsRouted(m, b) /\ ScanRequested(m) => Plain("scan") \in Content(m, b)
      /\ IsRouted(m, b) /\ m.provenance => Plain("provenance") \in Content(m, b)
      /\ m.approval /\ RoutedTo(m, b, "production") => Plain("approve") \in Content(m, b)
  BY DEF Content, OnlyIf
<1>9. ASSUME NEW i \in DOMAIN s
      PROVE  \/ /\ s[i].do \in CommandNames \ {"apply", "status"}
                /\ Rank[s[i]] = Place(s[i].do)
                /\ s[i].do \in {"push", "inspect", "recheck", "verify"} => IsRouted(m, b)
             \/ /\ s[i].do = "apply"
                /\ \E e \in Environments :
                      /\ RoutedTo(m, b, e) /\ s[i].env = e /\ s[i].undo = m.rollback[e]
                      /\ Rank[s[i]] = EnvPlace(e)
             \/ s[i].do = "status" /\ \E e \in Environments : Rank[s[i]] = EnvPlace(e) + 1
  <2>1. PICK x \in Content(m, b) : Like(s[i], x)
    BY <1>2 DEF Conforms
  <2>2. Rank[s[i]] = Rank[x]
    BY <1>3, <2>1, LikeRank
  <2> QED BY <2>1, <2>2, Kinds DEF Like
\* A plain command of lower place comes before.
<1>10. ASSUME NEW c \in CommandNames \ Skippable, Plain(c) \in Content(m, b),
              NEW i \in DOMAIN s, Place(c) < Rank[s[i]]
       PROVE  \E j \in 1..i - 1 : j \in DOMAIN s /\ s[j].do = c /\ Rank[s[j]] = Place(c)
  <2>1. PICK x : x = Plain(c)
    OBVIOUS
  <2>2. x \in Content(m, b) /\ x.do = c /\ Rank[x] = Place(c) /\ x.do \notin Skippable
    BY <1>7, <1>10, <2>1
  <2>3. PICK j \in 1..i - 1 : j \in DOMAIN s /\ Like(s[j], x)
    BY <1>4, <1>10, <2>2
  <2> QED BY <1>3, <2>2, <2>3, LikeRank DEF Like
<1>11. {"intent", "push", "inspect", "recheck", "verify", "sbom", "scan", "provenance",
        "approve"} \subseteq CommandNames \ Skippable
  BY DEF CommandNames, Skippable
<1>12. ASSUME NEW i \in DOMAIN s
       PROVE  /\ s[i].do \in {"push", "inspect"} => \E j \in 1..i - 1 : s[j].do = "intent"
              /\ s[i].do = "recheck" => \E j \in 1..i - 1 : s[j].do = "inspect"
              /\ s[i].do = "verify" => \E j \in 1..i - 1 : s[j].do = "recheck"
  <2>1. CASE s[i].do \in {"push", "inspect"}
    <3>1. Place("intent") < Rank[s[i]] /\ "intent" \in CommandNames \ Skippable
      BY <1>5, <1>9, <1>11, <2>1
    <3> QED BY <1>8, <1>10, <2>1, <3>1
  <2>2. CASE s[i].do = "recheck"
    <3>1. Place("inspect") < Rank[s[i]] /\ "inspect" \in CommandNames \ Skippable /\ IsRouted(m, b)
      BY <1>5, <1>9, <1>11, <2>2
    <3> QED BY <1>8, <1>10, <2>2, <3>1
  <2>3. CASE s[i].do = "verify"
    <3>1. Place("recheck") < Rank[s[i]] /\ "recheck" \in CommandNames \ Skippable /\ IsRouted(m, b)
      BY <1>5, <1>9, <1>11, <2>3
    <3> QED BY <1>8, <1>10, <2>3, <3>1
  <2> QED BY <2>1, <2>2, <2>3
<1>13. ASSUME NEW i \in DOMAIN s, NEW j \in DOMAIN s, i < j
       PROVE  /\ s[i].do \in {"push", "recheck"} => s[j].do \notin {"checkout", "push"}
              /\ s[i].do = "verify" => s[j].do # "recheck"
  <2>1. Rank[s[i]] < Rank[s[j]]
    BY <1>2, <1>13 DEF Conforms, Ascends
  <2> QED BY <1>5, <1>9, <2>1
<1>14. ASSUME NEW i \in DOMAIN s, s[i].do = "apply"
       PROVE  LET e == s[i].env
                  before(command, k) == \E j \in 1..k - 1 : s[j].do = command
                  resolvedAndThen(command, k) ==
                      \E j \in 1..k - 1 : s[j].do = command /\ before("recheck", j)
                  verifiedWith(command, k) ==
                      \E j \in 1..k - 1 : s[j].do = "verify" /\ resolvedAndThen(command, j)
              IN  /\ e \in Environments /\ \E p \in m.routes[e] : b \in Globs[p]
                  /\ before("push", i) /\ resolvedAndThen("verify", i)
                  /\ m.sbom => verifiedWith("sbom", i)
                  /\ ScanRequested(m) => verifiedWith("scan", i)
                  /\ m.provenance => verifiedWith("provenance", i)
                  /\ e = "production" /\ m.approval => before("approve", i)
                  /\ s[i].undo = m.rollback[e]
                  /\ \E j \in i + 1..Len(s) :
                        /\ s[j].do = "status" /\ s[j].env = e
                        /\ s[j].undo = m.rollback[e]
  <2>1. PICK e \in Environments : /\ RoutedTo(m, b, e) /\ s[i].env = e
                                  /\ s[i].undo = m.rollback[e]
                                  /\ Rank[s[i]] = EnvPlace(e)
    BY <1>9, <1>14
  <2>2. IsRouted(m, b)
    BY <2>1 DEF IsRouted
  <2>3. EnvPlace(e) > 13 /\ EnvPlace(e) \in Nat
    BY <1>6 DEF Environments
  <2>4. \E j \in 1..i - 1 : s[j].do = "push"
    <3>1. Place("push") < Rank[s[i]] /\ "push" \in CommandNames \ Skippable
      BY <1>5, <1>11, <2>1, <2>3
    <3> QED BY <1>8, <1>10, <2>2, <3>1
  <2>5. PICK v \in 1..i - 1 : v \in DOMAIN s /\ s[v].do = "verify" /\ Rank[s[v]] = 13
    <3>1. Place("verify") < Rank[s[i]] /\ "verify" \in CommandNames \ Skippable /\ Place("verify") = 13
      BY <1>5, <1>11, <2>1, <2>3
    <3> QED BY <1>8, <1>10, <2>2, <3>1
  <2>6. \E j \in 1..v - 1 : s[j].do = "recheck"
    BY <1>12, <2>5
  \* Evidence of a kind, made of the resolved image before the verification.
  <2>7. ASSUME NEW c \in {"sbom", "scan", "provenance"}, Plain(c) \in Content(m, b)
        PROVE  \E j \in 1..v - 1 : s[j].do = c /\ \E k \in 1..j - 1 : s[k].do = "recheck"
    <3>1. Place(c) < 13 /\ 9 < Place(c) /\ c \in CommandNames \ Skippable /\ Place(c) \in Nat
      BY <1>5, <1>11
    <3>2. PICK j \in 1..v - 1 : j \in DOMAIN s /\ s[j].do = c /\ Rank[s[j]] = Place(c)
      BY <1>10, <2>5, <2>7, <3>1
    <3>3. Place("recheck") < Rank[s[j]] /\ "recheck" \in CommandNames \ Skippable
      BY <1>5, <1>11, <3>1, <3>2
    <3>4. \E k \in 1..j - 1 : s[k].do = "recheck"
      BY <1>8, <1>10, <2>2, <3>2, <3>3
    <3> QED BY <3>2, <3>4
  <2>8. e = "production" /\ m.approval => \E j \in 1..i - 1 : s[j].do = "approve"
    <3> SUFFICES ASSUME e = "production", m.approval PROVE \E j \in 1..i - 1 : s[j].do = "approve"
      OBVIOUS
    <3>1. Place("approve") < Rank[s[i]] /\ "approve" \in CommandNames \ Skippable
      BY <1>5, <1>6, <1>11, <2>1
    <3> QED BY <1>8, <1>10, <2>1, <3>1
  <2>9. \E j \in i + 1..Len(s) : /\ s[j].do = "status" /\ s[j].env = e
                                 /\ s[j].undo = m.rollback[e]
    <3>1. PICK x : x = Waits(m, e)
      OBVIOUS
    <3>2. x \in Content(m, b) /\ x.do = "status" /\ x.env = e /\ x.undo = m.rollback[e]
      BY <2>1, <3>1 DEF Content, OnlyIf, Waits
    <3>3. PICK j \in DOMAIN s : Like(s[j], x)
      BY <1>2, <3>2 DEF Conforms, Skippable
    <3>4. Rank[s[j]] = EnvPlace(e) + 1
      BY <1>3, <3>2, <3>3, Kinds, LikeRank
    <3>5. i \in 1..j - 1
      BY <1>2, <2>1, <2>3, <3>4, Before DEF Conforms
    <3>6. j \in i + 1..Len(s)
      BY <1>3, <3>5
    <3> QED BY <3>2, <3>3, <3>6 DEF Like
  <2>10. v \in 1..i - 1 /\ s[v].do = "verify"
    BY <2>5
  <2>11. \E p \in m.routes[e] : b \in Globs[p]
    BY <2>1 DEF RoutedTo
  <2>12. /\ m.sbom => \E j \in 1..v - 1 : s[j].do = "sbom" /\ \E k \in 1..j - 1 : s[k].do = "recheck"
         /\ ScanRequested(m) =>
               \E j \in 1..v - 1 : s[j].do = "scan" /\ \E k \in 1..j - 1 : s[k].do = "recheck"
         /\ m.provenance =>
               \E j \in 1..v - 1 : s[j].do = "provenance" /\ \E k \in 1..j - 1 : s[k].do = "recheck"
    BY <1>8, <2>2, <2>7
  <2> QED BY <2>1, <2>4, <2>6, <2>8, <2>9, <2>10, <2>11, <2>12, Zenon
<1> QED BY <1>12, <1>13, <1>14, Zenon DEF SafeFor

\* What the adapter renders is safe for every branch, and starts from a clean
\* workspace.
LEMMA RenderedIsSafe ==
    ASSUME NEW m \in DeliveryModels, NEW b
    PROVE  LET s == Plan(Render(m), b)
           IN  s \in Seq(Commands) /\ s # <<>> /\ s[1] = Plain("checkout") /\ SafeFor(m, b, s)
<1>1. PICK s : s = Plan(Render(m), b)
  OBVIOUS
<1>2. /\ s \in Seq(Commands) /\ Ascends(Rank, s)
      /\ \A x : (\E i \in DOMAIN s : s[i] = x) <=> x \in Content(m, b)
  <2>1. /\ Plan(Render(m), b) \in Seq(Commands) /\ Ascends(Rank, Plan(Render(m), b))
        /\ \A x : (\E i \in DOMAIN Plan(Render(m), b) : Plan(Render(m), b)[i] = x)
                  <=> x \in Content(m, b)
    BY RenderedPlan
  <2> QED BY <1>1, <2>1, Zenon
<1>3. SafeFor(m, b, s)
  <2>1. \A x : Like(x, x)
    BY DEF Like
  <2>2. Conforms(m, b, s)
    BY <1>2, <2>1 DEF Conforms
  <2> QED BY <2>2, ConformingIsSafe
<1>4. Plain("checkout") \in Content(m, b) /\ Rank[Plain("checkout")] = 1
  <2>1. "checkout" \in CommandNames /\ Place("checkout") = 1
    BY DEF CommandNames, Place
  <2> QED BY <2>1, PlainRank DEF Content, OnlyIf
<1>5. PICK i \in DOMAIN s : s[i] = Plain("checkout")
  BY <1>2, <1>4
<1>6. i = 1
  <2> SUFFICES ASSUME i # 1 PROVE FALSE
    OBVIOUS
  <2>1. 1 \in DOMAIN s /\ 1 < i
    BY <1>2
  <2>2. Rank[s[1]] < 1 /\ s[1] \in Content(m, b)
    BY <1>2, <1>4, <1>5, <2>1 DEF Ascends
  <2>3. \A c \in CommandNames : Place(c) >= 1 /\ Place(c) \in Nat
    BY DEF Place, CommandNames
  <2>4. \A e \in Environments : EnvPlace(e) > 13 /\ EnvPlace(e) \in Nat
    BY DEF Environments, EnvPlace, Offset
  <2>5. Rank[s[1]] >= 1 /\ Rank[s[1]] \in Nat
    BY <2>2, <2>3, <2>4, Kinds
  <2> QED BY <2>2, <2>5
<1>7. s # <<>> /\ s[1] = Plain("checkout")
  BY <1>2, <1>5, <1>6
<1> QED BY <1>1, <1>2, <1>3, <1>7, Zenon

\* The stage does not push.
Silent(stage) == Times("push", stage.steps) = 0

LEMMA SilentStage ==
    ASSUME NEW name, NEW when, NEW c \in CommandNames \ {"push"}
    PROVE  Silent(Stage(name, when, <<c>>))
<1>1. {i \in DOMAIN <<c>> : <<c>>[i] = "push"} = {}
  OBVIOUS
<1>2. Stage(name, when, <<c>>).steps = <<c>>
  BY DEF Stage
<1> QED BY <1>1, <1>2, FS_EmptySet, Zenon DEF Silent, Times

LEMMA SilentEvidence ==
    ASSUME NEW name, NEW when, NEW enabled, NEW c \in CommandNames \ {"push"}
    PROVE  Silent(Stage(name, when, EvidenceSteps(enabled, c)))
<1>1. Times("push", <<>>) = 0
  <2>1. {i \in DOMAIN <<>> : <<>>[i] = "push"} = {}
    OBVIOUS
  <2> QED BY <2>1, FS_EmptySet, Zenon DEF Times
<1>2. Stage(name, when, <<>>).steps = <<>>
  BY DEF Stage
<1>3. EvidenceSteps(enabled, c) = <<c>> \/ EvidenceSteps(enabled, c) = <<>>
  BY DEF EvidenceSteps
<1>4. Silent(Stage(name, when, <<c>>)) /\ Silent(Stage(name, when, <<>>))
  BY <1>1, <1>2, SilentStage, Zenon DEF Silent
<1> QED BY <1>3, <1>4, Zenon

LEMMA SilentDeployment ==
    ASSUME NEW m, NEW e
    PROVE  /\ Silent(ResolveDigestStage(m))
           /\ Silent(DeploymentStage(m, e)) /\ Silent(RolloutStage(m, e))
<1>1. /\ {i \in DOMAIN <<"apply">> : <<"apply">>[i] = "push"} = {}
      /\ {i \in DOMAIN <<"status">> : <<"status">>[i] = "push"} = {}
      /\ {i \in DOMAIN <<"inspect", "recheck">> : <<"inspect", "recheck">>[i] = "push"} = {}
  OBVIOUS
<1>2. /\ ResolveDigestStage(m).steps = <<"inspect", "recheck">>
      /\ DeploymentStage(m, e).steps = <<"apply">> /\ RolloutStage(m, e).steps = <<"status">>
  BY DEF Stage, ResolveDigestStage, DeploymentStage, RolloutStage
<1> QED BY <1>1, <1>2, FS_EmptySet, Zenon DEF Silent, Times

LEMMA PushesOnce ==
    ASSUME NEW m \in DeliveryModels
    PROVE  Cardinality(Uses(Render(m), "push")) = 1
<1>1. PICK p : p = Render(m)
  OBVIOUS
<1>2. IsRendering(m, p)
  BY <1>1, Stages, Zenon
<1>0. Len(p) = (IF m.approval THEN 19 ELSE 18) /\ DOMAIN p = 1..Len(p)
  BY <1>2 DEF IsRendering
<1>3. ASSUME NEW i \in 1..Len(p), i # 7
      PROVE  Silent(p[i])
  <2>1. \A c \in {"checkout", "intent", "template", "build", "test", "plan", "sbom", "scan",
                  "provenance", "verify", "approve"} : c \in CommandNames \ {"push"}
    BY DEF CommandNames
  <2>2. CASE i \in 1..6 \cup {12} \/ (m.approval /\ i = 17)
    <3>1. /\ Silent(Stage("Checkout", Always, <<"checkout">>))
          /\ Silent(ImageIntentStage) /\ Silent(DockerTemplateStage)
          /\ Silent(Stage("Application Build", Always, <<"build">>))
          /\ Silent(Stage("Test", Always, <<"test">>))
          /\ Silent(Stage("Container Plan Validation", Always, <<"plan">>))
          /\ Silent(VerifyArtifactStage(m))
          /\ Silent(Stage("Production Approval", Routed(m.routes["production"]), <<"approve">>))
      BY <2>1, SilentStage DEF ImageIntentStage, DockerTemplateStage, VerifyArtifactStage
    <3>2. \/ i = 1 \/ i = 2 \/ i = 3 \/ i = 4 \/ i = 5 \/ i = 6 \/ i = 12
          \/ m.approval /\ i = 17
      BY <2>2
    <3> QED BY <1>2, <3>1, <3>2, Zenon DEF IsRendering
  <2>3. CASE i \in 9..11
    <3>1. Silent(SbomStage(m)) /\ Silent(ScanStage(m)) /\ Silent(ProvenanceStage(m))
      BY <2>1, SilentEvidence DEF SbomStage, ScanStage, ProvenanceStage
    <3>2. i = 9 \/ i = 10 \/ i = 11
      BY <2>3
    <3> QED BY <1>2, <3>1, <3>2, Zenon DEF IsRendering
  <2>4. CASE i = 8 \/ i \in 13..16 \/ (i \in 17..19 /\ ~(m.approval /\ i = 17))
    <3>1. \/ p[i] = ResolveDigestStage(m)
          \/ \E e : p[i] = DeploymentStage(m, e) \/ p[i] = RolloutStage(m, e)
      <4>1. \/ i = 8 \/ i = 13 \/ i = 14 \/ i = 15 \/ i = 16
            \/ m.approval /\ (i = 18 \/ i = 19)
            \/ ~m.approval /\ (i = 17 \/ i = 18)
        BY <1>0, <2>4
      <4> QED BY <1>2, <4>1, Zenon DEF IsRendering
    <3> QED BY <3>1, SilentDeployment, Zenon
  <2> QED BY <1>0, <1>3, <2>2, <2>3, <2>4
<1>4. Times("push", p[7].steps) = 1
  <2>1. p[7] = BuildOnceStage(m)
    BY <1>2, Zenon DEF IsRendering
  <2>2. p[7].steps = <<"push">>
    <3>1. BuildOnceStage(m).steps = <<"push">>
      BY DEF Stage, BuildOnceStage
    <3> QED BY <2>1, <3>1, Zenon
  <2>3. {i \in DOMAIN <<"push">> : <<"push">>[i] = "push"} = {1}
    OBVIOUS
  <2>4. Cardinality({1}) = 1
    BY FS_Singleton
  <2> QED BY <2>2, <2>3, <2>4, Zenon DEF Times
<1>5. Uses(p, "push") = {7}
  <2>1. 7 \in 1..Len(p)
    BY <1>0
  <2> QED BY <1>0, <1>3, <1>4, <2>1 DEF Uses, Silent
<1> QED BY <1>1, <1>5, FS_Singleton

\* What the adapter renders for any configuration is safe for every branch, and the
\* records written beside it say of it what it does: one push, a deployment to an
\* environment for exactly the branches its record names, each after an approval
\* where the record claims one.
THEOREM RenderedPipelinesAreSafe ==
    \A m \in DeliveryModels : Safe(Render(m), m) /\ RecordsDescribe(Render(m), m)
<1> SUFFICES ASSUME NEW m \in DeliveryModels
             PROVE  Safe(Render(m), m) /\ RecordsDescribe(Render(m), m)
  OBVIOUS
<1>1. Safe(Render(m), m)
  BY RenderedIsSafe, Zenon DEF Safe
<1>2. ASSUME NEW e \in Environments, NEW b \in Branches
      PROVE  LET record == EnvironmentRecord(m, e)
                 steps == Plan(Render(m), b)
                 applies == {i \in DOMAIN steps : steps[i].do = "apply" /\ steps[i].env = e}
             IN  /\ applies # {} <=> \E q \in record.branchPatterns : b \in Globs[q]
                 /\ record.productionApproval =>
                       \A i \in applies : \E j \in 1..i - 1 : steps[j].do = "approve"
  <2>1. PICK s : s = Plan(Render(m), b)
    OBVIOUS
  <2>2. /\ s \in Seq(Commands) /\ SafeFor(m, b, s)
        /\ \A x : (\E i \in DOMAIN s : s[i] = x) <=> x \in Content(m, b)
    <3>1. /\ Plan(Render(m), b) \in Seq(Commands) /\ SafeFor(m, b, Plan(Render(m), b))
          /\ \A x : (\E i \in DOMAIN Plan(Render(m), b) : Plan(Render(m), b)[i] = x)
                    <=> x \in Content(m, b)
      BY RenderedIsSafe, RenderedPlan
    <3> QED BY <2>1, <3>1, Zenon
  <2>3. RoutedTo(m, b, e) => \E i \in DOMAIN s : s[i].do = "apply" /\ s[i].env = e
    <3>1. PICK x : x = Applies(m, e)
      OBVIOUS
    <3>2. (RoutedTo(m, b, e) => x \in Content(m, b)) /\ x.do = "apply" /\ x.env = e
      BY <3>1 DEF Content, OnlyIf, Applies
    <3> QED BY <2>2, <3>2
  <2>4. ASSUME NEW i \in DOMAIN s, s[i].do = "apply", s[i].env = e
        PROVE  /\ RoutedTo(m, b, e)
               /\ e = "production" /\ m.approval => \E j \in 1..i - 1 : s[j].do = "approve"
    BY <2>2, <2>4 DEF SafeFor, RoutedTo
  <2>5. /\ EnvironmentRecord(m, e).branchPatterns = m.routes[e]
        /\ EnvironmentRecord(m, e).productionApproval = (e = "production" /\ m.approval)
    BY DEF EnvironmentRecord
  <2> QED BY <2>1, <2>3, <2>4, <2>5 DEF RoutedTo
<1>3. ArtifactContract.maximumImageBuildInvocations = 1
  BY DEF ArtifactContract
<1> QED BY <1>1, <1>2, <1>3, PushesOnce DEF RecordsDescribe

-----------------------------------------------------------------------------
(* What the checks let pass of the pipelines that differ from a rendered   *)
(* one in one stage.                                                       *)

\* The place of a stage in a pipeline that has an approval.
NamePlace(name) ==
    CASE name = "Checkout" -> 1 [] name = "Resolve Image Intent" -> 2
      [] name = "Resolve Docker Template" -> 3 [] name = "Application Build" -> 4
      [] name = "Test" -> 5 [] name = "Container Plan Validation" -> 6
      [] name = "Build Once" -> 7 [] name = "Resolve Digest" -> 8
      [] name = "Generate SBOM" -> 9 [] name = "Scan Same Digest" -> 10
      [] name = "Produce Provenance" -> 11 [] name = "Verify Artifact Contract" -> 12
      [] name = "Deploy Same Digest dev" -> 13 [] name = "Verify Rollout dev" -> 14
      [] name = "Deploy Same Digest staging" -> 15 [] name = "Verify Rollout staging" -> 16
      [] name = "Production Approval" -> 17
      [] name = "Deploy Same Digest production" -> 18
      [] name = "Verify Rollout production" -> 19 [] OTHER -> 0

\* names is what the stages of the rendering of m are called.
IsNaming(m, names) ==
    /\ DOMAIN names = 1..(IF m.approval THEN 19 ELSE 18)
    /\ names[1] = "Checkout" /\ names[2] = "Resolve Image Intent"
    /\ names[3] = "Resolve Docker Template" /\ names[4] = "Application Build"
    /\ names[5] = "Test" /\ names[6] = "Container Plan Validation"
    /\ names[7] = "Build Once" /\ names[8] = "Resolve Digest"
    /\ names[9] = "Generate SBOM" /\ names[10] = "Scan Same Digest"
    /\ names[11] = "Produce Provenance" /\ names[12] = "Verify Artifact Contract"
    /\ names[13] = "Deploy Same Digest dev" /\ names[14] = "Verify Rollout dev"
    /\ names[15] = "Deploy Same Digest staging" /\ names[16] = "Verify Rollout staging"
    /\ m.approval => /\ names[17] = "Production Approval"
                     /\ names[18] = "Deploy Same Digest production"
                     /\ names[19] = "Verify Rollout production"
    /\ ~m.approval => /\ names[17] = "Deploy Same Digest production"
                      /\ names[18] = "Verify Rollout production"

LEMMA Naming ==
    ASSUME NEW m
    PROVE  IsNaming(m, OrderedNames(m))
<1>1. PICK c1, c2, c3, c4, c5, c6, c7, c8, c9, c10, c11, c12, c13, c14, c15, c16, g, o1, o2 :
         /\ c1 = "Checkout" /\ c2 = "Resolve Image Intent"
         /\ c3 = "Resolve Docker Template" /\ c4 = "Application Build"
         /\ c5 = "Test" /\ c6 = "Container Plan Validation"
         /\ c7 = "Build Once" /\ c8 = "Resolve Digest"
         /\ c9 = "Generate SBOM" /\ c10 = "Scan Same Digest"
         /\ c11 = "Produce Provenance" /\ c12 = "Verify Artifact Contract"
         /\ c13 = "Deploy Same Digest dev" /\ c14 = "Verify Rollout dev"
         /\ c15 = "Deploy Same Digest staging" /\ c16 = "Verify Rollout staging"
         /\ g = "Production Approval" /\ o1 = "Deploy Same Digest production"
         /\ o2 = "Verify Rollout production"
  OBVIOUS
<1>2. PICK S : {c1, c2, c3, c4, c5, c6, c7, c8, c9, c10, c11, c12, c13, c14, c15, c16,
                g, o1, o2} \subseteq S
  OBVIOUS
<1>0. PICK h, a, o :
         /\ h = <<c1, c2, c3, c4, c5, c6, c7, c8, c9, c10, c11, c12, c13, c14, c15, c16>>
         /\ a = IF m.approval THEN <<g>> ELSE <<>>
         /\ o = <<o1, o2>>
  OBVIOUS
<1>3. PICK x : x = h \o a
  OBVIOUS
<1>4. PICK names : names = x \o o
  OBVIOUS
<1>5. OrderedNames(m) = names
  <2>1. /\ Deploy["dev"] = "Deploy Same Digest dev"
        /\ Deploy["staging"] = "Deploy Same Digest staging"
        /\ Deploy["production"] = "Deploy Same Digest production"
        /\ Rollout["dev"] = "Verify Rollout dev"
        /\ Rollout["staging"] = "Verify Rollout staging"
        /\ Rollout["production"] = "Verify Rollout production"
    BY DEF Deploy, Rollout
  <2> QED BY <1>0, <1>1, <1>3, <1>4, <2>1, Zenon DEF OrderedNames
<1>6. h \in Seq(S) /\ Len(h) = 16 /\ o \in Seq(S) /\ Len(o) = 2
      /\ o[1] = o1 /\ o[2] = o2
  BY <1>0, <1>2
<1>7. a \in Seq(S) /\ Len(a) = (IF m.approval THEN 1 ELSE 0)
      /\ (m.approval => a[1] = g)
  <2>1. CASE m.approval
    <3>1. a = <<g>>
      BY <1>0, <2>1, Zenon
    <3>2. g \in S
      BY <1>2
    <3>3. a \in Seq(S) /\ Len(a) = 1 /\ a[1] = g
      BY <3>1, <3>2
    <3> QED BY <2>1, <3>3
  <2>2. CASE ~m.approval
    <3>1. a = <<>>
      BY <1>0, <2>2, Zenon
    <3>2. a \in Seq(S) /\ Len(a) = 0
      BY <3>1
    <3> QED BY <2>2, <3>2
  <2> QED BY <2>1, <2>2
<1>8. Joins(S, x, h, a) /\ Joins(S, names, x, o)
  <2>1. Joins(S, x, h, a)
    BY <1>3, <1>6, <1>7, Joined
  <2>2. x \in Seq(S)
    BY <2>1 DEF Joins
  <2> QED BY <1>4, <1>6, <2>1, <2>2, Joined
<1>9. PICK k \in Nat : k = Len(a) /\ k = (IF m.approval THEN 1 ELSE 0)
  BY <1>7
<1>10. /\ Len(x) = 16 + k /\ \A i \in 1..16 : x[i] = h[i]
       /\ m.approval => x[17] = g
  <2>1. Len(x) = 16 + k /\ \A i \in 1..16 : x[i] = h[i]
    BY <1>6, <1>8, <1>9 DEF Joins
  <2>2. \A i \in 1..k : x[16 + i] = a[i]
    BY <1>6, <1>8, <1>9 DEF Joins
  <2>3. m.approval => 1 \in 1..k /\ 16 + 1 = 17
    BY <1>9
  <2> QED BY <1>7, <2>1, <2>2, <2>3
<1>11. /\ names \in Seq(S) /\ Len(names) = 18 + k
       /\ \A i \in 1..16 + k : names[i] = x[i]
       /\ names[17 + k] = o1
       /\ names[18 + k] = o2
  <2>1. /\ names \in Seq(S) /\ Len(names) = (16 + k) + 2
        /\ \A i \in 1..16 + k : names[i] = x[i]
        /\ \A i \in 1..2 : names[(16 + k) + i] = o[i]
    BY <1>6, <1>8, <1>10 DEF Joins
  <2>2. o[1] = o1 /\ o[2] = o2
    BY <1>6
  <2>3. 1 \in 1..2 /\ 2 \in 1..2 /\ (16 + k) + 1 = 17 + k /\ (16 + k) + 2 = 18 + k
    OBVIOUS
  <2>4. names[17 + k] = o[1] /\ names[18 + k] = o[2]
    BY <2>1, <2>3
  <2>5. Len(names) = 18 + k
    BY <2>1
  <2> QED BY <2>1, <2>2, <2>4, <2>5
<1>12. \A i \in 1..16 : names[i] = h[i]
  <2>1. \A i \in 1..16 : i \in 1..16 + k
    BY <1>9
  <2> QED BY <1>10, <1>11, <2>1
<1>13. /\ h[1] = c1 /\ h[2] = c2 /\ h[3] = c3 /\ h[4] = c4 /\ h[5] = c5 /\ h[6] = c6
       /\ h[7] = c7 /\ h[8] = c8 /\ h[9] = c9 /\ h[10] = c10 /\ h[11] = c11 /\ h[12] = c12
       /\ h[13] = c13 /\ h[14] = c14 /\ h[15] = c15 /\ h[16] = c16
  BY <1>0
<1>14. DOMAIN names = 1..(IF m.approval THEN 19 ELSE 18)
  <2>1. DOMAIN names = 1..18 + k
    BY <1>11, LenProperties
  <2>2. 18 + k = (IF m.approval THEN 19 ELSE 18)
    BY <1>9
  <2> QED BY <2>1, <2>2
<1>15. /\ m.approval => /\ names[17] = g
                        /\ names[18] = o1
                        /\ names[19] = o2
       /\ ~m.approval => /\ names[17] = o1
                         /\ names[18] = o2
  <2>1. CASE m.approval
    <3>1. k = 1 /\ 17 + k = 18 /\ 18 + k = 19 /\ 17 \in 1..16 + k
      BY <1>9, <2>1
    <3> QED BY <1>10, <1>11, <2>1, <3>1
  <2>2. CASE ~m.approval
    <3>1. k = 0 /\ 17 + k = 17 /\ 18 + k = 18
      BY <1>9, <2>2
    <3> QED BY <1>11, <2>2, <3>1
  <2> QED BY <2>1, <2>2
<1>16. IsNaming(m, names)
  <2>1. /\ names[1] = h[1] /\ names[2] = h[2] /\ names[3] = h[3] /\ names[4] = h[4]
        /\ names[5] = h[5] /\ names[6] = h[6] /\ names[7] = h[7] /\ names[8] = h[8]
        /\ names[9] = h[9] /\ names[10] = h[10] /\ names[11] = h[11] /\ names[12] = h[12]
        /\ names[13] = h[13] /\ names[14] = h[14] /\ names[15] = h[15] /\ names[16] = h[16]
    BY <1>12
  <2>2. /\ names[1] = c1 /\ names[2] = c2 /\ names[3] = c3 /\ names[4] = c4
        /\ names[5] = c5 /\ names[6] = c6 /\ names[7] = c7 /\ names[8] = c8
        /\ names[9] = c9 /\ names[10] = c10 /\ names[11] = c11 /\ names[12] = c12
        /\ names[13] = c13 /\ names[14] = c14 /\ names[15] = c15 /\ names[16] = c16
    BY <1>13, <2>1
  <2> QED BY <1>1, <1>14, <1>15, <2>2 DEF IsNaming
<1> QED BY <1>5, <1>16, Zenon

\* A stage is a record of these fields.
IsStage(stage) ==
    /\ stage = [name |-> stage.name, when |-> stage.when, env |-> stage.env,
                steps |-> stage.steps, undo |-> stage.undo]
    /\ stage.undo \in BOOLEAN

Called(stage, name) == IsStage(stage) /\ stage.name = name

LEMMA StageIsStage ==
    ASSUME NEW name, NEW when, NEW steps
    PROVE  Called(Stage(name, when, steps), name)
  BY DEF Stage, IsStage, Called

LEMMA DeploymentIsStage ==
    ASSUME NEW m \in DeliveryModels, NEW e \in Environments
    PROVE  /\ Called(DeploymentStage(m, e), Deploy[e])
           /\ DeploymentStage(m, e).when = Routed(m.routes[e])
           /\ DeploymentStage(m, e).undo = m.rollback[e]
           /\ Called(RolloutStage(m, e), Rollout[e])
           /\ RolloutStage(m, e).when = Routed(m.routes[e])
           /\ RolloutStage(m, e).undo = m.rollback[e]
<1>1. m.rollback[e] \in BOOLEAN
  BY DEF DeliveryModels
<1> QED BY <1>1 DEF DeploymentStage, RolloutStage, IsStage, Called

\* p has exactly one stage of each name that the rendering of m has, in its place.
Labelled(m, p) ==
    /\ DOMAIN p = 1..Len(Render(m))
    /\ \A i \in DOMAIN p : Named(p, OrderedNames(m)[i]) = {i}

\* What is known of the stages of a rendered pipeline and of their names.
LEMMA RenderedNames ==
    ASSUME NEW m \in DeliveryModels
    PROVE  LET r == Render(m)
               names == OrderedNames(m)
           IN  /\ Len(r) = (IF m.approval THEN 19 ELSE 18) /\ DOMAIN r = 1..Len(r)
               /\ DOMAIN names = 1..Len(r)
               /\ \A i \in 1..Len(r) : IsStage(r[i]) /\ r[i].name = names[i]
               /\ \A i, j \in 1..Len(r) : names[i] = names[j] => i = j
               /\ Labelled(m, r)
<1>1. PICK r, names : r = Render(m) /\ names = OrderedNames(m)
  OBVIOUS
<1>2. IsRendering(m, r) /\ IsNaming(m, names)
  BY <1>1, Stages, Naming, Zenon
<1>3. /\ Len(r) = (IF m.approval THEN 19 ELSE 18) /\ DOMAIN r = 1..Len(r)
      /\ DOMAIN names = 1..Len(r)
  BY <1>2 DEF IsRendering, IsNaming
<1>4. ASSUME NEW i \in 1..Len(r)
      PROVE  \/ i = 1 \/ i = 2 \/ i = 3 \/ i = 4 \/ i = 5 \/ i = 6 \/ i = 7 \/ i = 8 \/ i = 9
             \/ i = 10 \/ i = 11 \/ i = 12 \/ i = 13 \/ i = 14 \/ i = 15 \/ i = 16
             \/ m.approval /\ (i = 17 \/ i = 18 \/ i = 19)
             \/ ~m.approval /\ (i = 17 \/ i = 18)
  BY <1>3
<1>5. ASSUME NEW i \in 1..Len(r)
      PROVE  IsStage(r[i]) /\ r[i].name = names[i]
  <2>2. \A e \in Environments : Called(DeploymentStage(m, e), Deploy[e])
                                /\ Called(RolloutStage(m, e), Rollout[e])
    BY DeploymentIsStage
  <2>3. /\ "dev" \in Environments /\ "staging" \in Environments /\ "production" \in Environments
        /\ Deploy["dev"] = "Deploy Same Digest dev"
        /\ Deploy["staging"] = "Deploy Same Digest staging"
        /\ Deploy["production"] = "Deploy Same Digest production"
        /\ Rollout["dev"] = "Verify Rollout dev"
        /\ Rollout["staging"] = "Verify Rollout staging"
        /\ Rollout["production"] = "Verify Rollout production"
    BY DEF Environments, Deploy, Rollout
  <2>4. Called(r[i], names[i])
    <3>1. Called(r[1], names[1])
      <4>1. r[1] = Stage("Checkout", Always, <<"checkout">>) /\ names[1] = "Checkout"
        BY <1>2, Zenon DEF IsRendering, IsNaming
      <4>2. Called(Stage("Checkout", Always, <<"checkout">>), "Checkout")
        BY StageIsStage
      <4> QED BY <4>1, <4>2, Zenon
    <3>2. Called(r[2], names[2])
      <4>1. r[2] = ImageIntentStage /\ names[2] = "Resolve Image Intent"
        BY <1>2, Zenon DEF IsRendering, IsNaming
      <4>2. Called(ImageIntentStage, "Resolve Image Intent")
        BY StageIsStage DEF ImageIntentStage
      <4> QED BY <4>1, <4>2, Zenon
    <3>3. Called(r[3], names[3])
      <4>1. r[3] = DockerTemplateStage /\ names[3] = "Resolve Docker Template"
        BY <1>2, Zenon DEF IsRendering, IsNaming
      <4>2. Called(DockerTemplateStage, "Resolve Docker Template")
        BY StageIsStage DEF DockerTemplateStage
      <4> QED BY <4>1, <4>2, Zenon
    <3>4. Called(r[4], names[4])
      <4>1. r[4] = Stage("Application Build", Always, <<"build">>) /\ names[4] = "Application Build"
        BY <1>2, Zenon DEF IsRendering, IsNaming
      <4>2. Called(Stage("Application Build", Always, <<"build">>), "Application Build")
        BY StageIsStage
      <4> QED BY <4>1, <4>2, Zenon
    <3>5. Called(r[5], names[5])
      <4>1. r[5] = Stage("Test", Always, <<"test">>) /\ names[5] = "Test"
        BY <1>2, Zenon DEF IsRendering, IsNaming
      <4>2. Called(Stage("Test", Always, <<"test">>), "Test")
        BY StageIsStage
      <4> QED BY <4>1, <4>2, Zenon
    <3>6. Called(r[6], names[6])
      <4>1. r[6] = Stage("Container Plan Validation", Always, <<"plan">>) /\ names[6] = "Container Plan Validation"
        BY <1>2, Zenon DEF IsRendering, IsNaming
      <4>2. Called(Stage("Container Plan Validation", Always, <<"plan">>), "Container Plan Validation")
        BY StageIsStage
      <4> QED BY <4>1, <4>2, Zenon
    <3>7. Called(r[7], names[7])
      <4>1. r[7] = BuildOnceStage(m) /\ names[7] = "Build Once"
        BY <1>2, Zenon DEF IsRendering, IsNaming
      <4>2. Called(BuildOnceStage(m), "Build Once")
        BY StageIsStage DEF BuildOnceStage
      <4> QED BY <4>1, <4>2, Zenon
    <3>8. Called(r[8], names[8])
      <4>1. r[8] = ResolveDigestStage(m) /\ names[8] = "Resolve Digest"
        BY <1>2, Zenon DEF IsRendering, IsNaming
      <4>2. Called(ResolveDigestStage(m), "Resolve Digest")
        BY StageIsStage DEF ResolveDigestStage
      <4> QED BY <4>1, <4>2, Zenon
    <3>9. Called(r[9], names[9])
      <4>1. r[9] = SbomStage(m) /\ names[9] = "Generate SBOM"
        BY <1>2, Zenon DEF IsRendering, IsNaming
      <4>2. Called(SbomStage(m), "Generate SBOM")
        BY StageIsStage DEF SbomStage
      <4> QED BY <4>1, <4>2, Zenon
    <3>10. Called(r[10], names[10])
      <4>1. r[10] = ScanStage(m) /\ names[10] = "Scan Same Digest"
        BY <1>2, Zenon DEF IsRendering, IsNaming
      <4>2. Called(ScanStage(m), "Scan Same Digest")
        BY StageIsStage DEF ScanStage
      <4> QED BY <4>1, <4>2, Zenon
    <3>11. Called(r[11], names[11])
      <4>1. r[11] = ProvenanceStage(m) /\ names[11] = "Produce Provenance"
        BY <1>2, Zenon DEF IsRendering, IsNaming
      <4>2. Called(ProvenanceStage(m), "Produce Provenance")
        BY StageIsStage DEF ProvenanceStage
      <4> QED BY <4>1, <4>2, Zenon
    <3>12. Called(r[12], names[12])
      <4>1. r[12] = VerifyArtifactStage(m) /\ names[12] = "Verify Artifact Contract"
        BY <1>2, Zenon DEF IsRendering, IsNaming
      <4>2. Called(VerifyArtifactStage(m), "Verify Artifact Contract")
        BY StageIsStage DEF VerifyArtifactStage
      <4> QED BY <4>1, <4>2, Zenon
    <3>13. Called(r[13], names[13])
      <4>1. r[13] = DeploymentStage(m, "dev") /\ names[13] = Deploy["dev"]
        BY <1>2, <2>3, Zenon DEF IsRendering, IsNaming
      <4> QED BY <2>2, <2>3, <4>1, Zenon
    <3>14. Called(r[14], names[14])
      <4>1. r[14] = RolloutStage(m, "dev") /\ names[14] = Rollout["dev"]
        BY <1>2, <2>3, Zenon DEF IsRendering, IsNaming
      <4> QED BY <2>2, <2>3, <4>1, Zenon
    <3>15. Called(r[15], names[15])
      <4>1. r[15] = DeploymentStage(m, "staging") /\ names[15] = Deploy["staging"]
        BY <1>2, <2>3, Zenon DEF IsRendering, IsNaming
      <4> QED BY <2>2, <2>3, <4>1, Zenon
    <3>16. Called(r[16], names[16])
      <4>1. r[16] = RolloutStage(m, "staging") /\ names[16] = Rollout["staging"]
        BY <1>2, <2>3, Zenon DEF IsRendering, IsNaming
      <4> QED BY <2>2, <2>3, <4>1, Zenon
    <3>17. m.approval => /\ Called(r[17], names[17]) /\ Called(r[18], names[18])
                         /\ Called(r[19], names[19])
      <4> SUFFICES ASSUME m.approval
                   PROVE  /\ Called(r[17], names[17]) /\ Called(r[18], names[18])
                          /\ Called(r[19], names[19])
        OBVIOUS
      <4>1. /\ r[17] = Stage("Production Approval", Routed(m.routes["production"]),
                             <<"approve">>)
            /\ names[17] = "Production Approval"
            /\ r[18] = DeploymentStage(m, "production") /\ names[18] = Deploy["production"]
            /\ r[19] = RolloutStage(m, "production") /\ names[19] = Rollout["production"]
        BY <1>2, <2>3, Zenon DEF IsRendering, IsNaming
      <4>2. Called(Stage("Production Approval", Routed(m.routes["production"]),
                         <<"approve">>), "Production Approval")
        BY StageIsStage
      <4> QED BY <2>2, <2>3, <4>1, <4>2, Zenon
    <3>18. ~m.approval => Called(r[17], names[17]) /\ Called(r[18], names[18])
      BY <1>2, <2>2, <2>3, Zenon DEF IsRendering, IsNaming
    <3> QED BY <1>4, <3>1, <3>2, <3>3, <3>4, <3>5, <3>6, <3>7, <3>8, <3>9, <3>10, <3>11,
               <3>12, <3>13, <3>14, <3>15, <3>16, <3>17, <3>18, Zenon
  <2> QED BY <2>4 DEF Called
<1>6. ASSUME NEW i \in 1..Len(r)
      PROVE  NamePlace(names[i]) = IF i <= 16 \/ m.approval THEN i ELSE i + 1
  <2>1. /\ NamePlace("Checkout") = 1 /\ NamePlace("Resolve Image Intent") = 2
        /\ NamePlace("Resolve Docker Template") = 3 /\ NamePlace("Application Build") = 4
        /\ NamePlace("Test") = 5 /\ NamePlace("Container Plan Validation") = 6
        /\ NamePlace("Build Once") = 7 /\ NamePlace("Resolve Digest") = 8
        /\ NamePlace("Generate SBOM") = 9 /\ NamePlace("Scan Same Digest") = 10
        /\ NamePlace("Produce Provenance") = 11
        /\ NamePlace("Verify Artifact Contract") = 12
        /\ NamePlace("Deploy Same Digest dev") = 13 /\ NamePlace("Verify Rollout dev") = 14
        /\ NamePlace("Deploy Same Digest staging") = 15
        /\ NamePlace("Verify Rollout staging") = 16
        /\ NamePlace("Production Approval") = 17
        /\ NamePlace("Deploy Same Digest production") = 18
        /\ NamePlace("Verify Rollout production") = 19
    BY DEF NamePlace
  <2>2. NamePlace(names[1]) = 1
    BY <1>2, <2>1, Zenon DEF IsNaming
  <2>3. NamePlace(names[2]) = 2
    BY <1>2, <2>1, Zenon DEF IsNaming
  <2>4. NamePlace(names[3]) = 3
    BY <1>2, <2>1, Zenon DEF IsNaming
  <2>5. NamePlace(names[4]) = 4
    BY <1>2, <2>1, Zenon DEF IsNaming
  <2>6. NamePlace(names[5]) = 5
    BY <1>2, <2>1, Zenon DEF IsNaming
  <2>7. NamePlace(names[6]) = 6
    BY <1>2, <2>1, Zenon DEF IsNaming
  <2>8. NamePlace(names[7]) = 7
    BY <1>2, <2>1, Zenon DEF IsNaming
  <2>9. NamePlace(names[8]) = 8
    BY <1>2, <2>1, Zenon DEF IsNaming
  <2>10. NamePlace(names[9]) = 9
    BY <1>2, <2>1, Zenon DEF IsNaming
  <2>11. NamePlace(names[10]) = 10
    BY <1>2, <2>1, Zenon DEF IsNaming
  <2>12. NamePlace(names[11]) = 11
    BY <1>2, <2>1, Zenon DEF IsNaming
  <2>13. NamePlace(names[12]) = 12
    BY <1>2, <2>1, Zenon DEF IsNaming
  <2>14. NamePlace(names[13]) = 13
    BY <1>2, <2>1, Zenon DEF IsNaming
  <2>15. NamePlace(names[14]) = 14
    BY <1>2, <2>1, Zenon DEF IsNaming
  <2>16. NamePlace(names[15]) = 15
    BY <1>2, <2>1, Zenon DEF IsNaming
  <2>17. NamePlace(names[16]) = 16
    BY <1>2, <2>1, Zenon DEF IsNaming
  <2>18. m.approval => /\ NamePlace(names[17]) = 17 /\ NamePlace(names[18]) = 18
                       /\ NamePlace(names[19]) = 19
    BY <1>2, <2>1, Zenon DEF IsNaming
  <2>19. ~m.approval => NamePlace(names[17]) = 18 /\ NamePlace(names[18]) = 19
    BY <1>2, <2>1, Zenon DEF IsNaming
  <2> QED BY <1>4, <2>2, <2>3, <2>4, <2>5, <2>6, <2>7, <2>8, <2>9, <2>10, <2>11, <2>12, <2>13,
             <2>14, <2>15, <2>16, <2>17, <2>18, <2>19
<1>7. ASSUME NEW i \in 1..Len(r), NEW j \in 1..Len(r), names[i] = names[j]
      PROVE  i = j
  <2>1. NamePlace(names[i]) = NamePlace(names[j]) /\ i \in 1..19 /\ j \in 1..19
        /\ Len(r) = (IF m.approval THEN 19 ELSE 18)
    BY <1>3, <1>7
  <2>2. (IF i <= 16 \/ m.approval THEN i ELSE i + 1) = (IF j <= 16 \/ m.approval THEN j ELSE j + 1)
    BY <1>6, <2>1
  <2> QED BY <2>1, <2>2
<1>8. Labelled(m, r)
  BY <1>1, <1>3, <1>5, <1>7 DEF Labelled, Named
<1> QED BY <1>1, <1>3, <1>5, <1>7, <1>8, Zenon

\* r with another stage at place k.
Replaced(r, k, stage) == [r EXCEPT ![k] = stage]

\* A pipeline with another stage of the same name in place of one of a rendering.
LEMMA ReplacementIsLabelled ==
    ASSUME NEW m \in DeliveryModels, NEW r, r = Render(m), NEW k \in 1..Len(r), NEW stage,
           stage.name = r[k].name, NEW p, p = Replaced(r, k, stage)
    PROVE  /\ Labelled(m, p) /\ Len(p) = Len(r) /\ p[k] = stage
           /\ \A i \in 1..Len(r) : i # k => p[i] = r[i]
<1>1. PICK names : r = Render(m) /\ names = OrderedNames(m)
  OBVIOUS
<1>2. /\ Len(r) = (IF m.approval THEN 19 ELSE 18) /\ DOMAIN r = 1..Len(r)
      /\ \A i \in 1..Len(r) : r[i].name = names[i]
      /\ \A i, j \in 1..Len(r) : names[i] = names[j] => i = j
  <2>1. LET q == Render(m)
            labels == OrderedNames(m)
        IN  /\ Len(q) = (IF m.approval THEN 19 ELSE 18) /\ DOMAIN q = 1..Len(q)
            /\ \A i \in 1..Len(q) : q[i].name = labels[i]
            /\ \A i, j \in 1..Len(q) : labels[i] = labels[j] => i = j
    BY RenderedNames
  <2> QED BY <1>1, <2>1, Zenon
<1>3. p = [r EXCEPT ![k] = stage] /\ k \in 1..Len(r) /\ stage.name = r[k].name
  BY <1>1, Zenon DEF Replaced
<1>4. /\ DOMAIN p = 1..Len(r) /\ p[k] = stage
      /\ \A i \in 1..Len(r) : i # k => p[i] = r[i]
  BY <1>2, <1>3
<1>5. \A i \in 1..Len(r) : p[i].name = names[i]
  BY <1>2, <1>3, <1>4
<1>6. \A i \in DOMAIN p : Named(p, names[i]) = {i}
  BY <1>2, <1>4, <1>5 DEF Named
<1>7. Len(p) = Len(r)
  <2>1. PICK n \in Nat : n = Len(r)
    BY <1>2
  <2>2. DOMAIN p = 1..n
    BY <1>4, <2>1
  <2>3. p = [i \in 1..n |-> p[i]]
    BY <1>2, <1>3, <2>1
  <2>4. PICK S : \A i \in 1..n : p[i] \in S
    <3>1. \A i \in 1..n : p[i] \in {p[j] : j \in 1..n}
      OBVIOUS
    <3> QED BY <3>1
  <2>5. p \in [1..n -> S]
    BY <2>3, <2>4
  <2>6. p \in Seq(S)
    <3>1. [1..n -> S] \in {[1..l -> S] : l \in Nat}
      BY <2>1
    <3>2. p \in UNION {[1..l -> S] : l \in Nat}
      BY <2>5, <3>1, Zenon
    <3>3. Seq(S) = UNION {[1..l -> S] : l \in Nat}
      BY SeqDef
    <3> QED BY <3>2, <3>3, Zenon
  <2> QED BY <2>1, <2>2, <2>6, LenProperties
<1> QED BY <1>1, <1>4, <1>6, <1>7, Zenon DEF Labelled

LEMMA NamesOfStages ==
    ASSUME NEW m \in DeliveryModels, NEW r, r = Render(m), NEW names, names = OrderedNames(m),
           NEW n, n = Len(r)
    PROVE  /\ n \in 18..19 /\ DOMAIN names = 1..n /\ DOMAIN r = 1..n
           /\ \A i \in 1..n : r[i].name = names[i]
           /\ \A i, j \in 1..n : names[i] = names[j] => i = j
<1>1. LET q == Render(m)
          labels == OrderedNames(m)
      IN  /\ Len(q) = (IF m.approval THEN 19 ELSE 18) /\ DOMAIN q = 1..Len(q)
          /\ DOMAIN labels = 1..Len(q)
          /\ \A i \in 1..Len(q) : q[i].name = labels[i]
          /\ \A i, j \in 1..Len(q) : labels[i] = labels[j] => i = j
  BY RenderedNames
<1>2. n = (IF m.approval THEN 19 ELSE 18)
  BY <1>1
<1>3. n \in 18..19
  BY <1>2
<1> QED BY <1>1, <1>3, Zenon

\* A pipeline that misses one of the stages is refused.
LEMMA RemovalIsRefused ==
    ASSUME NEW m \in DeliveryModels, NEW k \in 1..Len(Render(m)),
           NEW p, p = SubSeq(Render(m), 1, k - 1) \o SubSeq(Render(m), k + 1, Len(Render(m)))
    PROVE  StageMismatches(p, m) # {}
<1>1. PICK r, names, n : r = Render(m) /\ names = OrderedNames(m) /\ n = Len(r)
  OBVIOUS
<1>2. /\ n \in Nat /\ DOMAIN names = 1..n
      /\ \A i \in 1..n : r[i].name = names[i]
      /\ \A i, j \in 1..n : names[i] = names[j] => i = j
  <2>1. n \in 18..19
    BY <1>1, NamesOfStages, Zenon
  <2>2. n \in Nat
    BY <2>1
  <2>3. /\ DOMAIN names = 1..n /\ \A i \in 1..n : r[i].name = names[i]
        /\ \A i, j \in 1..n : names[i] = names[j] => i = j
    BY <1>1, NamesOfStages
  <2> QED BY <2>2, <2>3
<1>3. PICK S : r \in Seq(S)
  BY <1>1, Stages, Zenon
<1>4. k \in 1..n
  BY <1>1
<1>5. PICK s, t : s = SubSeq(r, 1, k - 1) /\ t = SubSeq(r, k + 1, n)
  OBVIOUS
<1>6. p = s \o t
  BY <1>1, <1>5, Zenon
<1>7. /\ s \in Seq(S) /\ \A i \in 1..Len(s) : s[i] = r[i] /\ i \in 1..n /\ i # k
  BY <1>1, <1>2, <1>3, <1>4, <1>5, SubSeqProperties
<1>8. /\ t \in Seq(S)
      /\ \A i \in 1..Len(t) : t[i] = r[k + i] /\ k + i \in 1..n /\ k + i # k
  BY <1>1, <1>2, <1>3, <1>4, <1>5, SubSeqProperties
<1>9. Joins(S, p, s, t)
  BY <1>6, <1>7, <1>8, Joined
<1>10. ASSUME NEW i \in DOMAIN p PROVE \E j \in 1..n : j # k /\ p[i] = r[j]
  <2>1. PICK x \in Nat, y \in Nat : x = Len(s) /\ y = Len(t)
    BY <1>7, <1>8, LenProperties
  <2>2. DOMAIN p = 1..x + y
    BY <1>7, <1>8, <1>9, <2>1, LenProperties DEF Joins
  <2>3. i \in 1..x \/ \E j \in 1..y : i = x + j
    <3>1. i \in 1..x + y
      BY <2>2
    <3>2. i \in 1..x \/ (i - x \in 1..y /\ i = x + (i - x))
      BY <3>1
    <3> QED BY <3>2
  <2>4. /\ \A j \in 1..x : p[j] = s[j] /\ s[j] = r[j] /\ j \in 1..n /\ j # k
        /\ \A j \in 1..y : p[x + j] = t[j] /\ t[j] = r[k + j] /\ k + j \in 1..n /\ k + j # k
    BY <1>7, <1>8, <1>9, <2>1, Zenon DEF Joins
  <2> QED BY <2>3, <2>4, Zenon
<1>11. Named(p, names[k]) = {}
  <2> SUFFICES ASSUME NEW i \in DOMAIN p, p[i].name = names[k] PROVE FALSE
    BY DEF Named
  <2>1. PICK j \in 1..n : j # k /\ p[i] = r[j]
    BY <1>10
  <2>2. names[j] = names[k]
    BY <1>2, <2>1, Zenon
  <2> QED BY <1>2, <1>4, <2>1, <2>2, Zenon
<1>12. Cardinality(Named(p, names[k])) # 1
  BY <1>11, FS_EmptySet
<1>13. <<"stages", names[k]>> \in StageMismatches(p, m)
  BY <1>1, <1>2, <1>4, <1>12, Zenon DEF StageMismatches
<1> QED BY <1>13

\* A pipeline that has one of the stages twice is refused.
LEMMA DoublingIsRefused ==
    ASSUME NEW m \in DeliveryModels, NEW k \in 1..Len(Render(m)),
           NEW p, p = SubSeq(Render(m), 1, k) \o SubSeq(Render(m), k, Len(Render(m)))
    PROVE  StageMismatches(p, m) # {}
<1>1. PICK r, names, n : r = Render(m) /\ names = OrderedNames(m) /\ n = Len(r)
  OBVIOUS
<1>2. /\ n \in Nat /\ DOMAIN names = 1..n
      /\ \A i \in 1..n : r[i].name = names[i]
      /\ \A i, j \in 1..n : names[i] = names[j] => i = j
  <2>1. n \in 18..19
    BY <1>1, NamesOfStages, Zenon
  <2>2. n \in Nat
    BY <2>1
  <2>3. /\ DOMAIN names = 1..n /\ \A i \in 1..n : r[i].name = names[i]
        /\ \A i, j \in 1..n : names[i] = names[j] => i = j
    BY <1>1, NamesOfStages
  <2> QED BY <2>2, <2>3
<1>3. PICK S : r \in Seq(S)
  BY <1>1, Stages, Zenon
<1>4. k \in 1..n
  BY <1>1
<1>5. PICK s, t : s = SubSeq(r, 1, k) /\ t = SubSeq(r, k, n)
  OBVIOUS
<1>6. p = s \o t
  BY <1>1, <1>5, Zenon
<1>7. s \in Seq(S) /\ Len(s) = k /\ s[k] = r[k]
  BY <1>1, <1>2, <1>3, <1>4, <1>5, SubSeqProperties
<1>8. t \in Seq(S) /\ 1 \in 1..Len(t) /\ t[1] = r[k]
  BY <1>1, <1>2, <1>3, <1>4, <1>5, SubSeqProperties
<1>9. Joins(S, p, s, t)
  BY <1>6, <1>7, <1>8, Joined
<1>10. PICK y \in Nat : /\ y = Len(t) /\ 1 \in 1..y /\ k \in Nat /\ k + y \in Nat
                        /\ DOMAIN p = 1..k + y
  <2>1. Len(t) \in Nat /\ k \in Nat
    BY <1>4, <1>8, LenProperties
  <2>2. DOMAIN p = 1..k + Len(t)
    BY <1>7, <1>8, <1>9, LenProperties DEF Joins
  <2> QED BY <1>8, <2>1, <2>2
<1>11. p[k] = r[k] /\ p[k + 1] = r[k]
  <2>1. k \in 1..k
    BY <1>4
  <2>2. p[k] = s[k] /\ p[k + 1] = t[1]
    BY <1>7, <1>8, <1>9, <2>1, Zenon DEF Joins
  <2> QED BY <1>7, <1>8, <2>2
<1>12. {k, k + 1} \subseteq Named(p, names[k])
  <2>1. k \in DOMAIN p /\ k + 1 \in DOMAIN p
    BY <1>4, <1>10
  <2>2. p[k].name = names[k] /\ p[k + 1].name = names[k]
    BY <1>2, <1>4, <1>11, Zenon
  <2> QED BY <2>1, <2>2 DEF Named
<1>13. Cardinality(Named(p, names[k])) # 1
  <2>1. Named(p, names[k]) \subseteq 1..k + y
    BY <1>10 DEF Named
  <2>2. IsFiniteSet(Named(p, names[k]))
    <3>1. IsFiniteSet(1..k + y)
      BY <1>10, FS_Interval
    <3> QED BY <2>1, <3>1, FS_Subset
  <2> SUFFICES ASSUME Cardinality(Named(p, names[k])) = 1 PROVE FALSE
    OBVIOUS
  <2>3. PICK x : Named(p, names[k]) = {x}
    BY <2>2, FS_Singleton
  <2>4. k = x /\ k + 1 = x
    BY <1>12, <2>3
  <2> QED BY <1>4, <2>4
<1>14. <<"stages", names[k]>> \in StageMismatches(p, m)
  BY <1>1, <1>2, <1>4, <1>13, Zenon DEF StageMismatches
<1> QED BY <1>14

\* A pipeline with two neighbours exchanged is refused.
LEMMA ExchangeIsRefused ==
    ASSUME NEW m \in DeliveryModels, NEW k \in 1..Len(Render(m)) - 1, NEW p,
           p = [Render(m) EXCEPT ![k] = Render(m)[k + 1], ![k + 1] = Render(m)[k]]
    PROVE  StageMismatches(p, m) # {}
<1> SUFFICES ASSUME StageMismatches(p, m) = {} PROVE FALSE
  OBVIOUS
<1>1. PICK r, names, n : r = Render(m) /\ names = OrderedNames(m) /\ n = Len(r)
  OBVIOUS
<1>2. /\ n \in Nat /\ DOMAIN names = 1..n /\ DOMAIN r = 1..n
      /\ \A i \in 1..n : r[i].name = names[i]
      /\ \A i, j \in 1..n : names[i] = names[j] => i = j
  BY <1>1, NamesOfStages
<1>3. k \in 1..n /\ k + 1 \in 1..n /\ k # k + 1 /\ k < k + 1 /\ ~(k + 1 < k)
  BY <1>1, <1>2
<1>4. p = [r EXCEPT ![k] = r[k + 1], ![k + 1] = r[k]]
  BY <1>1, Zenon
<1>5. /\ DOMAIN p = 1..n /\ p[k] = r[k + 1] /\ p[k + 1] = r[k]
      /\ \A i \in 1..n : i # k /\ i # k + 1 => p[i] = r[i]
  BY <1>2, <1>3, <1>4
<1>6. Named(p, names[k]) = {k + 1} /\ Named(p, names[k + 1]) = {k}
  BY <1>2, <1>3, <1>5 DEF Named
<1>7. \A i \in DOMAIN names : Cardinality(Named(p, names[i])) = 1
  BY <1>1, Zenon DEF StageMismatches
<1>8. InOrder(p, names)
  <2>1. Flag(/\ \A i \in DOMAIN names : Cardinality(Named(p, names[i])) = 1
             /\ ~InOrder(p, names), "order", "stages") = {}
    BY <1>1, Zenon DEF StageMismatches
  <2> QED BY <1>7, <2>1, Zenon DEF Flag
<1>9. \E a \in Named(p, names[k]) : \A c \in Named(p, names[k + 1]) : a < c
  BY <1>2, <1>3, <1>8, Zenon DEF InOrder
<1> QED BY <1>3, <1>6, <1>9

\* The six kinds of edits.
Removals(p) == {SubSeq(p, 1, i - 1) \o SubSeq(p, i + 1, Len(p)) : i \in 1..Len(p)}
Doublings(p) == {SubSeq(p, 1, i) \o SubSeq(p, i, Len(p)) : i \in 1..Len(p)}
Exchanges(p) == {[p EXCEPT ![i] = p[i + 1], ![i + 1] = p[i]] : i \in 1..Len(p) - 1}
Reroutings(p) ==
    {[p EXCEPT ![i].when = w] :
        i \in 1..Len(p), w \in {Always} \cup {Routed(P) : P \in SUBSET Patterns}}
Emptyings(p) == {[p EXCEPT ![i].steps = <<>>] : i \in 1..Len(p)}
Turnings(p) == {[p EXCEPT ![i].undo = ~@] : i \in 1..Len(p)}

LEMMA KindsOfEdits ==
    ASSUME NEW p
    PROVE  Edits(p) = Removals(p) \cup Doublings(p) \cup Exchanges(p)
                      \cup Reroutings(p) \cup Emptyings(p) \cup Turnings(p)
  BY DEF Edits, Removals, Doublings, Exchanges, Reroutings, Emptyings, Turnings

\* stage is old but for its condition, without its steps, or undone otherwise.
Varies(stage, old) ==
    \/ \E w : stage = [old EXCEPT !.when = w]
    \/ stage = [old EXCEPT !.steps = <<>>]
    \/ stage = [old EXCEPT !.undo = ~@]

\* What is left of the edits that change the stages' names or order: one stage has
\* another condition, no steps, or the other treatment of a failure.
LEMMA EditedStage ==
    ASSUME NEW m \in DeliveryModels, NEW r, r = Render(m), NEW p \in Edits(r),
           StageMismatches(p, m) = {}
    PROVE  \E k \in 1..Len(r) : \E stage :
              p = Replaced(r, k, stage) /\ Varies(stage, r[k])
<1>1. r = Render(m)
  OBVIOUS
<1>3. p \in Edits(r)
  BY <1>1, Zenon
<1>4. p \notin Removals(r)
  BY <1>1, RemovalIsRefused, Zenon DEF Removals
<1>5. p \notin Doublings(r)
  BY <1>1, DoublingIsRefused, Zenon DEF Doublings
<1>6. p \notin Exchanges(r)
  BY <1>1, ExchangeIsRefused, Zenon DEF Exchanges
<1>7. p \in Reroutings(r) \/ p \in Emptyings(r) \/ p \in Turnings(r)
  BY <1>3, <1>4, <1>5, <1>6, KindsOfEdits
<1>8. CASE p \in Reroutings(r)
  <2>1. PICK i \in 1..Len(r), w \in {Always} \cup {Routed(P) : P \in SUBSET Patterns} :
          p = [r EXCEPT ![i].when = w]
    BY <1>8 DEF Reroutings
  <2>2. PICK stage : stage = [r[i] EXCEPT !.when = w]
    OBVIOUS
  <2>3. p = [r EXCEPT ![i] = stage]
    BY <2>1, <2>2
  <2> QED BY <2>2, <2>3, Zenon DEF Replaced, Varies
<1>9. CASE p \in Emptyings(r)
  <2>1. PICK i \in 1..Len(r) : p = [r EXCEPT ![i].steps = <<>>]
    BY <1>9, Zenon DEF Emptyings
  <2>2. PICK stage : stage = [r[i] EXCEPT !.steps = <<>>]
    OBVIOUS
  <2>3. p = [r EXCEPT ![i] = stage]
    BY <2>1, <2>2
  <2> QED BY <2>2, <2>3, Zenon DEF Replaced, Varies
<1>10. CASE p \in Turnings(r)
  <2>1. PICK i \in 1..Len(r) : p = [r EXCEPT ![i].undo = ~@]
    BY <1>10, Zenon DEF Turnings
  <2>2. PICK stage : stage = [r[i] EXCEPT !.undo = ~@]
    OBVIOUS
  <2>3. p = [r EXCEPT ![i] = stage]
    BY <2>1, <2>2
  <2> QED BY <2>2, <2>3, Zenon DEF Replaced, Varies
<1> QED BY <1>7, <1>8, <1>9, <1>10

\* t takes the same steps as s.
Alike(t, s) == DOMAIN t = DOMAIN s /\ \A k \in DOMAIN s : Like(t[k], s[k])

\* Every stage of p adds for the branch what the stage of r in its place adds, or
\* nothing where that may be skipped.
Follows(p, r, b) ==
    \A i \in 1..Len(r) :
        /\ Added(p[i], b) \in Seq(Commands)
        /\ \/ Alike(Added(p[i], b), Added(r[i], b))
           \/ /\ Added(p[i], b) = <<>>
              /\ \A k \in DOMAIN Added(r[i], b) : Added(r[i], b)[k].do \in Skippable

LEMMA FollowingConforms ==
    ASSUME NEW m \in DeliveryModels, NEW b, NEW p, Len(p) = Len(Render(m)),
           Follows(p, Render(m), b)
    PROVE  Conforms(m, b, Plan(p, b))
<1>1. PICK r : r = Render(m)
  OBVIOUS
<1>2. PICK n \in Nat : n = Len(r) /\ n = Len(p)
  <2>1. Len(r) = IF m.approval THEN 19 ELSE 18
    BY <1>1, Stages, Zenon DEF IsRendering
  <2>2. Len(r) \in Nat
    BY <2>1
  <2> QED BY <1>1, <2>2, Zenon
<1>3. /\ StagesAscend(Commands, Rank, r, b)
      /\ \A x : (\E i \in 1..n : \E k \in DOMAIN Added(r[i], b) : Added(r[i], b)[k] = x)
                <=> x \in Content(m, b)
  <2>1. LET q == Render(m)
        IN  /\ StagesAscend(Commands, Rank, q, b)
            /\ \A x : (\E i \in 1..Len(q) :
                           \E k \in DOMAIN Added(q[i], b) : Added(q[i], b)[k] = x)
                      <=> x \in Content(m, b)
    BY RenderedStages
  <2> QED BY <1>1, <1>2, <2>1, Zenon
<1>4. \A i \in 1..n :
         /\ Added(p[i], b) \in Seq(Commands)
         /\ \/ Alike(Added(p[i], b), Added(r[i], b))
            \/ /\ Added(p[i], b) = <<>>
               /\ \A k \in DOMAIN Added(r[i], b) : Added(r[i], b)[k].do \in Skippable
  BY <1>1, <1>2, Zenon DEF Follows
<1>5. \A i \in 1..n : Added(r[i], b) \in Seq(Commands)
  BY <1>2, <1>3 DEF StagesAscend
<1>6. ASSUME NEW i \in 1..n, NEW k \in DOMAIN Added(p[i], b)
      PROVE  /\ k \in DOMAIN Added(r[i], b)
             /\ Added(p[i], b)[k] \in Commands /\ Added(r[i], b)[k] \in Commands
             /\ Like(Added(p[i], b)[k], Added(r[i], b)[k])
             /\ Rank[Added(p[i], b)[k]] = Rank[Added(r[i], b)[k]]
  <2>1. PICK t, s : t = Added(p[i], b) /\ s = Added(r[i], b)
    OBVIOUS
  <2>2. t \in Seq(Commands) /\ s \in Seq(Commands) /\ k \in DOMAIN t
    BY <1>4, <1>5, <1>6, <2>1, Zenon
  <2>3. t # <<>>
    BY <2>2
  <2>4. Alike(t, s)
    BY <1>4, <2>1, <2>3, Zenon
  <2>5. k \in DOMAIN s /\ Like(t[k], s[k])
    BY <2>2, <2>4 DEF Alike
  <2>6. t[k] \in Commands /\ s[k] \in Commands
    BY <2>2, <2>5
  <2>7. Rank[t[k]] = Rank[s[k]]
    BY <2>5, <2>6, LikeRank
  <2> QED BY <2>1, <2>5, <2>6, <2>7, Zenon
<1>7. StagesAscend(Commands, Rank, p, b)
  <2>1. ASSUME NEW i \in 1..n PROVE Ascends(Rank, Added(p[i], b))
    <3> SUFFICES ASSUME NEW k \in DOMAIN Added(p[i], b), NEW l \in DOMAIN Added(p[i], b), k < l
                 PROVE  Rank[Added(p[i], b)[k]] < Rank[Added(p[i], b)[l]]
      BY DEF Ascends
    <3>1. k \in DOMAIN Added(r[i], b) /\ l \in DOMAIN Added(r[i], b)
      BY <1>6, Zenon
    <3>2. Rank[Added(r[i], b)[k]] < Rank[Added(r[i], b)[l]]
      BY <1>2, <1>3, <3>1 DEF StagesAscend, Ascends
    <3>3. /\ Rank[Added(p[i], b)[k]] = Rank[Added(r[i], b)[k]]
          /\ Rank[Added(p[i], b)[l]] = Rank[Added(r[i], b)[l]]
      BY <1>6, Zenon
    <3> QED BY <3>2, <3>3
  <2>2. ASSUME NEW i \in 1..n, NEW j \in 1..n, i < j,
               NEW k \in DOMAIN Added(p[i], b), NEW l \in DOMAIN Added(p[j], b)
        PROVE  Rank[Added(p[i], b)[k]] < Rank[Added(p[j], b)[l]]
    <3>1. k \in DOMAIN Added(r[i], b) /\ l \in DOMAIN Added(r[j], b)
      BY <1>6, Zenon
    <3>2. Rank[Added(r[i], b)[k]] < Rank[Added(r[j], b)[l]]
      BY <1>2, <1>3, <2>2, <3>1 DEF StagesAscend
    <3>3. /\ Rank[Added(p[i], b)[k]] = Rank[Added(r[i], b)[k]]
          /\ Rank[Added(p[j], b)[l]] = Rank[Added(r[j], b)[l]]
      BY <1>6, Zenon
    <3> QED BY <3>2, <3>3
  <2>3. /\ \A i \in 1..Len(p) : Added(p[i], b) \in Seq(Commands) /\ Ascends(Rank, Added(p[i], b))
        /\ \A i, j \in 1..Len(p) : i < j =>
              \A k \in DOMAIN Added(p[i], b), l \in DOMAIN Added(p[j], b) :
                  Rank[Added(p[i], b)[k]] < Rank[Added(p[j], b)[l]]
    BY <1>2, <1>4, <2>1, <2>2, Zenon
  <2> QED BY <2>3, Zenon DEF StagesAscend
<1>8. PICK s : s = Plan(p, b)
  OBVIOUS
<1>9. /\ s \in Seq(Commands) /\ Ascends(Rank, s)
      /\ \A x : (\E i \in DOMAIN s : s[i] = x)
                <=> \E i \in 1..n : \E k \in DOMAIN Added(p[i], b) : Added(p[i], b)[k] = x
  <2>1. Len(p) \in Nat
    BY <1>2
  <2>2. Gathers(Commands, Rank, p, b, Plan(p, b))
    BY <1>7, <2>1, RankType, PlanAscends
  <2> QED BY <1>2, <1>8, <2>2, Zenon DEF Gathers
<1>10. ASSUME NEW i \in DOMAIN s PROVE \E x \in Content(m, b) : Like(s[i], x)
  <2>1. PICK j \in 1..n : \E k \in DOMAIN Added(p[j], b) : Added(p[j], b)[k] = s[i]
    BY <1>9, Zenon
  <2>2. PICK k \in DOMAIN Added(p[j], b) : Added(p[j], b)[k] = s[i]
    BY <2>1
  <2>3. k \in DOMAIN Added(r[j], b) /\ Like(s[i], Added(r[j], b)[k])
    BY <1>6, <2>2, Zenon
  <2>4. Added(r[j], b)[k] \in Content(m, b)
    BY <1>3, <2>3, Zenon
  <2> QED BY <2>3, <2>4, Zenon
<1>11. ASSUME NEW x \in Content(m, b), x.do \notin Skippable
       PROVE  \E i \in DOMAIN s : Like(s[i], x)
  <2>1. PICK j \in 1..n : \E k \in DOMAIN Added(r[j], b) : Added(r[j], b)[k] = x
    BY <1>3, Zenon
  <2>2. PICK k \in DOMAIN Added(r[j], b) : Added(r[j], b)[k] = x
    BY <2>1
  <2>3. Alike(Added(p[j], b), Added(r[j], b))
    BY <1>4, <1>11, <2>2, Zenon
  <2>4. k \in DOMAIN Added(p[j], b) /\ Like(Added(p[j], b)[k], x)
    BY <2>2, <2>3, Zenon DEF Alike
  <2>5. \E i \in DOMAIN s : s[i] = Added(p[j], b)[k]
    BY <1>9, <2>4, Zenon
  <2> QED BY <2>4, <2>5, Zenon
<1>12. Conforms(m, b, s)
  BY <1>9, <1>10, <1>11, Zenon DEF Conforms
<1> QED BY <1>8, <1>12, Zenon

\* The treatment of a failure does not matter to these stages, and the first three of
\* them may be skipped.
Free == {1, 4, 5}
Untreated == Free \cup {7, 8, 12}
\* stage, in the place of old, its place being i, differs in nothing that matters.
Tame(stage, old, i) ==
    /\ stage.env = old.env /\ stage.undo \in BOOLEAN
    /\ i \notin Free => stage.when = old.when /\ stage.steps = old.steps
    /\ i \in Free => stage.steps = old.steps \/ stage.steps = <<>>
    /\ i \notin Untreated => stage.undo = old.undo

\* What the stages at those places do.
LEMMA UntreatedStages ==
    ASSUME NEW m \in DeliveryModels, NEW r, r = Render(m)
    PROVE  /\ \A i \in Untreated : \A k \in DOMAIN r[i].steps :
                  r[i].steps[k] \notin {"apply", "status"}
           /\ \A i \in Free : \A k \in DOMAIN r[i].steps : r[i].steps[k] \in Skippable
<1>1. IsRendering(m, r)
  BY Stages, Zenon
<1>2. /\ r[1] = Stage("Checkout", Always, <<"checkout">>)
      /\ r[4] = Stage("Application Build", Always, <<"build">>)
      /\ r[5] = Stage("Test", Always, <<"test">>)
      /\ r[7] = BuildOnceStage(m) /\ r[8] = ResolveDigestStage(m)
      /\ r[12] = VerifyArtifactStage(m)
  BY <1>1, Zenon DEF IsRendering
<1>3. /\ Stage("Checkout", Always, <<"checkout">>).steps = <<"checkout">>
      /\ Stage("Application Build", Always, <<"build">>).steps = <<"build">>
      /\ Stage("Test", Always, <<"test">>).steps = <<"test">>
      /\ BuildOnceStage(m).steps = <<"push">>
      /\ ResolveDigestStage(m).steps = <<"inspect", "recheck">>
      /\ VerifyArtifactStage(m).steps = <<"verify">>
  BY DEF Stage, BuildOnceStage, ResolveDigestStage, VerifyArtifactStage
<1>4. /\ r[1].steps = <<"checkout">> /\ r[4].steps = <<"build">> /\ r[5].steps = <<"test">>
      /\ r[7].steps = <<"push">> /\ r[8].steps = <<"inspect", "recheck">>
      /\ r[12].steps = <<"verify">>
  BY <1>2, <1>3, Zenon
<1>5. \A i \in Free : \A k \in DOMAIN r[i].steps : r[i].steps[k] \in Skippable
  BY <1>4 DEF Free, Skippable
<1>6. \A i \in Untreated : \A k \in DOMAIN r[i].steps : r[i].steps[k] \notin {"apply", "status"}
  BY <1>4 DEF Free, Untreated
<1> QED BY <1>5, <1>6

\* The stages at the first places run for every branch.
LEMMA FreeStagesRun ==
    ASSUME NEW m \in DeliveryModels, NEW b, NEW i \in Free, NEW r, r = Render(m)
    PROVE  Enters(r[i], b)
<1>1. IsRendering(m, r)
  BY Stages, Zenon
<1>2. r[i] = Stage("Checkout", Always, <<"checkout">>)
      \/ r[i] = Stage("Application Build", Always, <<"build">>)
      \/ r[i] = Stage("Test", Always, <<"test">>)
  BY <1>1 DEF IsRendering, Free
<1>3. \A name, steps : Stage(name, Always, steps).when.routed = FALSE
  BY DEF Stage, Always
<1> QED BY <1>2, <1>3, Zenon DEF Enters

\* A pipeline whose stages are tame follows the rendered one.
LEMMA TameFollows ==
    ASSUME NEW m \in DeliveryModels, NEW b, NEW p,
           \A i \in 1..Len(Render(m)) : Tame(p[i], Render(m)[i], i)
    PROVE  Follows(p, Render(m), b)
<1>1. PICK r : r = Render(m)
  OBVIOUS
<1>2. SUFFICES ASSUME NEW i \in 1..Len(r)
               PROVE  /\ Added(p[i], b) \in Seq(Commands)
                      /\ \/ Alike(Added(p[i], b), Added(r[i], b))
                         \/ /\ Added(p[i], b) = <<>>
                            /\ \A k \in DOMAIN Added(r[i], b) :
                                  Added(r[i], b)[k].do \in Skippable
  BY <1>1, Zenon DEF Follows
<1>3. Tame(p[i], r[i], i)
  BY <1>1, <1>2, Zenon
<1>4. PICK t, s : t = Added(p[i], b) /\ s = Added(r[i], b)
  OBVIOUS
<1>5. s \in Seq(Commands)
  <2>1. LET q == Render(m) IN StagesAscend(Commands, Rank, q, b)
    BY RenderedStages
  <2>2. StagesAscend(Commands, Rank, r, b)
    BY <1>1, <2>1, Zenon
  <2> QED BY <1>2, <1>4, <2>2 DEF StagesAscend
<1>6. i \in Free => s = Steps(r[i])
  BY <1>1, <1>4, FreeStagesRun, Zenon DEF Added
<1>7. CASE t = <<>> /\ i \in Free
  <2>1. ASSUME NEW k \in DOMAIN s PROVE s[k].do \in Skippable
    <3>1. DOMAIN s = DOMAIN r[i].steps /\ s[k].do = r[i].steps[k]
      BY <1>6, <1>7 DEF Steps
    <3> QED BY <1>1, <1>7, <3>1, UntreatedStages
  <2>2. t \in Seq(Commands)
    BY <1>7
  <2> QED BY <1>4, <1>7, <2>1, <2>2, Zenon
<1>8. CASE /\ t = Steps(p[i]) /\ s = Steps(r[i]) /\ p[i].steps = r[i].steps
  <2>1. /\ DOMAIN t = DOMAIN s /\ DOMAIN s = DOMAIN r[i].steps
        /\ t = [k \in DOMAIN s |-> t[k]]
    BY <1>8 DEF Steps
  <2>2. ASSUME NEW k \in DOMAIN s
        PROVE  /\ t[k] = [do |-> r[i].steps[k], env |-> r[i].env, undo |-> p[i].undo]
               /\ s[k] = [do |-> r[i].steps[k], env |-> r[i].env, undo |-> r[i].undo]
    BY <1>3, <1>8, <2>1 DEF Steps, Tame
  <2>3. ASSUME NEW k \in DOMAIN s PROVE t[k] \in Commands /\ Like(t[k], s[k])
    <3>1. PICK c, v, u, w : c = r[i].steps[k] /\ v = r[i].env /\ u = r[i].undo /\ w = p[i].undo
      OBVIOUS
    <3>2. t[k] = [do |-> c, env |-> v, undo |-> w] /\ s[k] = [do |-> c, env |-> v, undo |-> u]
      BY <2>2, <3>1, Zenon
    <3>3. s[k] \in Commands
      BY <1>5
    <3>4. w \in BOOLEAN
      BY <1>3, <3>1, Zenon DEF Tame
    <3>5. t[k] \in Commands
      BY <3>2, <3>3, <3>4 DEF Commands
    <3>6. c \in {"apply", "status"} => w = u
      <4>1. i \in Untreated => r[i].steps[k] \notin {"apply", "status"}
        BY <1>1, <2>1, UntreatedStages
      <4> QED BY <1>3, <3>1, <4>1, Zenon DEF Tame
    <3>7. Like(t[k], s[k])
      BY <3>2, <3>6 DEF Like
    <3> QED BY <3>5, <3>7
  <2>4. PICK n \in Nat : DOMAIN s = 1..n
    BY <1>5
  <2>5. t \in Seq(Commands)
    <3>1. t \in [1..n -> Commands]
      BY <2>1, <2>3, <2>4
    <3>2. [1..n -> Commands] \in {[1..l -> Commands] : l \in Nat}
      OBVIOUS
    <3>3. t \in UNION {[1..l -> Commands] : l \in Nat}
      BY <3>1, <3>2, Zenon
    <3>4. Seq(Commands) = UNION {[1..l -> Commands] : l \in Nat}
      BY SeqDef
    <3> QED BY <3>3, <3>4, Zenon
  <2>6. Alike(t, s)
    BY <2>1, <2>3, Zenon DEF Alike
  <2> QED BY <1>4, <2>5, <2>6, Zenon
<1>9. CASE t = <<>> /\ s = <<>>
  <2>1. t \in Seq(Commands) /\ Alike(t, s)
    BY <1>9 DEF Alike
  <2> QED BY <1>4, <2>1, Zenon
<1>10. \/ t = <<>> /\ i \in Free
       \/ t = Steps(p[i]) /\ s = Steps(r[i]) /\ p[i].steps = r[i].steps
       \/ t = <<>> /\ s = <<>>
  <2>1. CASE i \in Free
    <3>1. p[i].steps = <<>> => Steps(p[i]) = <<>>
      BY DEF Steps
    <3>2. t = <<>> \/ t = Steps(p[i])
      BY <1>4, Zenon DEF Added
    <3>3. p[i].steps = r[i].steps \/ p[i].steps = <<>>
      BY <1>3, <2>1, Zenon DEF Tame
    <3> QED BY <1>6, <2>1, <3>1, <3>2, <3>3, Zenon
  <2>2. CASE i \notin Free
    <3>1. p[i].when = r[i].when /\ p[i].steps = r[i].steps
      BY <1>3, <2>2, Zenon DEF Tame
    <3>2. Enters(p[i], b) <=> Enters(r[i], b)
      BY <3>1, Zenon DEF Enters
    <3> QED BY <1>4, <3>1, <3>2, Zenon DEF Added
  <2> QED BY <2>1, <2>2
<1> QED BY <1>7, <1>8, <1>9, <1>10

\* A stage that is compared with a new rendering is the rendered one.
LEMMA BlocksAreKept ==
    ASSUME NEW m \in DeliveryModels, NEW p, Labelled(m, p), BlockMismatches(p, m) = {},
           NEW k \in 1..Len(Render(m)), OrderedNames(m)[k] \in BlockNames
    PROVE  p[k] = Render(m)[k]
<1>1. PICK r, n : r = Render(m) /\ n = OrderedNames(m)[k]
  OBVIOUS
<1>2. Named(p, n) = {k} /\ Named(r, n) = {k}
  <2>1. LET q == Render(m) IN Labelled(m, q)
    BY RenderedNames
  <2>2. Labelled(m, r) /\ k \in 1..Len(r)
    BY <1>1, <2>1, Zenon
  <2> QED BY <1>1, <2>2, Zenon DEF Labelled
<1>3. Blocks(p, n) = Blocks(r, n)
  <2>1. ~(\/ Blocks(p, n) # Blocks(Render(m), n)
          \/ Cardinality(Named(p, n)) # Cardinality(Named(Render(m), n)))
    BY <1>1, Zenon DEF BlockMismatches
  <2> QED BY <1>1, <2>1, Zenon
<1>4. Blocks(p, n) = {p[k]} /\ Blocks(r, n) = {r[k]}
  BY <1>2 DEF Blocks
<1> QED BY <1>1, <1>3, <1>4

\* The stages that are routed keep their routes.
LEMMA RoutesAreKept ==
    ASSUME NEW m, NEW p, RouteMismatches(p, m) = {}, NEW k \in DOMAIN p
    PROVE  /\ p[k].name \in {"Build Once", "Resolve Digest", "Verify Artifact Contract"}
                => p[k].when = Routed(RoutedPatterns(m))
           /\ \A e \in Environments :
                 p[k].name \in {Deploy[e], Rollout[e]} => p[k].when = Routed(m.routes[e])
<1>1. ~(\/ /\ p[k].name \in {CoreNames[j] : j \in 5..10}
           /\ p[k].when # Routed(RoutedPatterns(m))
        \/ \E e \in Environments :
              /\ p[k].name \in {Deploy[e], Rollout[e]}
              /\ p[k].when # Routed(m.routes[e]))
  BY Zenon DEF RouteMismatches
<1>2. /\ CoreNames[5] = "Build Once" /\ CoreNames[6] = "Resolve Digest"
      /\ CoreNames[10] = "Verify Artifact Contract"
  BY DEF CoreNames
<1>3. {"Build Once", "Resolve Digest", "Verify Artifact Contract"}
         \subseteq {CoreNames[j] : j \in 5..10}
  <2>1. 5 \in 5..10 /\ 6 \in 5..10 /\ 10 \in 5..10
    OBVIOUS
  <2> QED BY <1>2, <2>1
<1> QED BY <1>1, <1>3, Zenon

\* No command is among no steps.
LEMMA NoTimes ==
    ASSUME NEW c
    PROVE  Times(c, <<>>) = 0
<1>1. {i \in DOMAIN <<>> : <<>>[i] = c} = {}
  OBVIOUS
<1> QED BY <1>1, FS_EmptySet, Zenon DEF Times

LEMMA HoldsSteps ==
    ASSUME NEW p, NEW name, NEW c, NEW k, Named(p, name) = {k}, Holds(p, name, c)
    PROVE  p[k].steps # <<>>
<1>1. Times(c, p[k].steps) > 0
  BY Zenon DEF Holds
<1> QED BY <1>1, NoTimes

\* The stages that build, resolve and verify keep their steps.
LEMMA BuildStepsAreKept ==
    ASSUME NEW m, NEW p, BuildMismatches(p) = {}, EvidenceMismatches(p, m) = {},
           Named(p, "Build Once") = {7}, Named(p, "Resolve Digest") = {8},
           Named(p, "Verify Artifact Contract") = {12}
    PROVE  p[7].steps # <<>> /\ p[8].steps # <<>> /\ p[12].steps # <<>>
<1>1. Holds(p, "Build Once", "push") /\ Holds(p, "Resolve Digest", "inspect")
  BY DEF BuildMismatches, Flag
<1>2. p[7].steps # <<>> /\ p[8].steps # <<>>
  BY <1>1, HoldsSteps
<1>3. PICK name, c : name = "Verify Artifact Contract" /\ c = "verify"
  OBVIOUS
<1>4. (IF Cardinality(Named(p, name)) = 1 THEN Times(c, The(p, name).steps) ELSE 0) = 1
  BY <1>3 DEF EvidenceMismatches, Flag
<1>5. The(p, name) = p[12]
  <2>1. (CHOOSE i \in Named(p, name) : TRUE) = 12
    BY <1>3
  <2> QED BY <2>1, Zenon DEF The
<1>6. Cardinality(Named(p, name)) = 1
  <2>1. Named(p, name) = {12}
    BY <1>3, Zenon
  <2> QED BY <2>1, FS_Singleton
<1>7. Times(c, p[12].steps) = 1
  BY <1>4, <1>5, <1>6, Zenon
<1> QED BY <1>2, <1>7, NoTimes

\* The stages of an environment keep their steps and what their failure undoes.
LEMMA DeploymentsAreKept ==
    ASSUME NEW m \in DeliveryModels, NEW p, DeploymentMismatches(p, m) = {},
           NEW e \in Environments, NEW i \in Nat, NEW j \in Nat, i # j,
           Named(p, Deploy[e]) = {i}, Named(p, Rollout[e]) = {j},
           p[i].undo \in BOOLEAN, p[j].undo \in BOOLEAN
    PROVE  /\ p[i].steps # <<>> /\ p[j].steps # <<>>
           /\ p[i].undo = m.rollback[e] /\ p[j].undo = m.rollback[e]
<1>1. /\ Holds(p, Deploy[e], "apply") /\ Holds(p, Rollout[e], "status")
      /\ Cardinality({x \in Named(p, Deploy[e]) \cup Named(p, Rollout[e]) : p[x].undo})
            = (IF m.rollback[e] THEN 2 ELSE 0)
  <2> DEFINE undos(f) == Cardinality({x \in Named(p, Deploy[f]) \cup Named(p, Rollout[f]) :
                                         p[x].undo})
             sound(f) == /\ Holds(p, Deploy[f], "apply")
                         /\ Holds(p, Rollout[f], "status")
                         /\ undos(f) = (IF m.rollback[f] THEN 2 ELSE 0)
  <2>1. {<<"deployment", f>> : f \in {x \in Environments : ~sound(x)}} = {}
    BY DEF DeploymentMismatches
  <2>2. sound(e)
    <3> HIDE DEF sound
    <3>1. PICK X : X = {x \in Environments : ~sound(x)}
      OBVIOUS
    <3>2. {<<"deployment", f>> : f \in X} = {}
      BY <2>1, <3>1, Zenon
    <3>3. ASSUME e \in X PROVE FALSE
      <4>1. <<"deployment", e>> \in {<<"deployment", f>> : f \in X}
        BY <3>3
      <4> QED BY <3>2, <4>1
    <3> QED BY <3>1, <3>3, Zenon
  <2> QED BY <2>2
<1>2. p[i].steps # <<>> /\ p[j].steps # <<>>
  BY <1>1, HoldsSteps
<1>3. PICK U : U = {x \in {i, j} : p[x].undo}
  OBVIOUS
<1>4. Cardinality(U) = (IF m.rollback[e] THEN 2 ELSE 0)
  <2>1. Named(p, Deploy[e]) \cup Named(p, Rollout[e]) = {i, j}
    OBVIOUS
  <2> QED BY <1>1, <1>3, <2>1, Zenon
<1>5. m.rollback[e] \in BOOLEAN
  BY DEF DeliveryModels
<1>6. p[i].undo = m.rollback[e] /\ p[j].undo = m.rollback[e]
  <2>1. CASE p[i].undo /\ p[j].undo
    <3>1. U = {i, j}
      BY <1>3, <2>1
    <3>2. Cardinality(U) # 0
      <4>1. IsFiniteSet({i, j})
        <5>1. IsFiniteSet({i}) /\ {i, j} = {i} \cup {j}
          BY FS_Singleton
        <5> QED BY <5>1, FS_AddElement
      <4> QED BY <3>1, <4>1, FS_EmptySet
    <3>3. m.rollback[e]
      BY <1>4, <1>5, <3>2
    <3> QED BY <1>5, <2>1, <3>3, Zenon
  <2>2. CASE ~p[i].undo /\ ~p[j].undo
    <3>1. U = {}
      BY <1>3, <2>2
    <3>2. Cardinality(U) = 0
      BY <3>1, FS_EmptySet
    <3>3. ~m.rollback[e]
      BY <1>4, <1>5, <3>2
    <3> QED BY <1>5, <2>2, <3>3, Zenon
  <2>3. CASE p[i].undo # p[j].undo
    <3>1. U = {i} \/ U = {j}
      BY <1>3, <2>3
    <3>2. Cardinality(U) = 1
      BY <3>1, FS_Singleton
    <3> QED BY <1>4, <1>5, <3>2
  <2> QED BY <2>1, <2>2, <2>3, Zenon
<1> QED BY <1>2, <1>6

\* The stages of an environment, by their names.
LEMMA RenderedDeployments ==
    ASSUME NEW m \in DeliveryModels, NEW r, r = Render(m), NEW k \in 1..Len(r),
           NEW e \in Environments, r[k].name \in {Deploy[e], Rollout[e]}
    PROVE  r[k].when = Routed(m.routes[e]) /\ r[k].undo = m.rollback[e]
<1>1. IsRendering(m, r)
  BY Stages, Zenon
<1>2. PICK a, c : /\ a \in 13..18 /\ c \in 14..19 /\ a \in 1..Len(r) /\ c \in 1..Len(r)
                     /\ r[a] = DeploymentStage(m, e) /\ r[c] = RolloutStage(m, e)
  <2>1. Len(r) = (IF m.approval THEN 19 ELSE 18)
    BY <1>1, Zenon DEF IsRendering
  <2>2. e = "dev" \/ e = "staging" \/ e = "production"
    BY DEF Environments
  <2>3. CASE e = "dev"
    <3>1. 13 \in 13..18 /\ 14 \in 14..19 /\ 13 \in 1..Len(r) /\ 14 \in 1..Len(r)
      BY <2>1
    <3> QED BY <1>1, <2>3, <3>1, Zenon DEF IsRendering
  <2>4. CASE e = "staging"
    <3>1. 15 \in 13..18 /\ 16 \in 14..19 /\ 15 \in 1..Len(r) /\ 16 \in 1..Len(r)
      BY <2>1
    <3> QED BY <1>1, <2>4, <3>1, Zenon DEF IsRendering
  <2>5. CASE e = "production" /\ m.approval
    <3>1. 18 \in 13..18 /\ 19 \in 14..19 /\ 18 \in 1..Len(r) /\ 19 \in 1..Len(r)
      BY <2>1, <2>5
    <3>2. r[18] = DeploymentStage(m, "production") /\ r[19] = RolloutStage(m, "production")
      BY <1>1, <2>5 DEF IsRendering
    <3>3. e = "production"
      BY <2>5
    <3> QED BY <3>1, <3>2, <3>3, Zenon
  <2>6. CASE e = "production" /\ ~m.approval
    <3>1. 17 \in 13..18 /\ 18 \in 14..19 /\ 17 \in 1..Len(r) /\ 18 \in 1..Len(r)
      BY <2>1, <2>6
    <3> QED BY <1>1, <2>6, <3>1, Zenon DEF IsRendering
  <2> QED BY <2>2, <2>3, <2>4, <2>5, <2>6
<1>3. /\ r[a].name = Deploy[e] /\ r[a].when = Routed(m.routes[e]) /\ r[a].undo = m.rollback[e]
      /\ r[c].name = Rollout[e] /\ r[c].when = Routed(m.routes[e]) /\ r[c].undo = m.rollback[e]
  BY <1>2, DeploymentIsStage, Zenon DEF Called
<1>4. \A i, j \in 1..Len(r) : r[i].name = r[j].name => i = j
  <2>1. LET q == Render(m)
            labels == OrderedNames(m)
        IN  /\ \A i \in 1..Len(q) : IsStage(q[i]) /\ q[i].name = labels[i]
            /\ \A i, j \in 1..Len(q) : labels[i] = labels[j] => i = j
    BY RenderedNames
  <2>2. PICK labels : labels = OrderedNames(m)
    OBVIOUS
  <2>3. /\ \A i \in 1..Len(r) : r[i].name = labels[i]
        /\ \A i, j \in 1..Len(r) : labels[i] = labels[j] => i = j
    BY <2>1, <2>2, Zenon
  <2>4. ASSUME NEW i \in 1..Len(r), NEW j \in 1..Len(r), r[i].name = r[j].name
        PROVE  i = j
    <3>1. labels[i] = labels[j]
      BY <2>3, <2>4
    <3> QED BY <2>3, <3>1
  <2> QED BY <2>4
<1>5. k = a \/ k = c
  BY <1>2, <1>3, <1>4, Zenon
<1> QED BY <1>3, <1>5, Zenon

\* What is known of the name of the stage at place k.
PlaceKnown(names, n, k) ==
    \/ k \in Free
    \/ k \notin Free \cup Untreated /\ names[k] \in BlockNames
    \/ /\ k \in {7, 8, 12} /\ names[7] = "Build Once" /\ names[8] = "Resolve Digest"
       /\ names[12] = "Verify Artifact Contract"
    \/ \E e \in Environments : \E i \in 1..n, j \in 1..n :
          i # j /\ names[i] = Deploy[e] /\ names[j] = Rollout[e] /\ k \in {i, j}

LEMMA PlacesOfNames ==
    ASSUME NEW m \in DeliveryModels, NEW names, names = OrderedNames(m),
           NEW n, n = Len(Render(m)), NEW k \in 1..n
    PROVE  PlaceKnown(names, n, k)
<1>1. IsNaming(m, names)
  BY Naming, Zenon
<1>2. n = Len(Render(m)) /\ n = (IF m.approval THEN 19 ELSE 18)
  <2>1. LET q == Render(m) IN Len(q) = (IF m.approval THEN 19 ELSE 18)
    BY RenderedNames
  <2> QED BY <2>1, Zenon
<1>3. k \in 1..n
  BY <1>2
<1>4. \/ k \in {1, 4, 5} \/ k \in {2, 3, 6, 9, 10, 11} \/ k \in {7, 8, 12}
      \/ k \in {13, 14} \/ k \in {15, 16}
      \/ m.approval /\ k = 17
      \/ m.approval /\ k \in {18, 19}
      \/ ~m.approval /\ k \in {17, 18}
  BY <1>2, <1>3
<1>5. CASE k \in {1, 4, 5}
  BY <1>5 DEF Free, PlaceKnown
<1>6. CASE k \in {2, 3, 6, 9, 10, 11} \/ (m.approval /\ k = 17)
  <2>1. /\ names[2] \in BlockNames /\ names[3] \in BlockNames /\ names[6] \in BlockNames
        /\ names[9] \in BlockNames /\ names[10] \in BlockNames /\ names[11] \in BlockNames
        /\ m.approval => names[17] \in BlockNames
    BY <1>1 DEF IsNaming, BlockNames
  <2>2. k \notin Free \cup Untreated
    BY <1>6 DEF Free, Untreated
  <2>3. names[k] \in BlockNames
    BY <1>6, <2>1
  <2> QED BY <2>2, <2>3, Zenon DEF PlaceKnown
<1>7. CASE k \in {7, 8, 12}
  <2>1. names[7] = "Build Once" /\ names[8] = "Resolve Digest"
        /\ names[12] = "Verify Artifact Contract"
    BY <1>1, Zenon DEF IsNaming
  <2> QED BY <1>7, <2>1, Zenon DEF PlaceKnown
<1>8. CASE k \in {13, 14}
  <2>1. 13 \in 1..n /\ 14 \in 1..n /\ 13 # 14 /\ "dev" \in Environments
    BY <1>2 DEF Environments
  <2>2. names[13] = Deploy["dev"] /\ names[14] = Rollout["dev"]
    BY <1>1 DEF IsNaming, Deploy, Rollout
  <2> QED BY <1>2, <1>8, <2>1, <2>2, Zenon DEF PlaceKnown
<1>9. CASE k \in {15, 16}
  <2>1. 15 \in 1..n /\ 16 \in 1..n /\ 15 # 16 /\ "staging" \in Environments
    BY <1>2 DEF Environments
  <2>2. names[15] = Deploy["staging"] /\ names[16] = Rollout["staging"]
    BY <1>1 DEF IsNaming, Deploy, Rollout
  <2> QED BY <1>2, <1>9, <2>1, <2>2, Zenon DEF PlaceKnown
<1>10. CASE m.approval /\ k \in {18, 19}
  <2>1. 18 \in 1..n /\ 19 \in 1..n /\ 18 # 19 /\ "production" \in Environments
    BY <1>2, <1>10 DEF Environments
  <2>2. names[18] = Deploy["production"] /\ names[19] = Rollout["production"]
    BY <1>1, <1>10 DEF IsNaming, Deploy, Rollout
  <2>3. k \in {18, 19}
    BY <1>10
  <2> QED BY <1>2, <2>1, <2>2, <2>3, Zenon DEF PlaceKnown
<1>11. CASE ~m.approval /\ k \in {17, 18}
  <2>1. 17 \in 1..n /\ 18 \in 1..n /\ 17 # 18 /\ "production" \in Environments
    BY <1>2, <1>11 DEF Environments
  <2>2. names[17] = Deploy["production"] /\ names[18] = Rollout["production"]
    BY <1>1, <1>11 DEF IsNaming, Deploy, Rollout
  <2>3. k \in {17, 18}
    BY <1>11
  <2> QED BY <1>2, <2>1, <2>2, <2>3, Zenon DEF PlaceKnown
<1> QED BY <1>4, <1>5, <1>6, <1>7, <1>8, <1>9, <1>10, <1>11

\* What the checks accept of the edited pipelines is tame.
LEMMA AcceptedEditsAreTame ==
    ASSUME NEW m \in DeliveryModels, NEW p \in Edits(Render(m)), Mismatches(p, m) = {}
    PROVE  /\ Len(p) = Len(Render(m))
           /\ \A i \in 1..Len(Render(m)) : Tame(p[i], Render(m)[i], i)
<1>0. /\ StageMismatches(p, m) = {} /\ BlockMismatches(p, m) = {}
      /\ RouteMismatches(p, m) = {} /\ BuildMismatches(p) = {}
      /\ EvidenceMismatches(p, m) = {} /\ DeploymentMismatches(p, m) = {}
  BY DEF Mismatches
<1>1. PICK r, names : r = Render(m) /\ names = OrderedNames(m)
  OBVIOUS
<1>2. PICK n \in Nat : n = Len(r) /\ n \in 18..19
  <2>1. Len(r) = IF m.approval THEN 19 ELSE 18
    BY <1>1, Stages, Zenon DEF IsRendering
  <2> QED BY <2>1
<1>3. /\ \A i \in 1..n : IsStage(r[i]) /\ r[i].name = names[i]
      /\ \A i, j \in 1..n : names[i] = names[j] => i = j
  <2>1. LET q == Render(m)
            labels == OrderedNames(m)
        IN  /\ \A i \in 1..Len(q) : IsStage(q[i]) /\ q[i].name = labels[i]
            /\ \A i, j \in 1..Len(q) : labels[i] = labels[j] => i = j
    BY RenderedNames
  <2> QED BY <1>1, <1>2, <2>1, Zenon
<1>4. PICK k \in 1..n : \E stage : p = Replaced(r, k, stage) /\ Varies(stage, r[k])
  <2>1. p \in Edits(r)
    BY <1>1, Zenon
  <2>2. \E k \in 1..Len(r) : \E stage : p = Replaced(r, k, stage) /\ Varies(stage, r[k])
    BY <1>0, <1>1, <2>1, EditedStage
  <2> QED BY <1>2, <2>2, Zenon
<1>5. PICK stage : p = Replaced(r, k, stage) /\ Varies(stage, r[k])
  BY <1>4, Zenon
<1>6. PICK old : old = r[k]
  OBVIOUS
<1>7. /\ stage.name = old.name /\ stage.env = old.env /\ stage.undo \in BOOLEAN
      /\ stage.steps = old.steps \/ stage.steps = <<>>
      /\ stage.when = old.when /\ stage.steps # <<>> => stage.steps = old.steps
      /\ stage.when = old.when \/ stage.undo = old.undo
  <2>1. PICK name, when, env, steps, undo :
          /\ old = [name |-> name, when |-> when, env |-> env, steps |-> steps, undo |-> undo]
          /\ undo \in BOOLEAN
    <3>1. IsStage(old)
      BY <1>3, <1>6, Zenon
    <3> QED BY <3>1 DEF IsStage
  <2>2. \/ \E w : stage = [old EXCEPT !.when = w]
        \/ stage = [old EXCEPT !.steps = <<>>]
        \/ stage = [old EXCEPT !.undo = ~@]
    BY <1>5, <1>6, Zenon DEF Varies
  <2> QED BY <2>1, <2>2
<1>8. /\ Labelled(m, p) /\ Len(p) = n /\ p[k] = stage
      /\ \A i \in 1..n : i # k => p[i] = r[i]
  <2>1. r = Render(m) /\ k \in 1..Len(r) /\ stage.name = r[k].name
        /\ p = Replaced(r, k, stage)
    BY <1>1, <1>2, <1>5, <1>6, <1>7, Zenon
  <2>2. /\ Labelled(m, p) /\ Len(p) = Len(r) /\ p[k] = stage
        /\ \A i \in 1..Len(r) : i # k => p[i] = r[i]
    BY <2>1, ReplacementIsLabelled
  <2> QED BY <1>1, <1>2, <2>2, Zenon
<1>9. DOMAIN p = 1..n /\ \A i \in 1..n : Named(p, names[i]) = {i}
  BY <1>1, <1>2, <1>8, Zenon DEF Labelled
<1>10. ASSUME NEW i \in 1..n PROVE p[i].undo \in BOOLEAN
  BY <1>3, <1>7, <1>8, Zenon DEF IsStage
<1>11. \A i \in 1..n : i # k => Tame(p[i], r[i], i)
  BY <1>3, <1>8, Zenon DEF Tame, IsStage
<1>12. Tame(stage, old, k)
  <2>1. CASE k \in Free
    <3>1. k \in Untreated
      BY <2>1 DEF Untreated
    <3> QED BY <1>7, <2>1, <3>1, Zenon DEF Tame
  <2>2. CASE k \notin Free \cup Untreated /\ names[k] \in BlockNames
    <3>1. stage = old
      BY <1>0, <1>1, <1>2, <1>6, <1>8, <2>2, BlocksAreKept, Zenon
    <3> QED BY <1>7, <2>2, <3>1, Zenon DEF Tame
  <2>3. CASE names[7] = "Build Once" /\ names[8] = "Resolve Digest"
             /\ names[12] = "Verify Artifact Contract" /\ k \in {7, 8, 12}
    <3>1. 7 \in 1..n /\ 8 \in 1..n /\ 12 \in 1..n
      BY <1>2
    <3>2. /\ Named(p, "Build Once") = {7} /\ Named(p, "Resolve Digest") = {8}
          /\ Named(p, "Verify Artifact Contract") = {12}
      BY <1>9, <2>3, <3>1, Zenon
    <3>3. p[7].steps # <<>> /\ p[8].steps # <<>> /\ p[12].steps # <<>>
      BY <1>0, <3>2, BuildStepsAreKept
    <3>4. stage.steps # <<>>
      BY <1>8, <2>3, <3>3
    <3>5. /\ r[k].name \in {"Build Once", "Resolve Digest", "Verify Artifact Contract"}
          /\ p[k].name = r[k].name
      BY <1>3, <1>6, <1>7, <1>8, <2>3
    <3>6. p[k].when = Routed(RoutedPatterns(m))
      BY <1>0, <1>9, <3>5, RoutesAreKept
    <3>7. r[k].when = Routed(RoutedPatterns(m))
      <4>1. IsRendering(m, r)
        BY <1>1, Stages, Zenon
      <4>2. r[7] = BuildOnceStage(m) /\ r[8] = ResolveDigestStage(m)
            /\ r[12] = VerifyArtifactStage(m)
        BY <4>1, Zenon DEF IsRendering
      <4>3. /\ BuildOnceStage(m).when = Routed(RoutedPatterns(m))
            /\ ResolveDigestStage(m).when = Routed(RoutedPatterns(m))
            /\ VerifyArtifactStage(m).when = Routed(RoutedPatterns(m))
        BY DEF BuildOnceStage, ResolveDigestStage, VerifyArtifactStage, Stage
      <4> QED BY <2>3, <4>2, <4>3, Zenon
    <3>8. stage.when = old.when
      BY <1>6, <1>8, <3>6, <3>7, Zenon
    <3>9. k \notin Free /\ k \in Untreated
      <4>1. k = 7 \/ k = 8 \/ k = 12
        BY <2>3
      <4> QED BY <4>1 DEF Free, Untreated
    <3> QED BY <1>7, <3>4, <3>8, <3>9, Zenon DEF Tame
  <2>4. CASE \E e \in Environments : \E i \in 1..n, j \in 1..n :
                i # j /\ names[i] = Deploy[e] /\ names[j] = Rollout[e] /\ k \in {i, j}
    <3>1. PICK e \in Environments, i \in 1..n, j \in 1..n :
             i # j /\ names[i] = Deploy[e] /\ names[j] = Rollout[e] /\ k \in {i, j}
      BY <2>4
    <3>2. Named(p, Deploy[e]) = {i} /\ Named(p, Rollout[e]) = {j} /\ i \in Nat /\ j \in Nat
      BY <1>9, <3>1
    <3>3. /\ p[i].steps # <<>> /\ p[j].steps # <<>>
          /\ p[i].undo = m.rollback[e] /\ p[j].undo = m.rollback[e]
      BY <1>0, <1>10, <3>1, <3>2, DeploymentsAreKept
    <3>4. stage.steps # <<>> /\ stage.undo = m.rollback[e]
      BY <1>8, <3>1, <3>3
    <3>5. r[k].name \in {Deploy[e], Rollout[e]} /\ p[k].name = r[k].name
      BY <1>3, <1>6, <1>7, <1>8, <3>1
    <3>6. stage.when = Routed(m.routes[e])
      <4>1. k \in DOMAIN p /\ p[k].name \in {Deploy[e], Rollout[e]}
        BY <1>9, <3>5
      <4>2. p[k].when = Routed(m.routes[e])
        BY <1>0, <4>1, RoutesAreKept, Zenon
      <4> QED BY <1>8, <4>2
    <3>7. old.when = Routed(m.routes[e]) /\ old.undo = m.rollback[e]
      <4>1. k \in 1..Len(r) /\ r[k].name \in {Deploy[e], Rollout[e]}
        BY <1>2, <3>5
      <4>2. r[k].when = Routed(m.routes[e]) /\ r[k].undo = m.rollback[e]
        BY <1>1, <3>1, <4>1, RenderedDeployments
      <4> QED BY <1>6, <4>2
    <3> QED BY <1>7, <3>4, <3>6, <3>7, Zenon DEF Tame
  <2>5. names = OrderedNames(m) /\ n = Len(Render(m)) /\ k \in 1..n
    BY <1>1, <1>2, Zenon
  <2>6. \/ k \in Free
        \/ k \notin Free \cup Untreated /\ names[k] \in BlockNames
        \/ names[7] = "Build Once" /\ names[8] = "Resolve Digest"
           /\ names[12] = "Verify Artifact Contract" /\ k \in {7, 8, 12}
        \/ \E e \in Environments : \E i \in 1..n, j \in 1..n :
              i # j /\ names[i] = Deploy[e] /\ names[j] = Rollout[e] /\ k \in {i, j}
    <3>1. PlaceKnown(names, n, k)
      BY <2>5, PlacesOfNames
    <3> QED BY <3>1, Zenon DEF PlaceKnown
  <2> QED BY <2>1, <2>2, <2>3, <2>4, <2>6
<1>13. \A i \in 1..n : Tame(p[i], r[i], i)
  BY <1>6, <1>8, <1>11, <1>12, Zenon
<1> QED BY <1>1, <1>2, <1>8, <1>13, Zenon

\* A pipeline that differs from a rendered one in one stage, and in which the checks
\* that look for something in particular find nothing amiss, is safe.
LEMMA AcceptedEditsAreSafe ==
    ASSUME NEW m \in DeliveryModels, NEW p \in Edits(Render(m)),
           StructureIssues(p) \cup Mismatches(p, m) = {}
    PROVE  Safe(p, m)
<1>1. Mismatches(p, m) = {}
  OBVIOUS
<1>2. Len(p) = Len(Render(m)) /\ \A i \in 1..Len(Render(m)) : Tame(p[i], Render(m)[i], i)
  BY <1>1, AcceptedEditsAreTame
<1>3. ASSUME NEW b \in Branches PROVE SafeFor(m, b, Plan(p, b))
  <2>1. Follows(p, Render(m), b)
    BY <1>2, TameFollows, Zenon
  <2>2. Conforms(m, b, Plan(p, b))
    BY <1>2, <2>1, FollowingConforms
  <2> QED BY <2>2, ConformingIsSafe
<1> QED BY <1>3 DEF Safe

-----------------------------------------------------------------------------
(* The plans of the builds are those of a rendered pipeline.               *)

PlansAreSafe ==
    \A b \in Branches :
        /\ plan[b] \in Seq(Commands) /\ plan[b] # <<>> /\ plan[b][1].do = "checkout"
        /\ SafeFor(model, b, plan[b])

-----------------------------------------------------------------------------
(* The invariant.                                                          *)

Active(r) == r.result \in {"running", "unwinding"}
\* The commands that build record r of branch b has behind it.
Did(b, r, command) == \E j \in 1..r.at - 1 : plan[b][j].do = command
NamesCommit == model.strategy \in {"git-sha", "branch-sha"}

Fields == {"n", "result", "at", "rev", "version", "tag", "looked", "digest", "started",
           "touched", "revised", "prior", "undone", "refused"}
\* What a build record holds, whether or not it is at work.
RecordOK(b, r) ==
    /\ DOMAIN r = Fields
    /\ r.n \in 0..MaxBuilds /\ r.result \in Results
    /\ r.started \in SUBSET Environments /\ r.touched \in SUBSET Environments
    /\ r.revised \in SUBSET Environments /\ r.undone \in SUBSET Environments
    /\ DOMAIN r.prior = Environments
    /\ Active(r) => /\ r.at \in DOMAIN plan[b]
                    /\ r.rev \in Commits
                    /\ r.undone = {}
    /\ r.started \subseteq r.touched
    /\ \A e \in r.started : b \in DeploysTo(e)
    /\ r.result = "unwinding" => plan[b][r.at].env \in r.started

\* What a running build knows, by what it has behind it.
Names(r, image) == image \in Images /\ (NamesCommit => image.rev = r.rev)
IntentPart(b, r) ==
    Did(b, r, "intent") =>
        r.tag = TagOf(model, b, r.rev, r.version) /\ TagIsConcrete(model, r.version)
TagPart(b, r) == r.tag = None \/ (r.tag = TagOf(model, b, r.rev, r.version)
                                 /\ TagIsConcrete(model, r.version))
LookPart(b, r) == Did(b, r, "inspect") => Names(r, r.looked)
DigestPart(b, r, files) ==
    Did(b, r, "recheck") =>
        Names(r, r.digest) /\ files.artifact = [image |-> r.digest, rev |-> r.rev]
\* The image is one whose evidence build `id` had accepted.
Vouched(id, image) ==
    /\ \E v \in verified :
          /\ v.id = id
          /\ v.files.artifact.image = image
          /\ model.sbom => v.files.sbom.image = image
          /\ model.scan # "off" => v.files.scan.image = image
          /\ model.provenance => v.files.provenance.image = image
    /\ model.scan \in {"legacy", "policy"} => image.rev \notin Flawed
VerifiedPart(b, r) == Did(b, r, "verify") => Vouched(<<b, r.n>>, r.digest)
ApprovedPart(b, r) == Did(b, r, "approve") => <<b, r.n>> \in approvals
Knows(b, r, files) ==
    r.result = "running" =>
        /\ IntentPart(b, r) /\ TagPart(b, r) /\ LookPart(b, r)
        /\ DigestPart(b, r, files) /\ VerifiedPart(b, r) /\ ApprovedPart(b, r)

Revisions == [image : Images, by : BuildIds]
SettingsInv == model \in Models /\ SemanticFailures(model) = {} /\ PlansAreSafe
TypeInv ==
    /\ SettingsInv
    /\ DOMAIN build = Branches /\ DOMAIN workspace = Branches
    /\ \A b \in Branches : RecordOK(b, build[b]) /\ DOMAIN workspace[b] = DOMAIN Emptied
    /\ tags \in [TagNames -> Images \cup {None}]
    /\ cluster \in [Environments -> Seq(Revisions)]
KnowledgeInv == \A b \in Branches : Knows(b, build[b], workspace[b])
\* A tag that names a commit is of an image of that commit.
TagsInv ==
    NamesCommit => \A b \in Branches, c \in Commits, v \in Versions \cup {None} :
        LET image == tags[TagOf(model, b, c, v)] IN image # None => image.rev = c

\* Where one branch alone deploys to an environment and its build has revised it,
\* the revision before the latest is what was there before.
Sole(b, e) == DeploysTo(e) = {b}
RevisedInv ==
    \A b \in Branches : \A e \in build[b].revised : Active(build[b]) /\ Sole(b, e) =>
        LET n == Len(cluster[e]) IN
        /\ n > 1 => cluster[e][n - 1].image = build[b].prior[e]
        /\ build[b].result = "running" =>
              Current(e) = build[b].digest /\ Did(b, build[b], "verify")

IInv ==
    /\ TypeInv /\ KnowledgeInv /\ TagsInv /\ RevisedInv
    /\ DeployedIsVerified /\ SourceIsTrue /\ ProductionIsApproved /\ RollbackRestores

-----------------------------------------------------------------------------
(* Records of builds.                                                      *)

\* What the end of a build leaves of its record.
Kept(c, d) ==
    /\ d.n = c.n /\ d.touched = c.touched /\ d.revised = c.revised
    /\ d.prior = c.prior /\ d.undone = c.undone

\* What a step may do to the part of the record that outlives the build.
Grows(c, d) ==
    /\ d.n = c.n /\ c.touched \subseteq d.touched /\ d.revised = c.revised
    /\ d.prior = c.prior /\ d.undone = c.undone

LEMMA EndedIsOK ==
    ASSUME NEW b \in Branches, NEW r, RecordOK(b, r), NEW res \in {"success", "failure", "aborted"}
    PROVE  RecordOK(b, Ended(r, res)) /\ Ended(r, res).result = res /\ Kept(r, Ended(r, res))
BY DEF RecordOK, Ended, Kept, Active, Fields, Results

\* A failing step leaves its build unwinding or ended.
LEMMA FailEnds ==
    ASSUME TypeInv, NEW b \in Branches, NEW r, RecordOK(b, r), r.result = "running",
           r.at = build[b].at, Fail(b, r)
    PROVE  \E d : /\ build' = [build EXCEPT ![b] = d]
                  /\ RecordOK(b, d) /\ d.result # "running" /\ Kept(r, d)
                  /\ Active(d) => Active(r)
<1>1. CASE Step(b).undo /\ Step(b).env \in r.started
  <2> DEFINE d == [r EXCEPT !.result = "unwinding"]
  <2>1. build' = [build EXCEPT ![b] = d]
    BY <1>1 DEF Fail
  <2>2. RecordOK(b, d) /\ d.result = "unwinding" /\ Kept(r, d)
    BY <1>1 DEF RecordOK, Kept, Active, Fields, Results, Step
  <2> QED BY <2>1, <2>2 DEF Active
<1>2. CASE ~(Step(b).undo /\ Step(b).env \in r.started)
  <2>1. build' = [build EXCEPT ![b] = Ended(r, "failure")]
    BY <1>2 DEF Fail
  <2> QED BY <2>1, EndedIsOK DEF Active
<1> QED BY <1>1, <1>2

\* A step that succeeds ends the build or is behind it afterwards.
LEMMA AdvanceGoesOn ==
    ASSUME TypeInv, NEW b \in Branches, NEW r, RecordOK(b, r), r.result = "running",
           r.at = build[b].at, Advance(b, r)
    PROVE  \E d : /\ build' = [build EXCEPT ![b] = d]
                  /\ RecordOK(b, d) /\ Kept(r, d)
                  /\ \/ ~Active(d)
                     \/ /\ d.result = "running" /\ d.at = r.at + 1
                        /\ d.rev = r.rev /\ d.version = r.version /\ d.tag = r.tag
                        /\ d.looked = r.looked /\ d.digest = r.digest
<1>1. CASE r.at = Len(plan[b])
  <2>1. build' = [build EXCEPT ![b] = Ended(r, "success")]
    BY <1>1 DEF Advance
  <2> QED BY <2>1, EndedIsOK DEF Active
<1>2. CASE r.at # Len(plan[b])
  <2> DEFINE d == [r EXCEPT !.at = @ + 1]
  <2>1. build' = [build EXCEPT ![b] = d]
    BY <1>2 DEF Advance
  <2>2. r.at \in DOMAIN plan[b] /\ plan[b] \in Seq(Commands)
    BY DEF TypeInv, SettingsInv, PlansAreSafe, RecordOK, Active
  <2>3. r.at + 1 \in DOMAIN plan[b]
    BY <1>2, <2>2
  <2>4. RecordOK(b, d) /\ Kept(r, d)
    BY <2>3 DEF RecordOK, Kept, Active, Fields, Results
  <2>5. /\ d.result = "running" /\ d.at = r.at + 1
        /\ d.rev = r.rev /\ d.version = r.version /\ d.tag = r.tag
        /\ d.looked = r.looked /\ d.digest = r.digest
    BY DEF RecordOK, Fields
  <2> QED BY <2>1, <2>4, <2>5
<1> QED BY <1>1, <1>2

LEMMA DidGrows ==
    ASSUME NEW b, NEW r, NEW d, NEW c, r.at \in Nat \ {0}, d.at = r.at + 1
    PROVE  Did(b, d, c) <=> Did(b, r, c) \/ plan[b][r.at].do = c
BY DEF Did

\* What others accept meanwhile takes nothing away.
LEMMA VouchedStays ==
    ASSUME UNCHANGED settings, verified \subseteq verified', NEW id, NEW image,
           Vouched(id, image)
    PROVE  Vouched(id, image)'
BY DEF Vouched, settings

\* The order of the steps of a safe plan.
LEMMA PlanOrder ==
    ASSUME TypeInv, NEW b \in Branches, NEW i \in DOMAIN plan[b]
    PROVE  /\ plan[b] \in Seq(Commands)
           /\ plan[b][i].do \in {"push", "inspect"} => \E j \in 1..i - 1 : plan[b][j].do = "intent"
           /\ plan[b][i].do = "recheck" => \E j \in 1..i - 1 : plan[b][j].do = "inspect"
           /\ plan[b][i].do = "verify" => \E j \in 1..i - 1 : plan[b][j].do = "recheck"
           /\ plan[b][i].do \in {"checkout", "push"} =>
                ~\E j \in 1..i - 1 : plan[b][j].do \in {"push", "recheck"}
           /\ plan[b][i].do = "recheck" => ~\E j \in 1..i - 1 : plan[b][j].do = "verify"
           /\ plan[b][i].do = "apply" =>
                /\ plan[b][i].env \in Environments /\ b \in DeploysTo(plan[b][i].env)
                /\ \E j \in 1..i - 1 : plan[b][j].do = "verify"
                /\ plan[b][i].env = "production" /\ model.approval =>
                      \E j \in 1..i - 1 : plan[b][j].do = "approve"
<1>1. plan[b] \in Seq(Commands) /\ SafeFor(model, b, plan[b])
  BY DEF TypeInv, SettingsInv, PlansAreSafe
<1>2. i \in Nat /\ \A j \in 1..i - 1 : j \in DOMAIN plan[b] /\ j < i
  BY <1>1
<1> QED BY <1>1, <1>2 DEF SafeFor, DeploysTo

-----------------------------------------------------------------------------
(* A step of one build that leaves the Deployments alone.                  *)

\* The build's record becomes d, its files become `files`, what happened before
\* stays true.
LEMMA QuietStep ==
    ASSUME IInv, NEW b \in Branches, NEW d, NEW files,
           build' = [build EXCEPT ![b] = d], DOMAIN workspace' = Branches,
           workspace'[b] = files, \A q \in Branches \ {b} : workspace'[q] = workspace[q],
           RecordOK(b, d), DOMAIN files = DOMAIN Emptied, Knows(b, d, files)',
           UNCHANGED <<settings, cluster>>,
           tags' \in [TagNames -> Images \cup {None}], TagsInv',
           verified \subseteq verified', approvals \subseteq approvals', SourceIsTrue',
           \/ d.revised = {} /\ d.undone = {}
           \/ /\ Grows(build[b], d)
              /\ Active(d) => Active(build[b])
              /\ d.result = "running" /\ Did(b, build[b], "verify") =>
                    /\ build[b].result = "running"
                    /\ d.digest = build[b].digest /\ Did(b, d, "verify")
              /\ d.result = "running" => build[b].result = "running"
    PROVE  IInv'
<1>1. /\ DOMAIN build' = Branches /\ build'[b] = d
      /\ \A q \in Branches : q # b => build'[q] = build[q]
  BY DEF IInv, TypeInv
<1>2. model' = model /\ plan' = plan
  BY DEF settings
<1>3. TypeInv'
  <2>1. \A q \in Branches : RecordOK(q, build[q])' /\ DOMAIN workspace'[q] = DOMAIN Emptied
    BY <1>1, <1>2 DEF IInv, TypeInv, RecordOK, DeploysTo
  <2>2. SettingsInv'
    BY <1>2 DEF IInv, TypeInv, SettingsInv, PlansAreSafe
  <2> QED BY <1>1, <2>1, <2>2 DEF IInv, TypeInv
<1>4. KnowledgeInv'
  <2> SUFFICES ASSUME NEW q \in Branches PROVE Knows(q, build[q], workspace[q])'
    BY DEF KnowledgeInv
  <2>1. CASE q = b
    BY <1>1, <2>1
  <2>2. CASE q # b
    <3>1. build'[q] = build[q] /\ workspace'[q] = workspace[q]
      BY <1>1, <2>2
    <3>2. Knows(q, build[q], workspace[q])
      BY DEF IInv, KnowledgeInv
    <3>3. VerifiedPart(q, build[q]) => VerifiedPart(q, build[q])'
      BY <1>2, <3>1, VouchedStays DEF VerifiedPart, Did
    <3> QED BY <1>2, <3>1, <3>2, <3>3
            DEF Knows, IntentPart, TagPart, LookPart, DigestPart, ApprovedPart, Did, Names,
                NamesCommit
  <2> QED BY <2>1, <2>2
<1>6. RevisedInv'
  <2> SUFFICES ASSUME NEW q \in Branches, NEW e \in build'[q].revised, Active(build'[q]),
                      Sole(q, e)
               PROVE  LET n == Len(cluster[e]) IN
                      /\ n > 1 => cluster[e][n - 1].image = build'[q].prior[e]
                      /\ build'[q].result = "running" =>
                            Current(e) = build'[q].digest /\ Did(q, build'[q], "verify")
    BY <1>2 DEF RevisedInv, Sole, DeploysTo, Current, Latest, Did
  <2>1. CASE q # b
    BY <1>1, <2>1 DEF IInv, RevisedInv
  <2>2. CASE q = b
    <3>1. /\ Grows(build[b], d) /\ Active(build[b]) /\ e \in build[b].revised
          /\ d.prior = build[b].prior
      BY <1>1, <2>2 DEF Grows
    <3>2. LET n == Len(cluster[e]) IN
          /\ n > 1 => cluster[e][n - 1].image = build[b].prior[e]
          /\ build[b].result = "running" =>
                Current(e) = build[b].digest /\ Did(b, build[b], "verify")
      BY <2>2, <3>1 DEF IInv, RevisedInv
    <3> QED BY <1>1, <2>2, <3>1, <3>2
  <2> QED BY <2>1, <2>2
<1>7. DeployedIsVerified'
  BY <1>2 DEF IInv, DeployedIsVerified
<1>8. ProductionIsApproved'
  BY <1>2 DEF IInv, ProductionIsApproved, DeploysTo
<1>9. RollbackRestores'
  BY <1>1, <1>2 DEF IInv, RollbackRestores, Grows, DeploysTo, Current, Latest
<1> QED BY <1>3, <1>4, <1>6, <1>7, <1>8, <1>9 DEF IInv

LEMMA TagsStay ==
    ASSUME IInv, UNCHANGED <<settings, tags>>
    PROVE  tags' \in [TagNames -> Images \cup {None}] /\ TagsInv'
BY DEF IInv, TypeInv, TagsInv, NamesCommit, settings

\* The build ends, or goes on to undo its rollout.
LEMMA StopStep ==
    ASSUME IInv, NEW b \in Branches, NEW d, NEW files,
           build' = [build EXCEPT ![b] = d], DOMAIN workspace' = Branches,
           workspace'[b] = files, \A q \in Branches \ {b} : workspace'[q] = workspace[q],
           RecordOK(b, d), DOMAIN files = DOMAIN Emptied,
           d.result # "running", Grows(build[b], d), Active(d) => Active(build[b]),
           UNCHANGED <<settings, cluster, verified, approvals>>,
           tags' \in [TagNames -> Images \cup {None}], TagsInv'
    PROVE  IInv'
<1>1. Knows(b, d, files)'
  BY DEF Knows
<1>2. SourceIsTrue'
  BY DEF IInv, SourceIsTrue, settings
<1> QED BY <1>1, <1>2, QuietStep

LEMMA FailStep ==
    ASSUME IInv, NEW b \in Branches, NEW r, NEW files,
           Running(b), RecordOK(b, r), r.result = "running", r.at = build[b].at,
           Grows(build[b], r), Fail(b, r),
           DOMAIN workspace' = Branches, workspace'[b] = files,
           \A q \in Branches \ {b} : workspace'[q] = workspace[q],
           DOMAIN files = DOMAIN Emptied,
           UNCHANGED <<settings, cluster, verified, approvals>>,
           tags' \in [TagNames -> Images \cup {None}], TagsInv'
    PROVE  IInv'
<1>1. PICK d : /\ build' = [build EXCEPT ![b] = d]
               /\ RecordOK(b, d) /\ d.result # "running" /\ Kept(r, d)
               /\ Active(d) => Active(r)
  BY FailEnds DEF IInv
<1>2. Grows(build[b], d) /\ Active(build[b])
  BY <1>1 DEF Grows, Kept, Running, Active
<1> QED BY <1>1, <1>2, StopStep

\* The commands a build has to remember.
Remembered == {"intent", "inspect", "recheck", "verify", "approve"}
LEMMA KnowsStays ==
    ASSUME IInv, NEW b \in Branches, NEW d, NEW files, Running(b),
           d.n = build[b].n, d.rev = build[b].rev, d.version = build[b].version,
           d.tag = build[b].tag, d.looked = build[b].looked, d.digest = build[b].digest,
           \A c \in Remembered : Did(b, d, c) => Did(b, build[b], c),
           \/ files.artifact = workspace[b].artifact
           \/ ~Did(b, build[b], "recheck"),
           UNCHANGED settings, verified \subseteq verified', approvals \subseteq approvals'
    PROVE  Knows(b, d, files)'
<1>1. Knows(b, build[b], workspace[b]) /\ build[b].result = "running"
  BY DEF IInv, KnowledgeInv, Running
<1>2. \A c : Did(b, d, c)' <=> Did(b, d, c)
  BY DEF Did, settings
<1>3. VerifiedPart(b, build[b]) => VerifiedPart(b, d)'
  BY <1>2, VouchedStays DEF VerifiedPart, Remembered
<1>4. model' = model /\ plan' = plan
  BY DEF settings
<1> QED BY <1>1, <1>2, <1>3, <1>4
        DEF Knows, IntentPart, TagPart, LookPart, DigestPart, ApprovedPart, Names, NamesCommit,
            Remembered

\* A step that leaves nothing to remember passes or fails.
LEMMA PlainStep ==
    ASSUME IInv, NEW b \in Branches, NEW r, NEW files, Running(b), Step(b).do \notin Remembered,
           RecordOK(b, r), r.result = "running", r.at = build[b].at, Grows(build[b], r),
           r.rev = build[b].rev, r.version = build[b].version,
           r.tag = build[b].tag, r.looked = build[b].looked, r.digest = build[b].digest,
           Advance(b, r) \/ Fail(b, r),
           DOMAIN workspace' = Branches, workspace'[b] = files,
           \A q \in Branches \ {b} : workspace'[q] = workspace[q],
           DOMAIN files = DOMAIN Emptied,
           \/ files.artifact = workspace[b].artifact
           \/ ~Did(b, build[b], "recheck"),
           UNCHANGED <<settings, cluster, verified, approvals>>,
           tags' \in [TagNames -> Images \cup {None}], TagsInv'
    PROVE  IInv'
<1>1. CASE Fail(b, r)
  BY <1>1, FailStep
<1>2. CASE Advance(b, r)
  <2>1. PICK d : /\ build' = [build EXCEPT ![b] = d]
                 /\ RecordOK(b, d) /\ Kept(r, d)
                 /\ \/ ~Active(d)
                    \/ /\ d.result = "running" /\ d.at = r.at + 1
                       /\ d.rev = r.rev /\ d.version = r.version /\ d.tag = r.tag
                       /\ d.looked = r.looked /\ d.digest = r.digest
    BY <1>2, AdvanceGoesOn DEF IInv
  <2>2. Grows(build[b], d) /\ Active(build[b]) /\ d.n = build[b].n
    BY <2>1 DEF Grows, Kept, Running, Active
  <2>3. CASE ~Active(d)
    BY <2>1, <2>2, <2>3, StopStep DEF Active
  <2>4. CASE d.result = "running" /\ d.at = r.at + 1
    <3>0. d.rev = r.rev /\ d.version = r.version /\ d.tag = r.tag /\ d.looked = r.looked
          /\ d.digest = r.digest
      BY <2>1, <2>4 DEF Active
    <3>1. build[b].at \in Nat \ {0}
      <4>1. build[b].at \in DOMAIN plan[b] /\ plan[b] \in Seq(Commands)
        BY DEF IInv, TypeInv, SettingsInv, PlansAreSafe, RecordOK, Running, Active
      <4> QED BY <4>1
    <3>2. \A c : Did(b, d, c) <=> Did(b, build[b], c) \/ Step(b).do = c
      BY <2>4, <3>1, DidGrows DEF Step
    <3>3. Knows(b, d, files)'
      BY <2>1, <2>2, <3>0, <3>2, KnowsStays
    <3>4. SourceIsTrue'
      BY DEF IInv, SourceIsTrue, settings
    <3>5. build[b].result = "running"
      BY DEF Running
    <3> QED BY <2>1, <2>2, <3>0, <3>2, <3>3, <3>4, <3>5, QuietStep
  <2> QED BY <2>1, <2>3, <2>4
<1> QED BY <1>1, <1>2

\* Steps start from the build's own record.
LEMMA RecordIsOK ==
    ASSUME IInv, NEW b \in Branches
    PROVE  /\ RecordOK(b, build[b]) /\ Grows(build[b], build[b])
           /\ DOMAIN workspace = Branches /\ DOMAIN workspace[b] = DOMAIN Emptied
BY DEF IInv, TypeInv, Grows

LEMMA StepIsThere ==
    ASSUME IInv, NEW b \in Branches, Active(build[b])
    PROVE  /\ plan[b] \in Seq(Commands) /\ build[b].at \in DOMAIN plan[b]
           /\ build[b].at \in Nat \ {0}
<1>1. build[b].at \in DOMAIN plan[b] /\ plan[b] \in Seq(Commands)
  BY DEF IInv, TypeInv, SettingsInv, PlansAreSafe, RecordOK
<1> QED BY <1>1

\* A step succeeds that its build remembers.
LEMMA GoOnStep ==
    ASSUME IInv, NEW b \in Branches, NEW r, NEW files, Running(b),
           RecordOK(b, r), r.result = "running", r.at = build[b].at, Grows(build[b], r),
           Advance(b, r),
           r.digest = build[b].digest \/ ~Did(b, build[b], "verify"),
           DOMAIN workspace' = Branches, workspace'[b] = files,
           \A q \in Branches \ {b} : workspace'[q] = workspace[q],
           DOMAIN files = DOMAIN Emptied,
           UNCHANGED <<settings, tags, cluster>>,
           verified \subseteq verified', approvals \subseteq approvals', SourceIsTrue',
           \A d : /\ d.result = "running" /\ d.n = build[b].n
                  /\ \A c : Did(b, d, c)' <=> Did(b, build[b], c) \/ Step(b).do = c
                  /\ d.rev = r.rev /\ d.version = r.version /\ d.tag = r.tag
                  /\ d.looked = r.looked /\ d.digest = r.digest
                  => Knows(b, d, files)'
    PROVE  IInv'
<1>1. PICK d : /\ build' = [build EXCEPT ![b] = d]
               /\ RecordOK(b, d) /\ Kept(r, d)
               /\ \/ ~Active(d)
                  \/ /\ d.result = "running" /\ d.at = r.at + 1
                     /\ d.rev = r.rev /\ d.version = r.version /\ d.tag = r.tag
                     /\ d.looked = r.looked /\ d.digest = r.digest
  BY AdvanceGoesOn DEF IInv
<1>2. /\ Grows(build[b], d) /\ Active(build[b]) /\ d.n = build[b].n
      /\ build[b].result = "running"
  BY <1>1 DEF Grows, Kept, Running, Active
<1>3. tags' \in [TagNames -> Images \cup {None}] /\ TagsInv'
  BY TagsStay
<1>4. CASE ~Active(d)
  <2>1. d.result # "running" /\ Knows(b, d, files)'
    BY <1>4 DEF Active, Knows
  <2> QED BY <1>1, <1>2, <1>3, <1>4, <2>1, QuietStep
<1>5. CASE Active(d)
  <2>1. /\ d.result = "running" /\ d.at = r.at + 1
        /\ d.rev = r.rev /\ d.version = r.version /\ d.tag = r.tag
        /\ d.looked = r.looked /\ d.digest = r.digest
    BY <1>1, <1>5
  <2>2. \A c : Did(b, d, c) <=> Did(b, build[b], c) \/ Step(b).do = c
    BY <1>2, <2>1, StepIsThere, DidGrows DEF Step
  <2>3. \A c : Did(b, d, c)' <=> Did(b, build[b], c) \/ Step(b).do = c
    BY <2>2 DEF Did, settings
  <2>4. Knows(b, d, files)'
    BY <1>2, <2>1, <2>3
  <2>5. Did(b, build[b], "verify") => d.digest = build[b].digest /\ Did(b, d, "verify")
    BY <2>1, <2>2
  <2> QED BY <1>1, <1>2, <1>3, <2>1, <2>4, <2>5, QuietStep
<1> QED BY <1>4, <1>5

-----------------------------------------------------------------------------
(* The actions.                                                            *)

LEMMA StopsAreQuiet ==
    ASSUME IInv, NEW b \in Branches, ApprovalTimesOut(b) \/ Abort(b)
    PROVE  IInv'
<1> DEFINE d == Ended(build[b], "aborted")
<1>1. /\ build' = [build EXCEPT ![b] = d]
      /\ UNCHANGED <<settings, workspace, tags, cluster, verified, approvals>>
  BY DEF ApprovalTimesOut, Abort
<1>2. RecordOK(b, d) /\ d.result = "aborted" /\ Kept(build[b], d)
  BY RecordIsOK, EndedIsOK
<1>3. Grows(build[b], d) /\ ~Active(d)
  BY <1>2 DEF Grows, Kept, Active
<1> HIDE DEF d
<1> QED BY <1>1, <1>2, <1>3, RecordIsOK, TagsStay, StopStep

LEMMA PlainActions ==
    ASSUME IInv, NEW b \in Branches, ApplyNothing(b) \/ RolloutStatus(b)
    PROVE  IInv'
<1>1. /\ Running(b) /\ Step(b).do \notin Remembered
      /\ Advance(b, build[b]) \/ Fail(b, build[b])
      /\ UNCHANGED <<settings, workspace, tags, cluster, verified, approvals>>
  BY DEF ApplyNothing, RolloutStatus, At, Remembered
<1>2. build[b].result = "running"
  BY <1>1 DEF Running
<1> QED BY <1>1, <1>2, RecordIsOK, TagsStay, PlainStep

LEMMA CheckoutIsQuiet ==
    ASSUME IInv, NEW b \in Branches, Checkout(b)
    PROVE  IInv'
<1>1. /\ Running(b) /\ Step(b).do = "checkout" /\ Step(b).do \notin Remembered
      /\ Advance(b, build[b]) \/ Fail(b, build[b])
      /\ workspace' = [workspace EXCEPT ![b] = Emptied]
      /\ UNCHANGED <<settings, tags, cluster, verified, approvals>>
  BY DEF Checkout, At, Remembered
<1>2. build[b].result = "running" /\ Active(build[b])
  BY <1>1 DEF Running, Active
<1>3. ~Did(b, build[b], "recheck")
  BY <1>1, <1>2, StepIsThere, PlanOrder DEF Did, Step, IInv
<1>4. /\ DOMAIN workspace' = Branches /\ workspace'[b] = Emptied
      /\ \A q \in Branches \ {b} : workspace'[q] = workspace[q]
  BY <1>1, RecordIsOK
<1> QED BY <1>1, <1>2, <1>3, <1>4, RecordIsOK, TagsStay, PlainStep

LEMMA EvidenceIsQuiet ==
    ASSUME IInv, NEW b \in Branches, NEW kind \in {"sbom", "scan", "provenance"},
           ProduceEvidence(b, kind)
    PROVE  IInv'
<1>1. /\ Running(b) /\ Step(b).do = kind /\ Step(b).do \notin Remembered
      /\ Advance(b, build[b]) \/ Fail(b, build[b])
      /\ \/ workspace' = [workspace EXCEPT ![b][kind] = EvidenceOf(b)]
         \/ workspace' = workspace
      /\ UNCHANGED <<settings, tags, cluster, verified, approvals>>
  BY DEF ProduceEvidence, At, Remembered
<1>2. build[b].result = "running"
  BY <1>1 DEF Running
<1>4. /\ DOMAIN workspace' = Branches /\ DOMAIN workspace'[b] = DOMAIN Emptied
      /\ workspace'[b].artifact = workspace[b].artifact
      /\ \A q \in Branches \ {b} : workspace'[q] = workspace[q]
  BY <1>1, RecordIsOK DEF Emptied
<1> QED BY <1>1, <1>2, <1>4, RecordIsOK, TagsStay, PlainStep

LEMMA ApproveIsQuiet ==
    ASSUME IInv, NEW b \in Branches, Approve(b)
    PROVE  IInv'
<1>1. /\ Running(b) /\ Step(b).do = "approve" /\ Advance(b, build[b])
      /\ approvals' = approvals \cup {<<b, build[b].n>>}
      /\ UNCHANGED <<settings, workspace, tags, cluster, verified>>
  BY DEF Approve, At, Id
<1>2. build[b].result = "running" /\ Knows(b, build[b], workspace[b])
  BY <1>1 DEF Running, IInv, KnowledgeInv
<1>3. SourceIsTrue' /\ model' = model /\ plan' = plan
  BY <1>1 DEF IInv, SourceIsTrue, settings
<1>4. ASSUME NEW d, d.result = "running", d.n = build[b].n,
             \A c : Did(b, d, c)' <=> Did(b, build[b], c) \/ Step(b).do = c,
             d.rev = build[b].rev, d.version = build[b].version, d.tag = build[b].tag,
             d.looked = build[b].looked, d.digest = build[b].digest
      PROVE  Knows(b, d, workspace[b])'
  <2>1. VerifiedPart(b, build[b]) => VerifiedPart(b, d)'
    BY <1>1, <1>4, VouchedStays DEF VerifiedPart
  <2>2. ApprovedPart(b, d)'
    BY <1>1, <1>4 DEF ApprovedPart
  <2> QED BY <1>1, <1>2, <1>3, <1>4, <2>1, <2>2
          DEF Knows, IntentPart, TagPart, LookPart, DigestPart, Names, NamesCommit
<1> QED BY <1>1, <1>2, <1>3, <1>4, RecordIsOK, GoOnStep

LEMMA IntentIsQuiet ==
    ASSUME IInv, NEW b \in Branches, ResolveIntent(b)
    PROVE  IInv'
<1> DEFINE r == [build[b] EXCEPT !.tag = TagOf(model, b, build[b].rev, build[b].version)]
<1>1. /\ Running(b) /\ Step(b).do = "intent"
      /\ UNCHANGED <<settings, workspace, tags, cluster, verified, approvals>>
      /\ \/ TagIsConcrete(model, build[b].version) /\ Advance(b, r)
         \/ Fail(b, build[b])
  BY DEF ResolveIntent, At
<1>2. build[b].result = "running" /\ Knows(b, build[b], workspace[b])
  BY <1>1 DEF Running, IInv, KnowledgeInv
<1>3. SourceIsTrue' /\ model' = model /\ plan' = plan
  BY <1>1 DEF IInv, SourceIsTrue, settings
<1>4. CASE Fail(b, build[b])
  BY <1>1, <1>2, <1>4, RecordIsOK, TagsStay, FailStep
<1>5. CASE TagIsConcrete(model, build[b].version) /\ Advance(b, r)
  <2>1. /\ r.result = build[b].result /\ r.at = build[b].at /\ r.rev = build[b].rev
        /\ r.version = build[b].version /\ r.looked = build[b].looked
        /\ r.digest = build[b].digest
        /\ r.tag = TagOf(model, b, build[b].rev, build[b].version)
    BY RecordIsOK DEF RecordOK, Fields
  <2>2. RecordOK(b, r) /\ Grows(build[b], r)
    BY RecordIsOK DEF RecordOK, Grows, Fields, Active
  <2> HIDE DEF r
  <2>4. ASSUME NEW d, d.result = "running", d.n = build[b].n,
               \A c : Did(b, d, c)' <=> Did(b, build[b], c) \/ Step(b).do = c,
               d.rev = r.rev, d.version = r.version, d.tag = r.tag,
               d.looked = r.looked, d.digest = r.digest
        PROVE  Knows(b, d, workspace[b])'
    <3>1. VerifiedPart(b, build[b]) => VerifiedPart(b, d)'
      BY <1>1, <2>1, <2>4, VouchedStays DEF VerifiedPart
    <3>2. IntentPart(b, d)' /\ TagPart(b, d)'
      BY <1>3, <1>5, <2>1, <2>4 DEF IntentPart, TagPart
    <3> QED BY <1>1, <1>2, <1>3, <2>1, <2>4, <3>1, <3>2
            DEF Knows, LookPart, DigestPart, ApprovedPart, Names, NamesCommit
  <2> QED BY <1>1, <1>2, <1>3, <1>5, <2>1, <2>2, <2>4, RecordIsOK, GoOnStep
<1> QED BY <1>1, <1>4, <1>5

\* Tags determined by a build are tags of the registry.
LEMMA TagIsThere ==
    ASSUME IInv, NEW b \in Branches, NEW r, r.rev \in Commits,
           TagIsConcrete(model, r.version)
    PROVE  /\ TagOf(model, b, r.rev, r.version) \in TagNames
           /\ NamesCommit => TagOf(model, b, r.rev, r.version) = TagOf(model, b, r.rev, None)
<1>1. model.strategy \in Strategies
  BY ModelsAreModels DEF IInv, TypeInv, SettingsInv, DeliveryModels
<1> QED BY <1>1 DEF TagIsConcrete, TagOf, TagNames, Strategies, NamesCommit

LEMMA InspectIsQuiet ==
    ASSUME IInv, NEW b \in Branches, InspectTag(b)
    PROVE  IInv'
<1> DEFINE r == [build[b] EXCEPT !.looked = tags[build[b].tag]]
<1>1. /\ Running(b) /\ Step(b).do = "inspect"
      /\ UNCHANGED <<settings, workspace, tags, cluster, verified, approvals>>
      /\ \/ tags[build[b].tag] # None /\ Advance(b, r)
         \/ Fail(b, build[b])
  BY DEF InspectTag, At
<1>2. build[b].result = "running" /\ Active(build[b]) /\ Knows(b, build[b], workspace[b])
  BY <1>1 DEF Running, Active, IInv, KnowledgeInv
<1>3. SourceIsTrue' /\ model' = model /\ plan' = plan
  BY <1>1 DEF IInv, SourceIsTrue, settings
<1>4. CASE Fail(b, build[b])
  BY <1>1, <1>2, <1>4, RecordIsOK, TagsStay, FailStep
<1>5. CASE tags[build[b].tag] # None /\ Advance(b, r)
  <2>1. /\ r.result = build[b].result /\ r.at = build[b].at /\ r.rev = build[b].rev
        /\ r.version = build[b].version /\ r.tag = build[b].tag
        /\ r.digest = build[b].digest /\ r.looked = tags[build[b].tag]
    BY RecordIsOK DEF RecordOK, Fields
  <2>2. RecordOK(b, r) /\ Grows(build[b], r)
    BY RecordIsOK DEF RecordOK, Grows, Fields, Active
  <2>3. Did(b, build[b], "intent")
    BY <1>1, <1>2, StepIsThere, PlanOrder DEF Did, Step, IInv
  <2>4. build[b].rev \in Commits
    BY <1>2, RecordIsOK DEF RecordOK
  <2>5. /\ build[b].tag = TagOf(model, b, build[b].rev, build[b].version)
        /\ TagIsConcrete(model, build[b].version)
    BY <1>2, <2>3 DEF Knows, IntentPart
  <2>6. /\ build[b].tag \in TagNames
        /\ NamesCommit => build[b].tag = TagOf(model, b, build[b].rev, None)
    BY <2>4, <2>5, TagIsThere
  <2>7. r.looked \in Images
    BY <1>5, <2>1, <2>6 DEF IInv, TypeInv
  <2>8. NamesCommit => r.looked.rev = r.rev
    BY <1>5, <2>1, <2>4, <2>6 DEF IInv, TagsInv
  <2> HIDE DEF r
  <2>9. ASSUME NEW d, d.result = "running", d.n = build[b].n,
               \A c : Did(b, d, c)' <=> Did(b, build[b], c) \/ Step(b).do = c,
               d.rev = r.rev, d.version = r.version, d.tag = r.tag,
               d.looked = r.looked, d.digest = r.digest
        PROVE  Knows(b, d, workspace[b])'
    <3>1. VerifiedPart(b, build[b]) => VerifiedPart(b, d)'
      BY <1>1, <2>1, <2>9, VouchedStays DEF VerifiedPart
    <3>2. LookPart(b, d)'
      BY <1>3, <2>7, <2>8, <2>9 DEF LookPart, Names, NamesCommit
    <3> QED BY <1>1, <1>2, <1>3, <2>1, <2>9, <3>1, <3>2
            DEF Knows, IntentPart, TagPart, DigestPart, ApprovedPart, Names, NamesCommit
  <2> QED BY <1>1, <1>2, <1>3, <1>5, <2>1, <2>2, <2>9, RecordIsOK, GoOnStep
<1> QED BY <1>1, <1>4, <1>5

LEMMA RecheckIsQuiet ==
    ASSUME IInv, NEW b \in Branches, RecheckTag(b)
    PROVE  IInv'
<1> DEFINE r == [build[b] EXCEPT !.digest = build[b].looked]
<1>0. PICK files : files = [workspace[b] EXCEPT
                               !.artifact = [image |-> build[b].looked, rev |-> build[b].rev]]
  OBVIOUS
<1>1. /\ Running(b) /\ Step(b).do = "recheck"
      /\ UNCHANGED <<settings, tags, cluster, verified, approvals>>
      /\ \/ workspace' = [workspace EXCEPT ![b] = files] /\ Advance(b, r)
         \/ Fail(b, build[b]) /\ UNCHANGED workspace
  BY <1>0 DEF RecheckTag, At
<1>2. build[b].result = "running" /\ Active(build[b]) /\ Knows(b, build[b], workspace[b])
  BY <1>1 DEF Running, Active, IInv, KnowledgeInv
<1>3. SourceIsTrue' /\ model' = model /\ plan' = plan
  BY <1>1 DEF IInv, SourceIsTrue, settings
<1>4. CASE Fail(b, build[b]) /\ UNCHANGED workspace
  BY <1>1, <1>2, <1>4, RecordIsOK, TagsStay, FailStep
<1>5. CASE workspace' = [workspace EXCEPT ![b] = files] /\ Advance(b, r)
  <2>1. /\ r.result = build[b].result /\ r.at = build[b].at /\ r.rev = build[b].rev
        /\ r.version = build[b].version /\ r.tag = build[b].tag
        /\ r.looked = build[b].looked /\ r.digest = build[b].looked
    BY RecordIsOK DEF RecordOK, Fields
  <2>2. RecordOK(b, r) /\ Grows(build[b], r)
    BY RecordIsOK DEF RecordOK, Grows, Fields, Active
  <2>3. Did(b, build[b], "inspect") /\ ~Did(b, build[b], "verify")
    BY <1>1, <1>2, StepIsThere, PlanOrder DEF Did, Step, IInv
  <2>4. Names(build[b], build[b].looked)
    BY <1>2, <2>3 DEF Knows, LookPart
  <2>5. /\ DOMAIN workspace' = Branches /\ workspace'[b] = files
        /\ \A q \in Branches \ {b} : workspace'[q] = workspace[q]
    BY <1>5, RecordIsOK
  <2>6. /\ DOMAIN files = DOMAIN Emptied
        /\ files.artifact = [image |-> build[b].looked, rev |-> build[b].rev]
    BY <1>0, RecordIsOK DEF Emptied
  <2> HIDE DEF r
  <2>9. ASSUME NEW d, d.result = "running", d.n = build[b].n,
               \A c : Did(b, d, c)' <=> Did(b, build[b], c) \/ Step(b).do = c,
               d.rev = r.rev, d.version = r.version, d.tag = r.tag,
               d.looked = r.looked, d.digest = r.digest
        PROVE  Knows(b, d, files)'
    <3>1. VerifiedPart(b, d)'
      BY <1>1, <2>3, <2>9 DEF VerifiedPart
    <3>2. DigestPart(b, d, files)'
      BY <1>3, <2>1, <2>4, <2>5, <2>6, <2>9 DEF DigestPart, Names, NamesCommit
    <3> QED BY <1>1, <1>2, <1>3, <2>1, <2>9, <3>1, <3>2
            DEF Knows, IntentPart, TagPart, LookPart, ApprovedPart, Names, NamesCommit
  <2> QED BY <1>1, <1>2, <1>3, <1>5, <2>1, <2>2, <2>3, <2>5, <2>6, <2>9, RecordIsOK, GoOnStep
<1> QED BY <1>1, <1>4, <1>5

LEMMA VerifyIsQuiet ==
    ASSUME IInv, NEW b \in Branches, VerifyArtifact(b)
    PROVE  IInv'
<1>0. PICK w, v : w = workspace[b] /\ v = [id |-> Id(b), rev |-> build[b].rev, files |-> w]
  OBVIOUS
<1>1. /\ Running(b) /\ Step(b).do = "verify"
      /\ UNCHANGED <<settings, tags, cluster, approvals>>
      /\ \/ /\ Verifies(model, w) /\ verified' = verified \cup {v}
            /\ Advance(b, build[b]) /\ UNCHANGED workspace
         \/ /\ workspace' = [workspace EXCEPT ![b].provenance = None]
            /\ Fail(b, build[b]) /\ UNCHANGED verified
  BY <1>0 DEF VerifyArtifact, At
<1>2. build[b].result = "running" /\ Active(build[b]) /\ Knows(b, build[b], w)
  BY <1>0, <1>1 DEF Running, Active, IInv, KnowledgeInv
<1>3. model' = model /\ plan' = plan
  BY <1>1 DEF settings
<1>4. CASE /\ workspace' = [workspace EXCEPT ![b].provenance = None]
           /\ Fail(b, build[b]) /\ UNCHANGED verified
  <2>1. /\ DOMAIN workspace' = Branches /\ DOMAIN workspace'[b] = DOMAIN Emptied
        /\ \A q \in Branches \ {b} : workspace'[q] = workspace[q]
    BY <1>4, RecordIsOK
  <2> QED BY <1>1, <1>2, <1>4, <2>1, RecordIsOK, TagsStay, FailStep
<1>5. CASE /\ Verifies(model, w) /\ verified' = verified \cup {v}
           /\ Advance(b, build[b]) /\ UNCHANGED workspace
  <2>1. Did(b, build[b], "recheck")
    BY <1>1, <1>2, StepIsThere, PlanOrder DEF Did, Step, IInv
  <2>2. /\ Names(build[b], build[b].digest)
        /\ w.artifact.image = build[b].digest /\ w.artifact.rev = build[b].rev
    BY <1>2, <2>1 DEF Knows, DigestPart
  <2>3. /\ v.id = <<b, build[b].n>> /\ v.rev = build[b].rev
        /\ v.files.artifact.image = build[b].digest
    BY <1>0, <2>2 DEF Id
  <2>4. /\ model.sbom => v.files.sbom.image = build[b].digest
        /\ model.scan # "off" => v.files.scan.image = build[b].digest
        /\ model.provenance => v.files.provenance.image = build[b].digest
        /\ model.scan \in {"legacy", "policy"} => build[b].digest.rev \notin Flawed
    BY <1>0, <1>5, <2>2 DEF Verifies, SbomAgrees, ProvenanceAgrees, ScanRequested, ScanAgrees,
                      TooVulnerable
  <2>5. SourceIsTrue'
    <3> SUFFICES ASSUME NamesCommit, NEW x \in verified'
                 PROVE  x.files.artifact.image.rev = x.rev
      BY <1>3 DEF SourceIsTrue, NamesCommit
    <3>1. CASE x \in verified
      BY <3>1 DEF IInv, SourceIsTrue, NamesCommit
    <3>2. CASE x = v
      BY <2>2, <2>3, <3>2 DEF Names
    <3> QED BY <1>5, <3>1, <3>2
  <2>9. ASSUME NEW d, d.result = "running", d.n = build[b].n,
               \A c : Did(b, d, c)' <=> Did(b, build[b], c) \/ Step(b).do = c,
               d.rev = build[b].rev, d.version = build[b].version, d.tag = build[b].tag,
               d.looked = build[b].looked, d.digest = build[b].digest
        PROVE  Knows(b, d, w)'
    <3>1. VerifiedPart(b, d)'
      <4>1. v \in verified' /\ v.id = <<b, d.n>> /\ v.files.artifact.image = d.digest
        BY <1>5, <2>3, <2>9
      <4>2. Vouched(<<b, d.n>>, d.digest)'
        BY <1>3, <2>4, <2>9, <4>1 DEF Vouched
      <4> QED BY <4>2 DEF VerifiedPart
    <3> QED BY <1>0, <1>1, <1>2, <1>3, <1>5, <2>9, <3>1
            DEF Knows, IntentPart, TagPart, LookPart, DigestPart, ApprovedPart, Names, NamesCommit
  <2> QED BY <1>0, <1>1, <1>2, <1>3, <1>5, <2>5, <2>9, RecordIsOK, GoOnStep
<1> QED BY <1>1, <1>4, <1>5

LEMMA PushIsQuiet ==
    ASSUME IInv, NEW b \in Branches, Push(b)
    PROVE  IInv'
<1>1. /\ Running(b) /\ Step(b).do = "push" /\ Step(b).do \notin Remembered
      /\ workspace' = [workspace EXCEPT ![b].marker = TRUE]
      /\ UNCHANGED <<settings, cluster, verified, approvals>>
  BY DEF Push, At, Remembered
<1>2. build[b].result = "running" /\ Active(build[b]) /\ Knows(b, build[b], workspace[b])
  BY <1>1 DEF Running, Active, IInv, KnowledgeInv
<1>3. /\ DOMAIN workspace' = Branches /\ DOMAIN workspace'[b] = DOMAIN Emptied
      /\ workspace'[b].artifact = workspace[b].artifact
      /\ \A q \in Branches \ {b} : workspace'[q] = workspace[q]
  BY <1>1, RecordIsOK DEF Emptied
<1>4. CASE UNCHANGED tags /\ \E why \in {"marker", "build.sh"} : Refuse(b, why)
  <2>1. PICK why \in {"marker", "build.sh"} : Refuse(b, why)
    BY <1>4
  <2> DEFINE r == [build[b] EXCEPT !.refused = why]
  <2>2. r.result = build[b].result /\ r.at = build[b].at
    BY RecordIsOK DEF RecordOK, Fields
  <2>3. RecordOK(b, r) /\ Grows(build[b], r)
    BY RecordIsOK DEF RecordOK, Grows, Fields, Active
  <2>4. Fail(b, r)
    BY <2>1 DEF Refuse
  <2> HIDE DEF r
  <2> QED BY <1>1, <1>2, <1>3, <1>4, <2>2, <2>3, <2>4, RecordIsOK, TagsStay, FailStep
<1>5. CASE UNCHANGED tags /\ Fail(b, build[b])
  BY <1>1, <1>2, <1>3, <1>5, RecordIsOK, TagsStay, FailStep
<1>6. CASE /\ ~BuildScriptRefuses(b)
           /\ LET image == [rev |-> build[b].rev,
                            of |-> IF Reproducible THEN None ELSE Id(b)]
              IN  tags' = [tags EXCEPT ![build[b].tag] = image]
           /\ Advance(b, build[b]) \/ Fail(b, build[b])
  <2>1. PICK image : /\ image = [rev |-> build[b].rev,
                                 of |-> IF Reproducible THEN None ELSE Id(b)]
                     /\ tags' = [tags EXCEPT ![build[b].tag] = image]
    BY <1>6
  <2>2. build[b].rev \in Commits /\ build[b].n \in 0..MaxBuilds
    BY <1>2, RecordIsOK DEF RecordOK
  <2>3. image \in Images /\ image.rev = build[b].rev
    BY <2>1, <2>2 DEF Images, Id, BuildIds
  <2>4. /\ build[b].tag = TagOf(model, b, build[b].rev, build[b].version)
        /\ TagIsConcrete(model, build[b].version)
    BY <1>2, <1>6 DEF BuildScriptRefuses, Knows, TagPart
  <2>5. tags' \in [TagNames -> Images \cup {None}]
    BY <2>1, <2>3 DEF IInv, TypeInv
  <2>6. TagsInv'
    <3> SUFFICES ASSUME NamesCommit, NEW q \in Branches, NEW c \in Commits,
                        NEW v \in Versions \cup {None}
                 PROVE  tags'[TagOf(model, q, c, v)] # None =>
                            tags'[TagOf(model, q, c, v)].rev = c
      BY <1>1 DEF TagsInv, NamesCommit, settings
    <3>1. TagIsConcrete(model, v)
      BY DEF TagIsConcrete, NamesCommit
    <3>2. TagOf(model, q, c, v) \in TagNames
      BY <3>1, TagIsThere, c = [rev |-> c, version |-> v].rev,
         v = [rev |-> c, version |-> v].version
    <3>3. CASE TagOf(model, q, c, v) = build[b].tag
      <4>1. c = build[b].rev
        <5>1. CASE model.strategy = "git-sha"
          <6>1. <<"sha", c>> = <<"sha", build[b].rev>>
            BY <2>4, <3>3, <5>1 DEF TagOf
          <6> QED BY <6>1
        <5>2. CASE model.strategy = "branch-sha"
          <6>1. <<"branch", Slugs[q], c>> = <<"branch", Slugs[b], build[b].rev>>
            BY <2>4, <3>3, <5>2 DEF TagOf
          <6> QED BY <6>1
        <5> QED BY <5>1, <5>2 DEF NamesCommit
      <4> QED BY <2>1, <2>3, <3>2, <3>3, <4>1 DEF IInv, TypeInv
    <3>4. CASE TagOf(model, q, c, v) # build[b].tag
      <4>1. tags'[TagOf(model, q, c, v)] = tags[TagOf(model, q, c, v)]
        BY <2>1, <3>2, <3>4 DEF IInv, TypeInv
      <4> QED BY <4>1 DEF IInv, TagsInv
    <3> QED BY <3>3, <3>4
  <2> QED BY <1>1, <1>2, <1>3, <1>6, <2>5, <2>6, RecordIsOK, PlainStep
<1> QED BY <1>4, <1>5, <1>6 DEF Push

LEMMA ToolsAreQuiet ==
    ASSUME IInv, NEW b \in Branches, RunTools(b)
    PROVE  IInv'
<1> DEFINE rest == {i \in build[b].at..Len(plan[b]) : plan[b][i].do \notin Tools}
           first == CHOOSE i \in rest : \A j \in rest : i <= j
<1>1. /\ Running(b) /\ Step(b).do \in Tools /\ Step(b).do \notin Remembered
      /\ UNCHANGED <<settings, workspace, tags, cluster, verified, approvals>>
      /\ \/ rest # {} /\ build' = [build EXCEPT ![b].at = first]
         \/ rest = {} /\ build' = [build EXCEPT ![b] = Ended(@, "success")]
         \/ Fail(b, build[b])
  BY DEF RunTools, At, Remembered, Tools
<1>2. build[b].result = "running" /\ Active(build[b])
  BY <1>1 DEF Running, Active
<1>3. CASE rest # {} /\ build' = [build EXCEPT ![b].at = first]
  <2>1. PICK d : /\ d = [build[b] EXCEPT !.at = first]
                 /\ build' = [build EXCEPT ![b] = d]
    BY <1>3
  <2>2. /\ plan[b] \in Seq(Commands) /\ build[b].at \in DOMAIN plan[b]
        /\ build[b].at \in Nat \ {0}
    BY <1>2, StepIsThere
  <2>3. rest \in SUBSET Nat
    BY <2>2
  <2>4. first \in rest /\ \A j \in rest : first <= j
    <3> HIDE DEF rest
    <3> QED BY <1>3, <2>3, Smallest
  <2>5. /\ first \in DOMAIN plan[b] /\ build[b].at <= first /\ first \in Nat
        /\ \A j \in build[b].at..first - 1 : plan[b][j].do \in Tools
    <3>1. first \in build[b].at..Len(plan[b]) /\ first \in DOMAIN plan[b] /\ first \in Nat
      <4> HIDE DEF first
      <4> QED BY <2>2, <2>4
    <3>2. ASSUME NEW j \in build[b].at..first - 1 PROVE plan[b][j].do \in Tools
      <4> HIDE DEF first
      <4>1. j \in build[b].at..Len(plan[b]) /\ ~(first <= j)
        BY <2>2, <3>1
      <4>2. j \notin rest
        <5> HIDE DEF rest
        <5> QED BY <2>4, <4>1
      <4> QED BY <4>1, <4>2
    <3> HIDE DEF first, rest
    <3> QED BY <2>2, <3>1, <3>2
  <2> HIDE DEF rest, first
  <2>6. /\ d.result = "running" /\ d.at = first /\ d.n = build[b].n
        /\ d.rev = build[b].rev /\ d.version = build[b].version /\ d.tag = build[b].tag
        /\ d.looked = build[b].looked /\ d.digest = build[b].digest
    BY <1>2, <2>1, RecordIsOK DEF RecordOK, Fields
  <2>7. RecordOK(b, d) /\ Grows(build[b], d)
    BY <1>2, <2>1, <2>5, RecordIsOK DEF RecordOK, Grows, Fields, Active
  <2>8. \A c \in Remembered : Did(b, d, c) <=> Did(b, build[b], c)
    <3> SUFFICES ASSUME NEW c \in Remembered PROVE Did(b, d, c) <=> Did(b, build[b], c)
      OBVIOUS
    <3>1. /\ Did(b, d, c) <=> \E j \in 1..first - 1 : plan[b][j].do = c
          /\ Did(b, build[b], c) <=> \E j \in 1..build[b].at - 1 : plan[b][j].do = c
      BY <2>6 DEF Did
    <3>2. \A j \in 1..build[b].at - 1 : j \in 1..first - 1
      BY <2>2, <2>5
    <3>3. \A j \in 1..first - 1 : j \in 1..build[b].at - 1 \/ j \in build[b].at..first - 1
      BY <2>2, <2>5
    <3>4. \A j \in build[b].at..first - 1 : plan[b][j].do # c
      BY <2>5 DEF Remembered, Tools
    <3> QED BY <3>1, <3>2, <3>3, <3>4
  <2>9. Knows(b, d, workspace[b])'
    BY <1>1, <2>6, <2>8, KnowsStays
  <2>10. SourceIsTrue'
    BY <1>1 DEF IInv, SourceIsTrue, settings
  <2>11. "verify" \in Remembered
    BY DEF Remembered
  <2> QED BY <1>1, <1>2, <2>1, <2>6, <2>7, <2>8, <2>9, <2>10, <2>11, RecordIsOK, TagsStay, QuietStep
<1>4. CASE rest = {} /\ build' = [build EXCEPT ![b] = Ended(@, "success")]
  <2> DEFINE d == Ended(build[b], "success")
  <2>1. RecordOK(b, d) /\ d.result = "success" /\ Kept(build[b], d)
    BY RecordIsOK, EndedIsOK
  <2>2. Grows(build[b], d) /\ ~Active(d) /\ build' = [build EXCEPT ![b] = d]
    BY <1>4, <2>1 DEF Grows, Kept, Active
  <2> HIDE DEF d
  <2> QED BY <1>1, <2>1, <2>2, RecordIsOK, TagsStay, StopStep
<1>5. CASE Fail(b, build[b])
  BY <1>1, <1>2, <1>5, RecordIsOK, TagsStay, FailStep
<1> QED BY <1>1, <1>3, <1>4, <1>5

LEMMA StartIsQuiet ==
    ASSUME IInv, NEW b \in Branches, StartBuild(b)
    PROVE  IInv'
<1>1. PICK c \in Commits, v \in Versions \cup {None} :
         build' = [build EXCEPT ![b] = [NoBuild EXCEPT !.n = build[b].n + 1,
                      !.result = "running", !.rev = c, !.version = v]]
  BY DEF StartBuild
<1>2. PICK d : /\ d = [NoBuild EXCEPT !.n = build[b].n + 1, !.result = "running",
                                      !.rev = c, !.version = v]
               /\ build' = [build EXCEPT ![b] = d]
  BY <1>1
<1>3. UNCHANGED <<settings, workspace, tags, cluster, verified, approvals>>
  BY DEF StartBuild
<1>4. build[b].n + 1 \in 0..MaxBuilds
  <2>1. build[b].n < MaxBuilds
    BY DEF StartBuild
  <2>2. build[b].n \in 0..MaxBuilds
    BY RecordIsOK DEF RecordOK
  <2> QED BY <2>1, <2>2, BuildsAreBounded
<1>5. 1 \in DOMAIN plan[b]
  <2>1. plan[b] \in Seq(Commands) /\ plan[b] # <<>>
    BY DEF IInv, TypeInv, SettingsInv, PlansAreSafe
  <2> QED BY <2>1
<1>6. /\ d.at = 1 /\ d.rev = c /\ d.tag = None /\ d.started = {} /\ d.touched = {}
      /\ d.revised = {} /\ d.undone = {} /\ d.result = "running"
      /\ d.n = build[b].n + 1 /\ DOMAIN d = Fields /\ DOMAIN d.prior = Environments
  BY <1>2 DEF NoBuild, Fields
<1>7. RecordOK(b, d)
  BY <1>4, <1>5, <1>6 DEF RecordOK, Results, Active
<1>8. \A x : ~Did(b, d, x)'
  BY <1>6 DEF Did
<1>9. Knows(b, d, workspace[b])'
  BY <1>6, <1>8
     DEF Knows, IntentPart, TagPart, LookPart, DigestPart, VerifiedPart, ApprovedPart
<1>10. SourceIsTrue'
  BY <1>3 DEF IInv, SourceIsTrue, settings
<1> QED BY <1>2, <1>3, <1>6, <1>7, <1>9, <1>10, RecordIsOK, TagsStay, QuietStep

LEMMA Initially ==
    ASSUME Init
    PROVE  IInv
<1>1. GoodCommit \in Commits \ Flawed
  BY SomeCommitIsGood DEF GoodCommit
<1>2. \A b \in Branches : OldImage(b) \in Images /\ OldImage(b).rev = GoodCommit
                          /\ <<b, 0>> \in BuildIds
  <2>1. \A b \in Branches : <<b, 0>> \in BuildIds
    BY BuildsAreBounded DEF BuildIds
  <2> QED BY <1>1, <2>1 DEF OldImage, Images
<1>3. \A e \in Environments : \A i \in DOMAIN cluster[e] :
         \E b \in DeploysTo(e) : cluster[e][i] = [image |-> OldImage(b), by |-> <<b, 0>>]
  BY DEF Init, OldRevisions
<1>4. TypeInv
  <2>1. SettingsInv
    <3>1. model \in DeliveryModels
      BY ModelsAreModels DEF Init
    <3>2. PlansAreSafe
      <4> SUFFICES ASSUME NEW b \in Branches
                   PROVE  /\ plan[b] \in Seq(Commands) /\ plan[b] # <<>>
                          /\ plan[b][1].do = "checkout" /\ SafeFor(model, b, plan[b])
        BY DEF PlansAreSafe
      <4>1. plan[b] = Plan(Render(model), b)
        BY DEF Init
      <4>2. /\ plan[b] \in Seq(Commands) /\ plan[b] # <<>>
            /\ plan[b][1] = Plain("checkout") /\ SafeFor(model, b, plan[b])
        BY <3>1, <4>1, RenderedIsSafe, Zenon
      <4>3. Plain("checkout").do = "checkout"
        BY DEF Plain
      <4> QED BY <4>2, <4>3, Zenon
    <3> QED BY <3>2 DEF Init, SettingsInv, Accepted
  <2>2. \A b \in Branches : RecordOK(b, build[b])
    <3> SUFFICES ASSUME NEW b \in Branches PROVE RecordOK(b, NoBuild)
      BY DEF Init
    <3> QED BY BuildsAreBounded DEF RecordOK, NoBuild, Fields, Results, Active
  <2>3. \A b \in Branches : DOMAIN workspace[b] = DOMAIN Emptied
    BY DEF Init, OldFiles, Emptied
  <2>4. tags \in [TagNames -> Images \cup {None}]
    BY DEF Init
  <2>5. cluster \in [Environments -> Seq(Revisions)]
    <3>1. \A e \in Environments : OldRevisions(e) \subseteq Seq(Revisions)
      <4> SUFFICES ASSUME NEW e \in Environments, NEW s \in OldRevisions(e)
                   PROVE  s \in Seq(Revisions)
        OBVIOUS
      <4>1. CASE s = <<>>
        BY <4>1
      <4>2. CASE \E b \in DeploysTo(e) : s = <<[image |-> OldImage(b), by |-> <<b, 0>>]>>
        <5>1. PICK b \in DeploysTo(e) : s = <<[image |-> OldImage(b), by |-> <<b, 0>>]>>
          BY <4>2
        <5>2. PICK r : r = [image |-> OldImage(b), by |-> <<b, 0>>] /\ s = <<r>>
          BY <5>1
        <5>3. r \in Revisions
          BY <1>2, <5>2 DEF Revisions, DeploysTo
        <5> QED BY <5>2, <5>3
      <4> QED BY <4>1, <4>2 DEF OldRevisions
    <3> QED BY <3>1 DEF Init
  <2> QED BY <2>1, <2>2, <2>3, <2>4, <2>5 DEF TypeInv, Init
<1>5. KnowledgeInv
  BY DEF Init, KnowledgeInv, Knows, NoBuild
<1>6. TagsInv
  <2>1. NamesCommit => \A b \in Branches, c \in Commits, v \in Versions \cup {None} :
                          TagOf(model, b, c, v) \in TagNames
    BY DEF NamesCommit, TagOf, TagNames
  <2> QED BY <2>1 DEF TagsInv, Init
<1>7. RevisedInv /\ RollbackRestores
  BY DEF Init, RevisedInv, RollbackRestores, NoBuild
<1>8. DeployedIsVerified
  <2> SUFFICES ASSUME NEW e \in Environments, NEW i \in DOMAIN cluster[e]
               PROVE  LET r == cluster[e][i]
                      IN  /\ \E v \in verified :
                                /\ v.id = r.by
                                /\ v.files.artifact.image = r.image
                                /\ model.sbom => v.files.sbom.image = r.image
                                /\ model.scan # "off" => v.files.scan.image = r.image
                                /\ model.provenance => v.files.provenance.image = r.image
                          /\ model.scan \in {"legacy", "policy"} => r.image.rev \notin Flawed
    BY DEF DeployedIsVerified
  <2>1. PICK b \in DeploysTo(e) : cluster[e][i] = [image |-> OldImage(b), by |-> <<b, 0>>]
    BY <1>3
  <2>2. b \in Branches
    BY DEF DeploysTo
  <2>3. PICK v : v = [id |-> <<b, 0>>, rev |-> GoodCommit, files |-> OldFiles(b)]
    OBVIOUS
  <2>4. v \in verified
    BY <2>2, <2>3 DEF Init
  <2>5. /\ v.id = <<b, 0>> /\ v.files.artifact.image = OldImage(b)
        /\ v.files.sbom.image = OldImage(b) /\ v.files.scan.image = OldImage(b)
        /\ v.files.provenance.image = OldImage(b)
    BY <2>3 DEF OldFiles
  <2> QED BY <1>1, <1>2, <2>1, <2>2, <2>4, <2>5
<1>9. SourceIsTrue
  BY <1>2 DEF Init, SourceIsTrue, OldFiles
<1>10. ProductionIsApproved
  <2>1. "production" \in Environments
    BY DEF Environments
  <2> QED BY <1>3, <2>1 DEF ProductionIsApproved, Init, DeploysTo
<1> QED BY <1>4, <1>5, <1>6, <1>7, <1>8, <1>9, <1>10 DEF IInv

-----------------------------------------------------------------------------
(* Steps that give a Deployment another revision.                          *)

LEMMA Without ==
    ASSUME NEW S, NEW s \in Seq(S), NEW k \in 1..Len(s)
    PROVE  /\ RemoveAt(s, k) \in Seq(S) /\ Len(RemoveAt(s, k)) = Len(s) - 1
           /\ \A i \in 1..k - 1 : RemoveAt(s, k)[i] = s[i]
           /\ \A i \in k..Len(s) - 1 : RemoveAt(s, k)[i] = s[i + 1]
<1>1. Len(s) \in Nat /\ DOMAIN s = 1..Len(s) /\ k \in Int /\ 1 <= k /\ k <= Len(s)
  BY LenProperties
<1>2. PICK t : t = SubSeq(s, 1, k - 1)
  OBVIOUS
<1>3. PICK u : u = SubSeq(s, k + 1, Len(s))
  OBVIOUS
<1>4. t \in Seq(S) /\ Len(t) = k - 1 /\ \A i \in 1..k - 1 : t[i] = s[i]
  <2>1. \A i \in 1..k - 1 : s[i] \in S
    BY <1>1, ElementOfSeq
  <2>2. /\ t \in Seq(S) /\ Len(t) = IF 1 <= k - 1 THEN (k - 1) - 1 + 1 ELSE 0
        /\ \A i \in 1..(k - 1) - 1 + 1 : t[i] = s[1 + i - 1]
    BY <1>1, <1>2, <2>1, SubSeqProperties, 1 \in Int, k - 1 \in Int
  <2> QED BY <1>1, <2>2
<1>5. u \in Seq(S) /\ Len(u) = Len(s) - k /\ \A i \in 1..Len(s) - k : u[i] = s[k + i]
  <2>1. \A i \in k + 1..Len(s) : s[i] \in S
    BY <1>1, ElementOfSeq
  <2>2. /\ u \in Seq(S)
        /\ Len(u) = IF k + 1 <= Len(s) THEN Len(s) - (k + 1) + 1 ELSE 0
        /\ \A i \in 1..Len(s) - (k + 1) + 1 : u[i] = s[(k + 1) + i - 1]
    BY <1>1, <1>3, <2>1, SubSeqProperties, k + 1 \in Int, Len(s) \in Int
  <2>3. PICK n \in Nat : n = Len(s)
    BY <1>1
  <2>4. k \in Int /\ 1 <= k /\ k <= n
    BY <1>1, <2>3
  <2>5. (IF k + 1 <= n THEN n - (k + 1) + 1 ELSE 0) = n - k /\ n - (k + 1) + 1 = n - k
    BY <2>4
  <2>6. \A i \in 1..n - k : (k + 1) + i - 1 = k + i
    BY <2>4
  <2> QED BY <2>2, <2>3, <2>5, <2>6
<1>6. /\ t \o u \in Seq(S) /\ Len(t \o u) = Len(s) - 1
      /\ \A i \in 1..Len(s) - 1 : (t \o u)[i] = IF i <= k - 1 THEN t[i] ELSE u[i - (k - 1)]
  <2>1. /\ t \o u \in Seq(S) /\ Len(t \o u) = Len(t) + Len(u)
        /\ \A i \in 1..Len(t) + Len(u) :
              (t \o u)[i] = IF i <= Len(t) THEN t[i] ELSE u[i - Len(t)]
    BY <1>4, <1>5, ConcatProperties
  <2>2. Len(t) + Len(u) = Len(s) - 1
    BY <1>1, <1>4, <1>5
  <2> QED BY <1>4, <2>1, <2>2
<1>7. RemoveAt(s, k) = t \o u
  BY <1>2, <1>3 DEF RemoveAt
<1>8. \A i \in 1..k - 1 : (t \o u)[i] = s[i]
  BY <1>1, <1>4, <1>6
<1>9. ASSUME NEW i \in k..Len(s) - 1 PROVE (t \o u)[i] = s[i + 1]
  <2>1. i - (k - 1) \in 1..Len(s) - k /\ k + (i - (k - 1)) = i + 1
    BY <1>1
  <2>2. (t \o u)[i] = u[i - (k - 1)]
    BY <1>1, <1>6
  <2> QED BY <1>5, <2>1, <2>2
<1> QED BY <1>6, <1>7, <1>8, <1>9

\* An element appended to another than the last.
LEMMA Moved ==
    ASSUME NEW S, NEW s \in Seq(S), NEW k \in 1..Len(s), k # Len(s), NEW x \in S
    PROVE  LET t == Append(RemoveAt(s, k), x)
           IN  /\ t \in Seq(S) /\ Len(t) = Len(s) /\ t[Len(t)] = x
               /\ \A i \in 1..Len(t) - 1 : \E j \in DOMAIN s : t[i] = s[j]
               /\ t[Len(t) - 1] = s[Len(s)]
<1>1. PICK n \in Nat : n = Len(s)
  BY LenProperties
<1>2. DOMAIN s = 1..n /\ k \in Int /\ 1 <= k /\ k < n
  BY <1>1, LenProperties
<1>3. PICK o : o = RemoveAt(s, k)
  OBVIOUS
<1>4. /\ o \in Seq(S) /\ Len(o) = n - 1
      /\ \A i \in 1..k - 1 : o[i] = s[i]
      /\ \A i \in k..n - 1 : o[i] = s[i + 1]
  BY <1>1, <1>3, Without
<1>5. PICK t : t = Append(o, x)
  OBVIOUS
<1>6. /\ t \in Seq(S) /\ Len(t) = Len(o) + 1
      /\ \A i \in 1..Len(o) : t[i] = o[i]
      /\ t[Len(o) + 1] = x
  BY <1>4, <1>5, AppendProperties
<1>7. (n - 1) + 1 = n /\ n - 1 \in k..n - 1 /\ n - 1 \in 1..n - 1
  BY <1>2
<1>8. Len(t) = n /\ t[n] = x /\ \A i \in 1..n - 1 : t[i] = o[i]
  BY <1>4, <1>6, <1>7
<1>9. ASSUME NEW i \in 1..n - 1 PROVE \E j \in DOMAIN s : t[i] = s[j]
  <2>1. CASE i < k
    <3>1. i \in 1..k - 1 /\ i \in 1..n
      BY <1>2, <2>1
    <3> QED BY <1>2, <1>4, <1>8, <3>1
  <2>2. CASE ~(i < k)
    <3>1. i \in k..n - 1 /\ i + 1 \in 1..n
      BY <1>2, <2>2
    <3> QED BY <1>2, <1>4, <1>8, <3>1
  <2> QED BY <2>1, <2>2
<1>10. t[n - 1] = s[n]
  BY <1>4, <1>7, <1>8
<1> QED BY <1>1, <1>3, <1>5, <1>6, <1>8, <1>9, <1>10

\* What kubectl apply makes of the revisions of a Deployment.
LEMMA AppliedIs ==
    ASSUME NEW s \in Seq(Revisions), NEW image \in Images, NEW id \in BuildIds,
           s # <<>> => s[Len(s)].image # image
    PROVE  LET t == Applied(s, image, id)
           IN  /\ t \in Seq(Revisions) /\ Len(t) \in Nat /\ Len(t) > 0
               /\ t[Len(t)] = [image |-> image, by |-> id]
               /\ \A i \in 1..Len(t) - 1 : \E j \in DOMAIN s : t[i] = s[j]
               /\ Len(t) > 1 => s # <<>> /\ t[Len(t) - 1] = s[Len(s)]
<1>1. PICK new : new = [image |-> image, by |-> id]
  OBVIOUS
<1>2. new \in Revisions
  BY <1>1 DEF Revisions
<1>3. Len(s) \in Nat /\ DOMAIN s = 1..Len(s) /\ (Len(s) > 0 => s # <<>>)
  BY LenProperties
<1>4. PICK equal : equal = {i \in DOMAIN s : s[i].image = image}
  OBVIOUS
<1>5. CASE equal = {}
  <2>1. Applied(s, image, id) = Append(s, new)
    BY <1>1, <1>4, <1>5 DEF Applied
  <2>2. PICK t : t = Append(s, new)
    OBVIOUS
  <2>3. /\ t \in Seq(Revisions) /\ Len(t) = Len(s) + 1
        /\ \A i \in 1..Len(s) : t[i] = s[i]
        /\ t[Len(s) + 1] = new
    BY <1>2, <2>2, AppendProperties
  <2>4. /\ Len(t) \in Nat /\ Len(t) > 0 /\ Len(t) - 1 = Len(s)
        /\ Len(t) > 1 => Len(s) > 0 /\ Len(s) \in 1..Len(s)
    BY <1>3, <2>3
  <2> QED BY <1>1, <1>3, <2>1, <2>2, <2>3, <2>4
<1>6. CASE equal # {}
  <2>1. PICK k : k = CHOOSE i \in equal : TRUE
    OBVIOUS
  <2>2. k \in equal
    BY <1>6, <2>1
  <2>3. k \in 1..Len(s) /\ k # Len(s)
    BY <1>3, <1>4, <2>2
  <2>4. Applied(s, image, id) = Append(RemoveAt(s, k), new)
    BY <1>1, <1>4, <1>6, <2>1 DEF Applied
  <2>5. PICK t : t = Append(RemoveAt(s, k), new)
    OBVIOUS
  <2>6. /\ t \in Seq(Revisions) /\ Len(t) = Len(s) /\ t[Len(t)] = new
        /\ \A i \in 1..Len(t) - 1 : \E j \in DOMAIN s : t[i] = s[j]
        /\ t[Len(t) - 1] = s[Len(s)]
    <3>1. LET y == Append(RemoveAt(s, k), new)
          IN  /\ y \in Seq(Revisions) /\ Len(y) = Len(s) /\ y[Len(y)] = new
              /\ \A i \in 1..Len(y) - 1 : \E j \in DOMAIN s : y[i] = s[j]
              /\ y[Len(y) - 1] = s[Len(s)]
      BY <1>2, <2>3, Moved
    <3> QED BY <2>5, <3>1
  <2>7. Len(s) > 0 /\ s # <<>>
    <3>1. PICK n \in Nat : n = Len(s)
      BY <1>3
    <3>2. n > 0
      BY <2>3, <3>1
    <3> QED BY <1>3, <3>1, <3>2
  <2> QED BY <1>1, <1>3, <2>4, <2>5, <2>6, <2>7
<1> QED BY <1>5, <1>6

\* A Deployment whose revisions are old ones or were accepted and approved.
LEMMA DeploymentsStayGood ==
    ASSUME IInv, NEW e \in Environments, NEW s \in Seq(Revisions),
           UNCHANGED <<settings, verified, approvals>>,
           cluster' = [cluster EXCEPT ![e] = s],
           \A i \in DOMAIN s :
              \/ \E j \in DOMAIN cluster[e] : s[i] = cluster[e][j]
              \/ /\ Vouched(s[i].by, s[i].image)
                 /\ e = "production" =>
                       /\ s[i].by[1] \in DeploysTo("production")
                       /\ model.requireApproval => s[i].by \in approvals
    PROVE  /\ DeployedIsVerified' /\ ProductionIsApproved'
           /\ cluster' \in [Environments -> Seq(Revisions)]
           /\ cluster'[e] = s /\ \A x \in Environments \ {e} : cluster'[x] = cluster[x]
<1>1. /\ cluster' \in [Environments -> Seq(Revisions)]
      /\ cluster'[e] = s /\ \A x \in Environments \ {e} : cluster'[x] = cluster[x]
  BY DEF IInv, TypeInv
<1>2. model' = model /\ plan' = plan
  BY DEF settings
<1>3. \A x \in Environments : \A i \in DOMAIN cluster[x] :
         Vouched(cluster[x][i].by, cluster[x][i].image)
  BY DEF IInv, DeployedIsVerified, Vouched
<1>4. \A x \in Environments : \A i \in DOMAIN cluster'[x] :
         Vouched(cluster'[x][i].by, cluster'[x][i].image)
  BY <1>1, <1>3
<1>5. DeployedIsVerified'
  BY <1>2, <1>4 DEF DeployedIsVerified, Vouched
<1>6. ProductionIsApproved'
  <2>1. CASE e = "production"
    BY <1>1, <1>2, <2>1 DEF IInv, ProductionIsApproved, DeploysTo
  <2>2. CASE e # "production"
    BY <1>1, <1>2, <2>2 DEF IInv, ProductionIsApproved, DeploysTo, Environments
  <2> QED BY <2>1, <2>2
<1> QED BY <1>1, <1>5, <1>6

\* What the other builds know stays true.
LEMMA OthersKnow ==
    ASSUME IInv, NEW q \in Branches, build'[q] = build[q], workspace'[q] = workspace[q],
           UNCHANGED settings, verified \subseteq verified', approvals \subseteq approvals'
    PROVE  Knows(q, build[q], workspace[q])'
<1>1. Knows(q, build[q], workspace[q])
  BY DEF IInv, KnowledgeInv
<1>2. VerifiedPart(q, build[q]) => VerifiedPart(q, build[q])'
  BY VouchedStays DEF VerifiedPart, Did, settings
<1> QED BY <1>1, <1>2
        DEF Knows, IntentPart, TagPart, LookPart, DigestPart, ApprovedPart, Did, Names,
            NamesCommit, settings

\* What an apply knows: its environment is one the branch deploys to, and what it
\* applies was accepted and, where needed, approved.
LEMMA ApplyIsGrounded ==
    ASSUME IInv, NEW b \in Branches, At(b, "apply")
    PROVE  /\ build[b].result = "running" /\ Active(build[b])
           /\ Step(b).env \in Environments /\ b \in DeploysTo(Step(b).env)
           /\ Did(b, build[b], "verify") /\ Did(b, build[b], "recheck")
           /\ build[b].digest \in Images /\ Id(b) \in BuildIds
           /\ Vouched(Id(b), build[b].digest)
           /\ Step(b).env = "production" /\ model.requireApproval => Id(b) \in approvals
<1>1. /\ build[b].result = "running" /\ Active(build[b]) /\ Step(b).do = "apply"
      /\ Knows(b, build[b], workspace[b])
  BY DEF At, Running, Active, IInv, KnowledgeInv
<1>2. /\ Step(b).env \in Environments /\ b \in DeploysTo(Step(b).env)
      /\ Did(b, build[b], "verify")
      /\ Step(b).env = "production" /\ model.approval => Did(b, build[b], "approve")
  BY <1>1, StepIsThere, PlanOrder DEF Did, Step, IInv
<1>3. Did(b, build[b], "recheck")
  <2>1. PICK j \in 1..build[b].at - 1 : plan[b][j].do = "verify"
    BY <1>2 DEF Did
  <2>2. j \in DOMAIN plan[b] /\ j < build[b].at /\ j \in Nat /\ build[b].at \in Nat
    BY <1>1, StepIsThere
  <2>3. \E i \in 1..j - 1 : plan[b][i].do = "recheck"
    BY <2>1, <2>2, PlanOrder DEF IInv
  <2>4. \A i \in 1..j - 1 : i \in 1..build[b].at - 1
    BY <2>2
  <2> QED BY <2>3, <2>4 DEF Did
<1>4. build[b].digest \in Images /\ Vouched(<<b, build[b].n>>, build[b].digest)
  BY <1>1, <1>2, <1>3 DEF Knows, DigestPart, Names, VerifiedPart
<1>5. Id(b) \in BuildIds
  BY RecordIsOK DEF RecordOK, Id, BuildIds
<1>6. model.requireApproval => model.approval
  BY DEF IInv, TypeInv, SettingsInv, SemanticFailures, Flag
<1>7. Step(b).env = "production" /\ model.requireApproval => <<b, build[b].n>> \in approvals
  BY <1>1, <1>2, <1>6 DEF Knows, ApprovedPart
<1> QED BY <1>1, <1>2, <1>3, <1>4, <1>5, <1>7 DEF Id

\* What the report of an apply leaves of the build.
LEMMA ReportsOn ==
    ASSUME IInv, NEW b \in Branches, At(b, "apply"), NEW r, RecordOK(b, r),
           r.result = "running", r.at = build[b].at, r.rev = build[b].rev,
           r.version = build[b].version, r.tag = build[b].tag,
           r.looked = build[b].looked, r.digest = build[b].digest,
           NEW started \in BOOLEAN, started => Step(b).env \in r.touched,
           Reports(b, r, started)
    PROVE  \E d : /\ build' = [build EXCEPT ![b] = d]
                  /\ RecordOK(b, d) /\ Kept(r, d)
                  /\ d.result = "running" =>
                        /\ d.rev = build[b].rev /\ d.version = build[b].version
                        /\ d.tag = build[b].tag /\ d.looked = build[b].looked
                        /\ d.digest = build[b].digest
                        /\ \A c : Did(b, d, c) <=> Did(b, build[b], c) \/ c = "apply"
<1>1. PICK noted : noted = [r EXCEPT !.started =
                                IF started THEN @ \cup {Step(b).env} ELSE @]
  OBVIOUS
<1>2. /\ noted.result = r.result /\ noted.at = r.at /\ noted.rev = r.rev
      /\ noted.version = r.version /\ noted.tag = r.tag /\ noted.looked = r.looked
      /\ noted.digest = r.digest /\ Kept(r, noted)
  BY <1>1 DEF RecordOK, Fields, Kept
<1>3. RecordOK(b, noted)
  <2>1. noted.started = IF started THEN r.started \cup {Step(b).env} ELSE r.started
    BY <1>1 DEF RecordOK, Fields
  <2>2. Step(b).env \in Environments /\ b \in DeploysTo(Step(b).env)
    BY ApplyIsGrounded
  <2>3. DOMAIN noted = Fields
    BY <1>1 DEF RecordOK
  <2> QED BY <1>2, <2>1, <2>2, <2>3 DEF RecordOK, Kept, Active
<1>4. Advance(b, noted) \/ Fail(b, noted) \/ build' = [build EXCEPT ![b] = Ended(r, "aborted")]
  BY <1>1 DEF Reports
<1>5. CASE Advance(b, noted)
  <2>1. PICK d : /\ build' = [build EXCEPT ![b] = d]
                 /\ RecordOK(b, d) /\ Kept(noted, d)
                 /\ \/ ~Active(d)
                    \/ /\ d.result = "running" /\ d.at = noted.at + 1
                       /\ d.rev = noted.rev /\ d.version = noted.version /\ d.tag = noted.tag
                       /\ d.looked = noted.looked /\ d.digest = noted.digest
    BY <1>2, <1>3, <1>5, AdvanceGoesOn DEF IInv
  <2>2. Kept(r, d)
    BY <1>2, <2>1 DEF Kept
  <2>3. ASSUME d.result = "running"
        PROVE  /\ d.rev = build[b].rev /\ d.version = build[b].version
               /\ d.tag = build[b].tag /\ d.looked = build[b].looked
               /\ d.digest = build[b].digest
               /\ \A c : Did(b, d, c) <=> Did(b, build[b], c) \/ c = "apply"
    <3>1. /\ d.at = noted.at + 1
          /\ d.rev = noted.rev /\ d.version = noted.version /\ d.tag = noted.tag
          /\ d.looked = noted.looked /\ d.digest = noted.digest
      BY <2>1, <2>3 DEF Active
    <3>2. build[b].at \in Nat \ {0} /\ d.at = build[b].at + 1 /\ plan[b][build[b].at].do = "apply"
      BY <1>2, <3>1, StepIsThere, ApplyIsGrounded DEF At, Step
    <3>3. \A c : Did(b, d, c) <=> Did(b, build[b], c) \/ c = "apply"
      BY <3>2, DidGrows
    <3> QED BY <1>2, <3>1, <3>3
  <2> QED BY <2>1, <2>2, <2>3
<1>6. CASE Fail(b, noted)
  <2>1. PICK d : /\ build' = [build EXCEPT ![b] = d]
                 /\ RecordOK(b, d) /\ d.result # "running" /\ Kept(noted, d)
    BY <1>2, <1>3, <1>6, FailEnds DEF IInv
  <2>2. Kept(r, d)
    BY <1>2, <2>1 DEF Kept
  <2> QED BY <2>1, <2>2
<1>7. CASE build' = [build EXCEPT ![b] = Ended(r, "aborted")]
  BY <1>7, EndedIsOK
<1> QED BY <1>4, <1>5, <1>6, <1>7

\* The build at an apply that has recorded it still knows what it knew.
LEMMA ApplyKnows ==
    ASSUME IInv, NEW b \in Branches, At(b, "apply"), NEW d, d.n = build[b].n,
           d.result = "running" =>
              /\ d.rev = build[b].rev /\ d.version = build[b].version
              /\ d.tag = build[b].tag /\ d.looked = build[b].looked
              /\ d.digest = build[b].digest
              /\ \A c : Did(b, d, c) <=> Did(b, build[b], c) \/ c = "apply",
           UNCHANGED <<settings, workspace, verified, approvals>>
    PROVE  Knows(b, d, workspace[b])'
<1>1. CASE d.result = "running"
  BY <1>1, KnowsStays DEF At, Remembered
<1>2. CASE d.result # "running"
  BY <1>2 DEF Knows
<1> QED BY <1>1, <1>2

LEMMA ApplySameIsQuiet ==
    ASSUME IInv, NEW b \in Branches, ApplySame(b)
    PROVE  IInv'
<1>1. At(b, "apply") /\ UNCHANGED <<settings, workspace, tags, cluster, verified, approvals>>
  BY DEF ApplySame
<1>2. PICK r, started :
         /\ started \in BOOLEAN
         /\ \/ started /\ r = [build[b] EXCEPT !.touched = @ \cup {Step(b).env}]
            \/ ~started /\ r = build[b]
         /\ Reports(b, r, started)
  <2>1. CASE Reports(b, [build[b] EXCEPT !.touched = @ \cup {Step(b).env}], TRUE)
    BY <2>1
  <2>2. CASE Reports(b, build[b], FALSE)
    BY <2>2
  <2>3. \/ Reports(b, [build[b] EXCEPT !.touched = @ \cup {Step(b).env}], TRUE)
        \/ Reports(b, build[b], FALSE)
    BY DEF ApplySame
  <2> QED BY <2>1, <2>2, <2>3
<1>3. /\ build[b].result = "running" /\ Active(build[b]) /\ Step(b).env \in Environments
      /\ Did(b, build[b], "verify")
  BY <1>1, ApplyIsGrounded
<1>4. /\ r.result = build[b].result /\ r.at = build[b].at /\ r.rev = build[b].rev
      /\ r.version = build[b].version /\ r.tag = build[b].tag
      /\ r.looked = build[b].looked /\ r.digest = build[b].digest
      /\ started => Step(b).env \in r.touched
  BY <1>2, RecordIsOK DEF RecordOK, Fields
<1>5. RecordOK(b, r) /\ Grows(build[b], r)
  <2>1. CASE r = build[b]
    BY <2>1, RecordIsOK
  <2>2. CASE r = [build[b] EXCEPT !.touched = @ \cup {Step(b).env}]
    <3>1. /\ DOMAIN r = Fields /\ r.touched = build[b].touched \cup {Step(b).env}
          /\ r.n = build[b].n /\ r.started = build[b].started /\ r.revised = build[b].revised
          /\ r.prior = build[b].prior /\ r.undone = build[b].undone
      BY <2>2, RecordIsOK DEF RecordOK, Fields
    <3> QED BY <1>3, <1>4, <3>1, RecordIsOK DEF RecordOK, Grows, Active
  <2> QED BY <1>2, <2>1, <2>2
<1>6. PICK d : /\ build' = [build EXCEPT ![b] = d]
               /\ RecordOK(b, d) /\ Kept(r, d)
               /\ d.result = "running" =>
                     /\ d.rev = build[b].rev /\ d.version = build[b].version
                     /\ d.tag = build[b].tag /\ d.looked = build[b].looked
                     /\ d.digest = build[b].digest
                     /\ \A c : Did(b, d, c) <=> Did(b, build[b], c) \/ c = "apply"
  BY <1>1, <1>2, <1>3, <1>4, <1>5, ReportsOn
<1>7. Grows(build[b], d) /\ d.n = build[b].n
  BY <1>5, <1>6 DEF Grows, Kept
<1>8. Knows(b, d, workspace[b])'
  BY <1>1, <1>6, <1>7, ApplyKnows
<1>9. SourceIsTrue'
  BY <1>1 DEF IInv, SourceIsTrue, settings
<1> QED BY <1>1, <1>3, <1>6, <1>7, <1>8, <1>9, RecordIsOK, TagsStay, QuietStep

LEMMA ApplyNewIsSafe ==
    ASSUME IInv, NEW b \in Branches, ApplyNew(b)
    PROVE  IInv'
<1>1. /\ At(b, "apply") /\ UNCHANGED <<settings, workspace, tags, verified, approvals>>
      /\ model' = model /\ plan' = plan
  BY DEF ApplyNew, settings
<1>2. PICK e, was, old, s :
         /\ e = Step(b).env /\ was = Current(e) /\ old = cluster[e]
         /\ s = Applied(old, build[b].digest, Id(b))
  OBVIOUS
<1>3. PICK r : r = [build[b] EXCEPT !.touched = @ \cup {e}, !.revised = @ \cup {e},
                                    !.prior[e] = was]
  OBVIOUS
<1>4. /\ was # build[b].digest /\ cluster' = [cluster EXCEPT ![e] = s]
      /\ Reports(b, r, TRUE)
  BY <1>2, <1>3 DEF ApplyNew, IInv, TypeInv
<1>5. /\ build[b].result = "running" /\ Active(build[b]) /\ e \in Environments
      /\ b \in DeploysTo(e) /\ Did(b, build[b], "verify")
      /\ build[b].digest \in Images /\ Id(b) \in BuildIds
      /\ Vouched(Id(b), build[b].digest)
      /\ e = "production" /\ model.requireApproval => Id(b) \in approvals
  BY <1>1, <1>2, ApplyIsGrounded
<1>6. /\ DOMAIN r = Fields /\ r.result = build[b].result /\ r.at = build[b].at
      /\ r.rev = build[b].rev /\ r.version = build[b].version /\ r.tag = build[b].tag
      /\ r.looked = build[b].looked /\ r.digest = build[b].digest /\ r.n = build[b].n
      /\ r.started = build[b].started /\ r.undone = build[b].undone
      /\ r.touched = build[b].touched \cup {e} /\ r.revised = build[b].revised \cup {e}
      /\ r.prior = [build[b].prior EXCEPT ![e] = was]
  BY <1>3, RecordIsOK DEF RecordOK, Fields
<1>7. RecordOK(b, r)
  BY <1>5, <1>6, RecordIsOK DEF RecordOK, Active
<1>8. PICK d : /\ build' = [build EXCEPT ![b] = d]
               /\ RecordOK(b, d) /\ Kept(r, d)
               /\ d.result = "running" =>
                     /\ d.rev = build[b].rev /\ d.version = build[b].version
                     /\ d.tag = build[b].tag /\ d.looked = build[b].looked
                     /\ d.digest = build[b].digest
                     /\ \A c : Did(b, d, c) <=> Did(b, build[b], c) \/ c = "apply"
  <2>1. PICK started : started \in BOOLEAN /\ Reports(b, r, started)
    BY <1>4
  <2>2. started => Step(b).env \in r.touched
    BY <1>2, <1>6
  <2>3. /\ At(b, "apply") /\ RecordOK(b, r) /\ r.result = "running" /\ r.at = build[b].at
        /\ r.rev = build[b].rev /\ r.version = build[b].version /\ r.tag = build[b].tag
        /\ r.looked = build[b].looked /\ r.digest = build[b].digest
    BY <1>1, <1>5, <1>6, <1>7
  <2> QED BY <2>1, <2>2, <2>3, ReportsOn
<1>9. /\ d.n = build[b].n /\ d.undone = build[b].undone
      /\ d.revised = build[b].revised \cup {e} /\ d.prior[e] = was
      /\ \A x \in Environments \ {e} : d.prior[x] = build[b].prior[x]
  BY <1>5, <1>6, <1>8, RecordIsOK DEF Kept, RecordOK
<1>10. Knows(b, d, workspace[b])'
  BY <1>1, <1>8, <1>9, ApplyKnows
<1>11. old \in Seq(Revisions) /\ (old # <<>> => old[Len(old)].image = was)
  <2>1. old \in Seq(Revisions)
    BY <1>2, <1>5 DEF IInv, TypeInv
  <2> QED BY <1>2, <2>1 DEF Current, Latest
<1>12. /\ s \in Seq(Revisions) /\ Len(s) \in Nat /\ Len(s) > 0
       /\ s[Len(s)] = [image |-> build[b].digest, by |-> Id(b)]
       /\ \A i \in 1..Len(s) - 1 : \E j \in DOMAIN old : s[i] = old[j]
       /\ Len(s) > 1 => old # <<>> /\ s[Len(s) - 1] = old[Len(old)]
  BY <1>2, <1>4, <1>5, <1>11, AppliedIs
<1>13. /\ DeployedIsVerified' /\ ProductionIsApproved'
       /\ cluster' \in [Environments -> Seq(Revisions)]
       /\ cluster'[e] = s /\ \A x \in Environments \ {e} : cluster'[x] = cluster[x]
  <2>1. ASSUME NEW i \in DOMAIN s
        PROVE  \/ \E j \in DOMAIN cluster[e] : s[i] = cluster[e][j]
               \/ /\ Vouched(s[i].by, s[i].image)
                  /\ e = "production" =>
                       /\ s[i].by[1] \in DeploysTo("production")
                       /\ model.requireApproval => s[i].by \in approvals
    <3>1. CASE i = Len(s)
      BY <1>5, <1>12, <3>1 DEF Id
    <3>2. CASE i # Len(s)
      <4>1. i \in 1..Len(s) - 1
        <5>1. DOMAIN s = 1..Len(s)
          BY <1>12, LenProperties
        <5>2. PICK n \in Nat : n = Len(s)
          BY <1>12
        <5> QED BY <3>2, <5>1, <5>2
      <4> QED BY <1>2, <1>12, <4>1
    <3> QED BY <3>1, <3>2
  <2> QED BY <1>1, <1>4, <1>5, <1>12, <2>1, DeploymentsStayGood
<1>14. /\ DOMAIN build' = Branches /\ build'[b] = d
       /\ \A q \in Branches : q # b => build'[q] = build[q]
  BY <1>8 DEF IInv, TypeInv
<1>15. TypeInv'
  <2>1. \A q \in Branches : RecordOK(q, build[q])' /\ DOMAIN workspace'[q] = DOMAIN Emptied
    BY <1>1, <1>8, <1>14 DEF IInv, TypeInv, RecordOK, DeploysTo
  <2>2. SettingsInv'
    BY <1>1 DEF IInv, TypeInv, SettingsInv, PlansAreSafe
  <2> QED BY <1>1, <1>13, <1>14, <2>1, <2>2 DEF IInv, TypeInv
<1>16. KnowledgeInv'
  <2> SUFFICES ASSUME NEW q \in Branches PROVE Knows(q, build[q], workspace[q])'
    BY DEF KnowledgeInv
  <2>1. CASE q = b
    BY <1>1, <1>10, <1>14, <2>1
  <2>2. CASE q # b
    BY <1>1, <1>14, <2>2, OthersKnow
  <2> QED BY <2>1, <2>2
<1>17. s # <<>> /\ s[Len(s)].image = build[b].digest
  BY <1>12, LenProperties
<1>18. RevisedInv'
  <2> SUFFICES ASSUME NEW q \in Branches, NEW x \in build'[q].revised, Active(build'[q]),
                      Sole(q, x)
               PROVE  LET n == Len(cluster'[x]) IN
                      /\ n > 1 => cluster'[x][n - 1].image = build'[q].prior[x]
                      /\ build'[q].result = "running" =>
                            /\ (IF cluster'[x] = <<>> THEN None
                                ELSE cluster'[x][Len(cluster'[x])].image) = build'[q].digest
                            /\ Did(q, build'[q], "verify")
    BY <1>1 DEF RevisedInv, Sole, DeploysTo, Current, Latest, Did, Active
  <2>0. x \in Environments
    BY <1>15 DEF TypeInv, RecordOK
  <2>1. CASE x = e
    <3>1. q = b
      BY <1>5, <2>1 DEF Sole
    <3>2. Len(s) > 1 => s[Len(s) - 1].image = d.prior[e]
      BY <1>9, <1>11, <1>12
    <3>3. d.result = "running" => d.digest = build[b].digest /\ Did(b, d, "verify")
      BY <1>5, <1>8
    <3>4. build'[q] = d /\ cluster'[x] = s
      BY <1>13, <1>14, <2>1, <3>1
    <3>5. Len(cluster'[x]) > 1 => cluster'[x][Len(cluster'[x]) - 1].image = build'[q].prior[x]
      BY <2>1, <3>2, <3>4
    <3>6. cluster'[x] # <<>> /\ cluster'[x][Len(cluster'[x])].image = build[b].digest
      BY <1>17, <3>4
    <3>7. build'[q].result = "running" =>
             build'[q].digest = build[b].digest /\ Did(q, build'[q], "verify")
      BY <3>1, <3>3, <3>4
    <3> QED BY <3>5, <3>6, <3>7
  <2>2. CASE x # e
    <3>1. /\ cluster'[x] = cluster[x] /\ x \in build[q].revised /\ Active(build[q])
          /\ build'[q].prior[x] = build[q].prior[x]
          /\ build'[q].result = "running" =>
                /\ build[q].result = "running" /\ build'[q].digest = build[q].digest
                /\ Did(q, build[q], "verify") => Did(q, build'[q], "verify")
      BY <1>5, <1>8, <1>9, <1>13, <1>14, <2>0, <2>2
    <3>2. LET n == Len(cluster[x]) IN
          /\ n > 1 => cluster[x][n - 1].image = build[q].prior[x]
          /\ build[q].result = "running" =>
                Current(x) = build[q].digest /\ Did(q, build[q], "verify")
      BY <3>1 DEF IInv, RevisedInv
    <3> QED BY <3>1, <3>2 DEF Current, Latest
  <2> QED BY <2>1, <2>2
<1>19. RollbackRestores'
  <2> SUFFICES ASSUME NEW q \in Branches, NEW x \in build'[q].undone
               PROVE  /\ x \in build'[q].touched
                      /\ x \in build'[q].revised /\ DeploysTo(x) = {q}
                            => Current(x)' = build'[q].prior[x]
    BY <1>1 DEF RollbackRestores, DeploysTo, Current, Latest
  <2>1. q # b
    BY <1>5, <1>9, <1>14, RecordIsOK DEF RecordOK
  <2>2. x \in Environments /\ x \in build[q].undone /\ build'[q] = build[q]
    BY <1>14, <2>1, RecordIsOK DEF RecordOK
  <2>3. x \in build[q].touched /\ (x \in build[q].revised /\ DeploysTo(x) = {q}
                                    => Current(x) = build[q].prior[x])
    BY <2>2 DEF IInv, RollbackRestores
  <2>4. DeploysTo(x) = {q} => x # e
    BY <1>5, <2>1
  <2> QED BY <1>13, <2>2, <2>3, <2>4 DEF Current, Latest
<1>20. SourceIsTrue' /\ TagsInv'
  BY <1>1, TagsStay DEF IInv, SourceIsTrue, settings
<1> QED BY <1>13, <1>15, <1>16, <1>18, <1>19, <1>20 DEF IInv

\* What kubectl rollout undo makes of the revisions of a Deployment.
LEMMA AllButTwo ==
    ASSUME NEW S, NEW old \in Seq(S), NEW k \in Nat, k = Len(old), k > 1
    PROVE  /\ SubSeq(old, 1, k - 2) \in Seq(S) /\ Len(SubSeq(old, 1, k - 2)) = k - 2
           /\ \A i \in 1..k - 2 : SubSeq(old, 1, k - 2)[i] = old[i]
<1>1. \A i \in 1..k - 2 : old[i] \in S
  BY ElementOfSeq
<1>2. PICK t : t = SubSeq(old, 1, k - 2)
  OBVIOUS
<1>3. /\ t \in Seq(S) /\ Len(t) = IF 1 <= k - 2 THEN (k - 2) - 1 + 1 ELSE 0
      /\ \A i \in 1..(k - 2) - 1 + 1 : t[i] = old[1 + i - 1]
  BY <1>1, <1>2, SubSeqProperties, 1 \in Int, k - 2 \in Int
<1>4. (IF 1 <= k - 2 THEN (k - 2) - 1 + 1 ELSE 0) = k - 2 /\ (k - 2) - 1 + 1 = k - 2
  OBVIOUS
<1>5. \A i \in 1..k - 2 : 1 + i - 1 = i
  OBVIOUS
<1> QED BY <1>2, <1>3, <1>4, <1>5

LEMMA AndTwo ==
    ASSUME NEW S, NEW t \in Seq(S), NEW u \in Seq(S), NEW n \in Nat, Len(t) = n, Len(u) = 2
    PROVE  /\ t \o u \in Seq(S) /\ Len(t \o u) = n + 2
           /\ \A i \in 1..n : (t \o u)[i] = t[i]
           /\ (t \o u)[n + 1] = u[1] /\ (t \o u)[n + 2] = u[2]
<1>1. PICK s : s = t \o u
  OBVIOUS
<1>2. /\ s \in Seq(S) /\ Len(s) = n + 2
      /\ \A i \in 1..n + 2 : s[i] = IF i <= n THEN t[i] ELSE u[i - n]
  <2>1. /\ s \in Seq(S) /\ Len(s) = Len(t) + Len(u)
        /\ \A i \in 1..Len(t) + Len(u) : s[i] = IF i <= Len(t) THEN t[i] ELSE u[i - Len(t)]
    BY <1>1, ConcatProperties
  <2> QED BY <2>1
<1>3. \A i \in 1..n : s[i] = t[i]
  BY <1>2
<1>4. /\ n + 1 \in 1..n + 2 /\ ~(n + 1 <= n) /\ (n + 1) - n = 1
      /\ n + 2 \in 1..n + 2 /\ ~(n + 2 <= n) /\ (n + 2) - n = 2
  OBVIOUS
<1> QED BY <1>1, <1>2, <1>3, <1>4

LEMMA UndoIsSafe ==
    ASSUME IInv, NEW b \in Branches, Undo(b)
    PROVE  IInv'
<1>1. /\ build[b].result = "unwinding" /\ Active(build[b])
      /\ UNCHANGED <<settings, workspace, tags, verified, approvals>>
      /\ model' = model /\ plan' = plan
  BY DEF Undo, settings, Active
<1>2. PICK e, old : e = Step(b).env /\ old = cluster[e]
  OBVIOUS
<1>3. PICK ended : ended = Ended(build[b], "failure")
  OBVIOUS
<1>4. RecordOK(b, ended) /\ ended.result = "failure" /\ Kept(build[b], ended)
  BY <1>3, RecordIsOK, EndedIsOK
<1>5. /\ e \in Environments /\ e \in build[b].touched /\ b \in DeploysTo(e)
      /\ build[b].undone = {}
  BY <1>1, <1>2, RecordIsOK DEF RecordOK, Step
<1>6. old \in Seq(Revisions)
  BY <1>2, <1>5 DEF IInv, TypeInv
<1>7. PICK k \in Nat : k = Len(old)
  BY <1>6, LenProperties
<1>8. CASE build' = [build EXCEPT ![b] = ended] /\ UNCHANGED cluster
  <2>1. Grows(build[b], ended) /\ ~Active(ended)
    BY <1>4 DEF Grows, Kept, Active
  <2> QED BY <1>1, <1>4, <1>8, <2>1, RecordIsOK, TagsStay, StopStep
<1>9. CASE /\ k > 1
           /\ cluster' = [cluster EXCEPT ![e] = SubSeq(old, 1, k - 2) \o <<old[k], old[k - 1]>>]
           /\ build' = [build EXCEPT ![b] = [ended EXCEPT !.undone = @ \cup {e}]]
  <2>1. PICK d, s : /\ d = [ended EXCEPT !.undone = @ \cup {e}]
                    /\ s = SubSeq(old, 1, k - 2) \o <<old[k], old[k - 1]>>
    OBVIOUS
  <2>2. build' = [build EXCEPT ![b] = d] /\ cluster' = [cluster EXCEPT ![e] = s]
    BY <1>9, <2>1
  <2>3. /\ DOMAIN d = Fields /\ d.n = ended.n /\ d.result = ended.result
        /\ d.started = ended.started /\ d.touched = ended.touched
        /\ d.revised = ended.revised /\ d.prior = ended.prior
        /\ d.undone = ended.undone \cup {e}
    BY <1>4, <2>1 DEF RecordOK, Fields
  <2>4. RecordOK(b, d) /\ ~Active(d)
    BY <1>4, <1>5, <2>3 DEF RecordOK, Active
  <2>5. /\ d.undone = {e} /\ d.touched = build[b].touched /\ d.revised = build[b].revised
        /\ d.prior = build[b].prior
    BY <1>4, <1>5, <2>3 DEF Kept
  <2>6. /\ s \in Seq(Revisions) /\ Len(s) = k /\ s[k] = old[k - 1]
        /\ \A i \in 1..k : \E j \in DOMAIN old : s[i] = old[j]
    <3>1. k = Len(old) /\ k > 1
      BY <1>9, <1>7
    <3>2. PICK u : u = <<old[k], old[k - 1]>>
      OBVIOUS
    <3>3. PICK t : t = SubSeq(old, 1, k - 2) /\ s = t \o u
      BY <2>1, <3>2
    <3>4. k \in 1..Len(old) /\ k - 1 \in 1..Len(old)
      BY <1>6, <3>1
    <3>5. old[k] \in Revisions /\ old[k - 1] \in Revisions
      BY <1>6, <3>4, ElementOfSeq
    <3>6. u \in Seq(Revisions) /\ Len(u) = 2 /\ u[1] = old[k] /\ u[2] = old[k - 1]
      BY <3>2, <3>5
    <3>7. old \in Seq(Revisions) /\ k \in Nat
      BY <1>6, <1>7
    <3>8. t \in Seq(Revisions) /\ Len(t) = k - 2 /\ \A i \in 1..k - 2 : t[i] = old[i]
      BY <3>1, <3>3, <3>7, AllButTwo
    <3>9. /\ s \in Seq(Revisions) /\ Len(s) = (k - 2) + 2
          /\ \A i \in 1..k - 2 : s[i] = t[i]
          /\ s[(k - 2) + 1] = u[1] /\ s[(k - 2) + 2] = u[2]
      <4>1. PICK n \in Nat : n = k - 2
        BY <3>1, <3>7
      <4> QED BY <3>3, <3>6, <3>8, <4>1, AndTwo
    <3>10. (k - 2) + 2 = k /\ (k - 2) + 1 = k - 1
      BY <3>7
    <3>11. \A i \in 1..k : i \in 1..k - 2 \/ i = k - 1 \/ i = k
      BY <3>7
    <3>12. DOMAIN old = 1..k /\ k \in 1..k /\ k - 1 \in 1..k
      BY <3>1, <3>7, LenProperties
    <3>13. \A i \in 1..k - 2 : i \in 1..k
      BY <3>7
    <3>14. \A i \in 1..k : \E j \in DOMAIN old : s[i] = old[j]
      BY <3>6, <3>8, <3>9, <3>10, <3>11, <3>12, <3>13
    <3> QED BY <3>6, <3>9, <3>10, <3>14
  <2>7. /\ DeployedIsVerified' /\ ProductionIsApproved'
        /\ cluster' \in [Environments -> Seq(Revisions)]
        /\ cluster'[e] = s /\ \A x \in Environments \ {e} : cluster'[x] = cluster[x]
    <3>1. \A i \in DOMAIN s : \E j \in DOMAIN cluster[e] : s[i] = cluster[e][j]
      BY <1>2, <2>6, LenProperties
    <3>2. \A i \in DOMAIN s :
             \/ \E j \in DOMAIN cluster[e] : s[i] = cluster[e][j]
             \/ /\ Vouched(s[i].by, s[i].image)
                /\ e = "production" =>
                      /\ s[i].by[1] \in DeploysTo("production")
                      /\ model.requireApproval => s[i].by \in approvals
      BY <3>1
    <3> QED BY <1>1, <1>5, <2>2, <2>6, <3>2, DeploymentsStayGood
  <2>8. /\ DOMAIN build' = Branches /\ build'[b] = d
        /\ \A q \in Branches : q # b => build'[q] = build[q]
    BY <2>2 DEF IInv, TypeInv
  <2>9. TypeInv'
    <3>1. ASSUME NEW q \in Branches
          PROVE  RecordOK(q, build[q])' /\ DOMAIN workspace'[q] = DOMAIN Emptied
      <4>1. RecordOK(q, build'[q]) /\ DOMAIN workspace[q] = DOMAIN Emptied
        BY <2>4, <2>8, RecordIsOK
      <4>2. RecordOK(q, build[q])'
        BY <1>1, <4>1 DEF RecordOK, DeploysTo
      <4> QED BY <1>1, <4>1, <4>2
    <3>2. SettingsInv'
      BY <1>1 DEF IInv, TypeInv, SettingsInv, PlansAreSafe
    <3> QED BY <1>1, <2>7, <2>8, <3>1, <3>2 DEF IInv, TypeInv
  <2>10. KnowledgeInv'
    <3> SUFFICES ASSUME NEW q \in Branches PROVE Knows(q, build[q], workspace[q])'
      BY DEF KnowledgeInv
    <3>1. CASE q = b
      BY <2>4, <2>8, <3>1 DEF Knows, Active
    <3>2. CASE q # b
      BY <1>1, <2>8, <3>2, OthersKnow
    <3> QED BY <3>1, <3>2
  <2>11. RevisedInv'
    <3> SUFFICES ASSUME NEW q \in Branches, NEW x \in build'[q].revised, Active(build'[q]),
                        Sole(q, x)
                 PROVE  LET n == Len(cluster'[x]) IN
                        /\ n > 1 => cluster'[x][n - 1].image = build'[q].prior[x]
                        /\ build'[q].result = "running" =>
                              /\ (IF cluster'[x] = <<>> THEN None
                                  ELSE cluster'[x][Len(cluster'[x])].image) = build'[q].digest
                              /\ Did(q, build'[q], "verify")
      BY <1>1 DEF RevisedInv, Sole, DeploysTo, Current, Latest, Did, Active
    <3>1. q # b
      BY <2>4, <2>8
    <3>2. x # e
      BY <1>5, <3>1 DEF Sole
    <3>3. x \in Environments
      BY <2>9 DEF TypeInv, RecordOK
    <3>4. cluster'[x] = cluster[x] /\ build'[q] = build[q]
      BY <2>7, <2>8, <3>1, <3>2, <3>3
    <3>5. LET n == Len(cluster[x]) IN
          /\ n > 1 => cluster[x][n - 1].image = build[q].prior[x]
          /\ build[q].result = "running" =>
                Current(x) = build[q].digest /\ Did(q, build[q], "verify")
      BY <3>4 DEF IInv, RevisedInv
    <3> QED BY <3>4, <3>5 DEF Current, Latest
  <2>12. RollbackRestores'
    <3> SUFFICES ASSUME NEW q \in Branches, NEW x \in build'[q].undone
                 PROVE  /\ x \in build'[q].touched
                        /\ x \in build'[q].revised /\ DeploysTo(x) = {q}
                              => Current(x)' = build'[q].prior[x]
      BY <1>1 DEF RollbackRestores, DeploysTo, Current, Latest
    <3>1. CASE q = b
      <4>1. x = e /\ x \in build'[q].touched
        BY <1>5, <2>5, <2>8, <3>1
      <4>2. ASSUME x \in build'[q].revised, DeploysTo(x) = {q}
            PROVE  Current(x)' = build'[q].prior[x]
        <5>1. e \in build[b].revised /\ Sole(b, e)
          BY <2>5, <2>8, <3>1, <4>1, <4>2 DEF Sole
        <5>2. Len(cluster[e]) > 1 =>
                 cluster[e][Len(cluster[e]) - 1].image = build[b].prior[e]
          BY <1>1, <5>1 DEF IInv, RevisedInv
        <5>3. s[k].image = build[b].prior[e]
          BY <1>2, <1>9, <1>7, <2>6, <5>2
        <5>4. s # <<>> /\ Current(e)' = s[k].image
          <6>1. s # <<>>
            BY <1>9, <2>6, LenProperties
          <6> QED BY <2>6, <2>7, <6>1 DEF Current, Latest
        <5> QED BY <2>5, <2>8, <3>1, <4>1, <5>3, <5>4
      <4> QED BY <4>1, <4>2
    <3>2. CASE q # b
      <4>1. x \in Environments /\ x \in build[q].undone /\ build'[q] = build[q]
        BY <2>8, <3>2, RecordIsOK DEF RecordOK
      <4>2. x \in build[q].touched /\ (x \in build[q].revised /\ DeploysTo(x) = {q}
                                        => Current(x) = build[q].prior[x])
        BY <4>1 DEF IInv, RollbackRestores
      <4>3. DeploysTo(x) = {q} => x # e
        BY <1>5, <3>2
      <4> QED BY <2>7, <4>1, <4>2, <4>3 DEF Current, Latest
    <3> QED BY <3>1, <3>2
  <2>13. SourceIsTrue' /\ TagsInv'
    BY <1>1, TagsStay DEF IInv, SourceIsTrue, settings
  <2> QED BY <2>7, <2>9, <2>10, <2>11, <2>12, <2>13 DEF IInv
<1>10. LET x == Step(b).env
          n == Len(cluster[x])
      IN  \/ /\ n > 1
             /\ cluster' = [cluster EXCEPT ![x] =
                   SubSeq(cluster[x], 1, n - 2) \o <<cluster[x][n], cluster[x][n - 1]>>]
             /\ build' = [build EXCEPT ![b] =
                   [Ended(build[b], "failure") EXCEPT !.undone = @ \cup {x}]]
          \/ build' = [build EXCEPT ![b] = Ended(build[b], "failure")] /\ UNCHANGED cluster
  BY DEF Undo
<1> QED BY <1>2, <1>3, <1>8, <1>9, <1>10, <1>7

-----------------------------------------------------------------------------
(* The invariant is inductive.                                             *)

LEMMA Inductive ==
    ASSUME IInv, [Next]_vars
    PROVE  IInv'
<1>1. CASE UNCHANGED vars
  <2>1. /\ model' = model /\ plan' = plan /\ build' = build /\ workspace' = workspace
        /\ tags' = tags /\ cluster' = cluster /\ verified' = verified /\ approvals' = approvals
    BY <1>1 DEF vars
  <2>2. TypeInv'
    <3>1. ASSUME NEW q \in Branches PROVE RecordOK(q, build[q])'
      BY <2>1, RecordIsOK DEF RecordOK, DeploysTo
    <3>2. SettingsInv'
      BY <2>1 DEF IInv, TypeInv, SettingsInv, PlansAreSafe
    <3> QED BY <2>1, <3>1, <3>2 DEF IInv, TypeInv
  <2>3. KnowledgeInv'
    <3>1. UNCHANGED settings
      BY <2>1 DEF settings
    <3> QED BY <2>1, <3>1, OthersKnow DEF KnowledgeInv
  <2>4. TagsInv' /\ SourceIsTrue'
    BY <2>1 DEF IInv, TagsInv, SourceIsTrue, NamesCommit
  <2>5. RevisedInv' /\ RollbackRestores'
    BY <2>1 DEF IInv, RevisedInv, RollbackRestores, Sole, DeploysTo, Current, Latest, Did
  <2>6. DeployedIsVerified' /\ ProductionIsApproved'
    BY <2>1 DEF IInv, DeployedIsVerified, ProductionIsApproved, DeploysTo
  <2> QED BY <2>2, <2>3, <2>4, <2>5, <2>6 DEF IInv
<1>2. ASSUME NEW b \in Branches, StartBuild(b) PROVE IInv'
  BY <1>2, StartIsQuiet
<1>3. ASSUME NEW b \in Branches, Work(b) PROVE IInv'
  BY <1>3, CheckoutIsQuiet, IntentIsQuiet, ToolsAreQuiet, PushIsQuiet, InspectIsQuiet,
     RecheckIsQuiet, EvidenceIsQuiet, VerifyIsQuiet, StopsAreQuiet, ApplyNewIsSafe,
     ApplySameIsQuiet, PlainActions, UndoIsSafe DEF Work
<1>4. ASSUME NEW b \in Branches, Approve(b) PROVE IInv'
  BY <1>4, ApproveIsQuiet
<1>5. ASSUME NEW b \in Branches, Abort(b) PROVE IInv'
  BY <1>5, StopsAreQuiet
<1> QED BY <1>1, <1>2, <1>3, <1>4, <1>5 DEF Next

LEMMA AlwaysIInv == Spec => []IInv
<1>1. Init => IInv
  BY Initially
<1>2. IInv /\ [Next]_vars => IInv'
  BY Inductive
<1> QED BY <1>1, <1>2, PTL DEF Spec

\* For any branches, commits and configurations, and however builds run side by
\* side, every revision of an environment is an image whose evidence the build that
\* applied it had accepted, within the vulnerability policy.
THEOREM OnlyVerifiedImagesAreDeployed == Spec => []DeployedIsVerified
<1>1. IInv => DeployedIsVerified
  BY DEF IInv
<1> QED BY <1>1, AlwaysIInv, PTL

\* With a tag that names the commit, accepted evidence is about an image built from
\* the revision it records.
THEOREM EvidenceNamesItsSource == Spec => []SourceIsTrue
<1>1. IInv => SourceIsTrue
  BY DEF IInv
<1> QED BY <1>1, AlwaysIInv, PTL

\* An image reaches production from a branch routed there and, when the policy
\* requires it, in an approved build.
THEOREM ProductionNeedsApproval == Spec => []ProductionIsApproved
<1>1. IInv => ProductionIsApproved
  BY DEF IInv
<1> QED BY <1>1, AlwaysIInv, PTL

\* Where one branch alone deploys to an environment, a rollback after a new revision
\* leaves the image that was there before; no rollback runs where the build did not
\* touch the Deployment.
THEOREM RollbacksRestore == Spec => []RollbackRestores
<1>1. IInv => RollbackRestores
  BY DEF IInv
<1> QED BY <1>1, AlwaysIInv, PTL

\* The checks that look for something in particular suffice: of the pipelines that
\* differ from the rendered one in one stage, they accept only safe ones.
THEOREM ChecksAreSufficient == Spec => []ChecksSuffice
<1>1. IInv => ChecksSuffice
  <2> SUFFICES ASSUME IInv PROVE ChecksSuffice
    OBVIOUS
  <2>1. model \in DeliveryModels
    BY ModelsAreModels DEF IInv, TypeInv, SettingsInv
  <2>2. Safe(Render(model), model) /\ RecordsDescribe(Render(model), model)
    BY <2>1, RenderedPipelinesAreSafe
  <2>3. ASSUME NEW p \in Edits(Render(model)),
               StructureIssues(p) \cup Mismatches(p, model) = {}
        PROVE  Safe(p, model)
    BY <2>1, <2>3, AcceptedEditsAreSafe
  <2> QED BY <2>2, <2>3, Zenon DEF ChecksSuffice
<1> QED BY <1>1, AlwaysIInv, PTL

-----------------------------------------------------------------------------
(* Nothing refuses what generate accepted.                                 *)

\* The first step of a build clears the marker; it is set again only by the push.
Unmarked(b, r, files) ==
    r.result = "running" /\ r.at > 1 /\ ~Did(b, r, "push") => ~files.marker
RefusalInv ==
    /\ ~model.cache /\ NoForeseenRefusal
    /\ \A b \in Branches : Unmarked(b, build[b], workspace[b])

\* The build goes on past its step or stops running, and nothing refused it.
Goes(b) ==
    \E d : /\ build' = [build EXCEPT ![b] = d] /\ d.refused = "no"
           /\ d.result = "running" =>
                 build[b].result = "running" /\ d.at \in Nat /\ d.at > build[b].at

LEMMA FailGoes ==
    ASSUME IInv, NEW b \in Branches, NEW r, DOMAIN r = Fields, r.refused = "no", Fail(b, r)
    PROVE  Goes(b)
<1>1. PICK d : /\ build' = [build EXCEPT ![b] = d]
               /\ d = IF Step(b).undo /\ Step(b).env \in r.started
                      THEN [r EXCEPT !.result = "unwinding"] ELSE Ended(r, "failure")
  BY DEF Fail
<1>2. d.refused = "no" /\ d.result # "running"
  BY <1>1 DEF Ended, Fields
<1> QED BY <1>1, <1>2 DEF Goes

LEMMA AdvanceGoes ==
    ASSUME IInv, NEW b \in Branches, Running(b), NEW r, DOMAIN r = Fields, r.refused = "no",
           r.at = build[b].at, Advance(b, r)
    PROVE  Goes(b)
<1>1. PICK d : /\ build' = [build EXCEPT ![b] = d]
               /\ d = IF r.at = Len(plan[b]) THEN Ended(r, "success") ELSE [r EXCEPT !.at = @ + 1]
  BY DEF Advance
<1>2. d.refused = "no" /\ (d.result = "running" => d.at = build[b].at + 1)
  BY <1>1 DEF Ended, Fields
<1>3. build[b].at + 1 \in Nat /\ build[b].at + 1 > build[b].at
  <2>1. build[b].at \in Nat
    BY StepIsThere DEF Running, Active
  <2> QED BY <2>1
<1> QED BY <1>1, <1>2, <1>3 DEF Goes, Running

LEMMA EndsGo ==
    ASSUME IInv, NEW b \in Branches, NEW r, DOMAIN r = Fields, r.refused = "no",
           NEW res \in {"success", "failure", "aborted"},
           build' = [build EXCEPT ![b] = Ended(r, res)]
    PROVE  Goes(b)
<1>1. Ended(r, res).refused = "no" /\ Ended(r, res).result # "running"
  BY DEF Ended, Fields
<1> QED BY <1>1 DEF Goes

\* A step that is not the checkout leaves the marker alone or is the push.
LEMMA GoesUnrefused ==
    ASSUME IInv, RefusalInv, NEW b \in Branches, Goes(b), UNCHANGED settings,
           \A q \in Branches \ {b} : workspace'[q] = workspace[q],
           \/ ~workspace'[b].marker
           \/ At(b, "push")
           \/ /\ workspace'[b].marker = workspace[b].marker
              /\ At(b, "checkout") => build'[b].result # "running"
    PROVE  RefusalInv'
<1>1. PICK d : /\ build' = [build EXCEPT ![b] = d] /\ d.refused = "no"
               /\ d.result = "running" =>
                     build[b].result = "running" /\ d.at \in Nat /\ d.at > build[b].at
  BY DEF Goes
<1>2. /\ build'[b] = d /\ \A q \in Branches : q # b => build'[q] = build[q]
      /\ model' = model /\ plan' = plan
  BY <1>1 DEF IInv, TypeInv, settings
<1>3. NoForeseenRefusal'
  BY <1>1, <1>2 DEF RefusalInv, NoForeseenRefusal
<1>4. Unmarked(b, d, workspace[b])'
  <2> SUFFICES ASSUME d.result = "running", ~Did(b, d, "push")', workspace'[b].marker
               PROVE  FALSE
    BY <1>2 DEF Unmarked
  <2>1. /\ build[b].at \in DOMAIN plan[b] /\ build[b].at \in Nat \ {0}
        /\ build[b].at \in 1..d.at - 1
    BY <1>1, StepIsThere DEF Active
  <2>2. \A j \in 1..d.at - 1 : plan[b][j].do # "push"
    BY <1>2 DEF Did
  <2>3. ~At(b, "push") /\ ~Did(b, build[b], "push")
    <3>1. plan[b][build[b].at].do # "push"
      BY <2>1, <2>2
    <3>2. \A j \in 1..build[b].at - 1 : j \in 1..d.at - 1
      BY <1>1, <2>1
    <3> QED BY <2>2, <3>1, <3>2 DEF At, Step, Did
  <2>4. \/ At(b, "push")
        \/ /\ workspace'[b].marker = workspace[b].marker
           /\ At(b, "checkout") => build'[b].result # "running"
    OBVIOUS
  <2>5. build[b].at # 1
    <3>1. plan[b][1].do = "checkout"
      BY DEF IInv, TypeInv, SettingsInv, PlansAreSafe
    <3>2. At(b, "checkout") => build'[b].result # "running"
      BY <2>3, <2>4
    <3> QED BY <1>1, <1>2, <3>1, <3>2 DEF At, Running, Step
  <2>6. ~workspace[b].marker
    BY <1>1, <2>1, <2>3, <2>5 DEF RefusalInv, Unmarked
  <2> QED BY <2>3, <2>6, <2>4
<1>5. ASSUME NEW q \in Branches, q # b PROVE Unmarked(q, build[q], workspace[q])'
  BY <1>2, <1>5 DEF RefusalInv, Unmarked, Did
<1> QED BY <1>2, <1>3, <1>4, <1>5 DEF RefusalInv

LEMMA RecordGoes ==
    ASSUME IInv, RefusalInv, NEW b \in Branches
    PROVE  DOMAIN build[b] = Fields /\ build[b].refused = "no"
BY RecordIsOK DEF RecordOK, RefusalInv, NoForeseenRefusal

LEMMA CheckoutUnrefused ==
    ASSUME IInv, RefusalInv, NEW b \in Branches, Checkout(b)
    PROVE  RefusalInv'
<1>1. Goes(b)
  BY RecordGoes, AdvanceGoes, FailGoes DEF Checkout, At
<1>2. workspace' = [workspace EXCEPT ![b] = Emptied]
  BY DEF Checkout
<1>3. UNCHANGED settings /\ ~workspace'[b].marker
      /\ \A q \in Branches \ {b} : workspace'[q] = workspace[q]
  BY <1>2, RecordIsOK DEF Checkout, Emptied
<1> QED BY <1>1, <1>3, GoesUnrefused

\* Steps that leave the marker alone.
LEMMA OthersUnrefused ==
    ASSUME IInv, RefusalInv, NEW b \in Branches, Goes(b), UNCHANGED settings,
           At(b, "checkout") => build'[b].result # "running",
           \/ UNCHANGED workspace
           \/ \E kind \in DOMAIN Emptied \ {"marker"} : \E x :
                 workspace' = [workspace EXCEPT ![b][kind] = x]
    PROVE  RefusalInv'
<1>1. workspace'[b].marker = workspace[b].marker
      /\ \A q \in Branches \ {b} : workspace'[q] = workspace[q]
  BY RecordIsOK DEF Emptied
<1> QED BY <1>1, GoesUnrefused

LEMMA IntentUnrefused ==
    ASSUME IInv, RefusalInv, NEW b \in Branches, ResolveIntent(b)
    PROVE  RefusalInv'
<1> DEFINE r == [build[b] EXCEPT !.tag = TagOf(model, b, build[b].rev, build[b].version)]
<1>1. DOMAIN r = Fields /\ r.refused = "no" /\ r.at = build[b].at
  BY RecordGoes DEF Fields
<1>2. Advance(b, r) \/ Fail(b, build[b])
  BY DEF ResolveIntent
<1> HIDE DEF r
<1>3. Goes(b)
  BY <1>1, <1>2, RecordGoes, AdvanceGoes, FailGoes DEF ResolveIntent, At
<1> QED BY <1>3, OthersUnrefused DEF ResolveIntent, At

LEMMA LookUnrefused ==
    ASSUME IInv, RefusalInv, NEW b \in Branches, InspectTag(b) \/ RecheckTag(b)
    PROVE  RefusalInv'
<1>1. CASE InspectTag(b)
  <2> DEFINE r == [build[b] EXCEPT !.looked = tags[build[b].tag]]
  <2>1. DOMAIN r = Fields /\ r.refused = "no" /\ r.at = build[b].at
    BY RecordGoes DEF Fields
  <2>2. Advance(b, r) \/ Fail(b, build[b])
    BY <1>1 DEF InspectTag
  <2> HIDE DEF r
  <2>3. Goes(b)
    BY <1>1, <2>1, <2>2, RecordGoes, AdvanceGoes, FailGoes DEF InspectTag, At
  <2> QED BY <1>1, <2>3, OthersUnrefused DEF InspectTag, At
<1>2. CASE RecheckTag(b)
  <2> DEFINE r == [build[b] EXCEPT !.digest = build[b].looked]
  <2>1. DOMAIN r = Fields /\ r.refused = "no" /\ r.at = build[b].at
    BY RecordGoes DEF Fields
  <2>2. \/ Advance(b, r)
           /\ workspace' = [workspace EXCEPT ![b]["artifact"] =
                               [image |-> build[b].looked, rev |-> build[b].rev]]
        \/ Fail(b, build[b]) /\ UNCHANGED workspace
    BY <1>2 DEF RecheckTag
  <2> HIDE DEF r
  <2>3. Goes(b)
    BY <1>2, <2>1, <2>2, RecordGoes, AdvanceGoes, FailGoes DEF RecheckTag, At
  <2>4. "artifact" \in DOMAIN Emptied \ {"marker"}
    BY DEF Emptied
  <2> QED BY <1>2, <2>2, <2>3, <2>4, OthersUnrefused DEF RecheckTag, At
<1> QED BY <1>1, <1>2

LEMMA EvidenceUnrefused ==
    ASSUME IInv, RefusalInv, NEW b \in Branches,
           NEW kind \in {"sbom", "scan", "provenance"},
           ProduceEvidence(b, kind) \/ VerifyArtifact(b)
    PROVE  RefusalInv'
<1>1. {kind, "provenance"} \subseteq DOMAIN Emptied \ {"marker"}
  BY DEF Emptied
<1>2. CASE ProduceEvidence(b, kind)
  <2>1. \/ workspace' = [workspace EXCEPT ![b][kind] = EvidenceOf(b)]
        \/ UNCHANGED workspace
    BY <1>2 DEF ProduceEvidence
  <2>2. Goes(b)
    BY <1>2, RecordGoes, AdvanceGoes, FailGoes DEF ProduceEvidence, At
  <2> QED BY <1>1, <1>2, <2>1, <2>2, OthersUnrefused DEF ProduceEvidence, At
<1>3. CASE VerifyArtifact(b)
  <2>1. \/ workspace' = [workspace EXCEPT ![b]["provenance"] = None]
        \/ UNCHANGED workspace
    BY <1>3 DEF VerifyArtifact
  <2>2. Goes(b)
    BY <1>3, RecordGoes, AdvanceGoes, FailGoes DEF VerifyArtifact, At
  <2> QED BY <1>1, <1>3, <2>1, <2>2, OthersUnrefused DEF VerifyArtifact, At
<1> QED BY <1>2, <1>3

LEMMA ToolsUnrefused ==
    ASSUME IInv, RefusalInv, NEW b \in Branches, RunTools(b)
    PROVE  RefusalInv'
<1> DEFINE rest == {i \in build[b].at..Len(plan[b]) : plan[b][i].do \notin Tools}
           first == CHOOSE i \in rest : \A j \in rest : i <= j
<1>1. /\ Running(b) /\ Step(b).do \in Tools
      /\ UNCHANGED <<settings, workspace, tags, cluster, verified, approvals>>
      /\ \/ rest # {} /\ build' = [build EXCEPT ![b].at = first]
         \/ rest = {} /\ build' = [build EXCEPT ![b] = Ended(@, "success")]
         \/ Fail(b, build[b])
  BY DEF RunTools
<1>2. Goes(b)
  <2>1. CASE rest # {} /\ build' = [build EXCEPT ![b].at = first]
    <3>1. PICK d : d = [build[b] EXCEPT !.at = first] /\ build' = [build EXCEPT ![b] = d]
      BY <2>1
    <3>2. plan[b] \in Seq(Commands) /\ build[b].at \in Nat
      BY <1>1, StepIsThere DEF Running, Active
    <3>3. first \in rest
      <4>1. rest \in SUBSET Nat
        BY <3>2
      <4> HIDE DEF rest
      <4> QED BY <2>1, <4>1, Smallest
    <3>4. first \in Nat /\ first > build[b].at
      <4>1. first \in build[b].at..Len(plan[b]) /\ plan[b][first].do \notin Tools
        <5> HIDE DEF first
        <5> QED BY <3>3
      <4>2. first # build[b].at
        BY <1>1, <4>1 DEF Step
      <4> HIDE DEF first
      <4> QED BY <3>2, <4>1, <4>2
    <3> HIDE DEF first, rest
    <3>5. d.refused = "no" /\ d.at = first
      BY <3>1, RecordGoes DEF Fields
    <3> QED BY <1>1, <3>1, <3>4, <3>5 DEF Goes, Running
  <2>2. CASE build' = [build EXCEPT ![b] = Ended(build[b], "success")]
    BY <2>2, RecordGoes, EndsGo
  <2>3. CASE Fail(b, build[b])
    BY <2>3, RecordGoes, FailGoes
  <2> QED BY <1>1, <2>1, <2>2, <2>3
<1>3. ~At(b, "checkout")
  BY <1>1 DEF At, Tools
<1> QED BY <1>1, <1>2, <1>3, OthersUnrefused

\* The push is not refused: its build determined a tag, and no push of it came
\* before.
LEMMA PushUnrefused ==
    ASSUME IInv, RefusalInv, NEW b \in Branches, Push(b)
    PROVE  RefusalInv'
<1>1. /\ Running(b) /\ Active(build[b]) /\ plan[b][build[b].at].do = "push"
      /\ build[b].at \in DOMAIN plan[b] /\ build[b].at \in Nat \ {0}
  BY StepIsThere DEF Push, At, Running, Active, Step
<1>2. Did(b, build[b], "intent") /\ ~Did(b, build[b], "push")
  BY <1>1, PlanOrder DEF IInv, Did
<1>3. ~workspace[b].marker
  <2>1. build[b].at # 1
    BY <1>1 DEF IInv, TypeInv, SettingsInv, PlansAreSafe
  <2> QED BY <1>1, <1>2, <2>1 DEF RefusalInv, Unmarked, Running
<1>4. build[b].tag # None
  <2>1. IntentPart(b, build[b])
    BY <1>1 DEF IInv, KnowledgeInv, Knows, Running
  <2>2. build[b].rev \in Commits
    BY <1>1, RecordIsOK DEF RecordOK
  <2> QED BY <1>2, <2>1, <2>2, TagIsThere, NoneIsNoTag DEF IntentPart
<1>5. ~BuildScriptRefuses(b)
  BY <1>4 DEF BuildScriptRefuses, RefusalInv
<1>6. /\ workspace' = [workspace EXCEPT ![b].marker = TRUE] /\ UNCHANGED settings
      /\ Advance(b, build[b]) \/ Fail(b, build[b])
  BY <1>3, <1>5 DEF Push
<1>7. Goes(b)
  BY <1>1, <1>6, RecordGoes, AdvanceGoes, FailGoes
<1>8. \A q \in Branches \ {b} : workspace'[q] = workspace[q]
  BY <1>6, RecordIsOK
<1> QED BY <1>6, <1>7, <1>8, GoesUnrefused DEF Push

LEMMA ReportsGo ==
    ASSUME IInv, NEW b \in Branches, Running(b), NEW r, DOMAIN r = Fields, r.refused = "no",
           r.at = build[b].at, NEW started \in BOOLEAN, Reports(b, r, started)
    PROVE  Goes(b)
<1>1. PICK noted : noted = [r EXCEPT !.started =
                                IF started THEN @ \cup {Step(b).env} ELSE @]
  OBVIOUS
<1>2. DOMAIN noted = Fields /\ noted.refused = "no" /\ noted.at = build[b].at
  BY <1>1 DEF Fields
<1>3. Advance(b, noted) \/ Fail(b, noted) \/ build' = [build EXCEPT ![b] = Ended(r, "aborted")]
  BY <1>1 DEF Reports
<1> QED BY <1>2, <1>3, AdvanceGoes, FailGoes, EndsGo

LEMMA ApplyUnrefused ==
    ASSUME IInv, RefusalInv, NEW b \in Branches, ApplyNew(b) \/ ApplySame(b)
    PROVE  RefusalInv'
<1>1. Running(b) /\ ~At(b, "checkout") /\ UNCHANGED <<settings, workspace>>
  BY DEF ApplyNew, ApplySame, At
<1>2. PICK r : /\ DOMAIN r = Fields /\ r.refused = "no" /\ r.at = build[b].at
               /\ \E started \in BOOLEAN : Reports(b, r, started)
  <2>1. CASE ApplyNew(b)
    <3>1. PICK r : r = [build[b] EXCEPT !.touched = @ \cup {Step(b).env},
                                        !.revised = @ \cup {Step(b).env},
                                        !.prior[Step(b).env] = Current(Step(b).env)]
      OBVIOUS
    <3>2. Reports(b, r, TRUE)
      BY <2>1, <3>1 DEF ApplyNew
    <3>3. DOMAIN r = Fields /\ r.refused = "no" /\ r.at = build[b].at
      BY <3>1, RecordGoes DEF Fields
    <3> QED BY <3>2, <3>3
  <2>2. CASE ApplySame(b)
    <3>1. PICK r : r = [build[b] EXCEPT !.touched = @ \cup {Step(b).env}]
      OBVIOUS
    <3>2. Reports(b, r, TRUE) \/ Reports(b, build[b], FALSE)
      BY <2>2, <3>1 DEF ApplySame
    <3>3. DOMAIN r = Fields /\ r.refused = "no" /\ r.at = build[b].at
      BY <3>1, RecordGoes DEF Fields
    <3> QED BY <3>2, <3>3, RecordGoes
  <2> QED BY <2>1, <2>2
<1>3. Goes(b)
  BY <1>1, <1>2, ReportsGo
<1> QED BY <1>1, <1>3, OthersUnrefused

\* Approvals, waits and the ends of a build.
LEMMA EndsUnrefused ==
    ASSUME IInv, RefusalInv, NEW b \in Branches,
           \/ Approve(b) \/ ApprovalTimesOut(b) \/ ApplyNothing(b) \/ RolloutStatus(b)
           \/ Undo(b) \/ Abort(b)
    PROVE  RefusalInv'
<1>1. UNCHANGED <<settings, workspace>>
  BY DEF Approve, ApprovalTimesOut, ApplyNothing, RolloutStatus, Undo, Abort
<1>2. CASE Approve(b) \/ ApplyNothing(b) \/ RolloutStatus(b)
  <2>1. ~At(b, "checkout")
    BY <1>2 DEF Approve, ApplyNothing, RolloutStatus, At
  <2>2. Goes(b)
    BY <1>2, RecordGoes, AdvanceGoes, FailGoes DEF Approve, ApplyNothing, RolloutStatus, At
  <2> QED BY <1>1, <2>1, <2>2, OthersUnrefused
<1>3. CASE ApprovalTimesOut(b) \/ Abort(b)
  <2>1. build' = [build EXCEPT ![b] = Ended(build[b], "aborted")]
    BY <1>3 DEF ApprovalTimesOut, Abort
  <2>2. Goes(b)
    BY <2>1, RecordGoes, EndsGo
  <2>3. build'[b].result # "running"
    BY <2>1, RecordGoes DEF Ended, Fields, IInv, TypeInv
  <2> QED BY <1>1, <2>2, <2>3, OthersUnrefused
<1>4. CASE Undo(b)
  <2>1. ~At(b, "checkout")
    BY <1>4 DEF Undo, At, Running
  <2>2. PICK lost, undone :
           /\ lost = Ended(build[b], "failure")
           /\ undone = [Ended(build[b], "failure") EXCEPT !.undone = @ \cup {Step(b).env}]
    OBVIOUS
  <2>3. build' = [build EXCEPT ![b] = lost] \/ build' = [build EXCEPT ![b] = undone]
    BY <1>4, <2>2 DEF Undo
  <2>4. /\ lost.refused = "no" /\ lost.result # "running"
        /\ undone.refused = "no" /\ undone.result # "running"
    BY <2>2, RecordGoes DEF Ended, Fields
  <2>5. Goes(b)
    BY <2>3, <2>4 DEF Goes
  <2> QED BY <1>1, <2>1, <2>5, OthersUnrefused
<1> QED BY <1>2, <1>3, <1>4

LEMMA StartUnrefused ==
    ASSUME IInv, RefusalInv, NEW b \in Branches, StartBuild(b)
    PROVE  RefusalInv'
<1>1. PICK d : build' = [build EXCEPT ![b] = d] /\ d.at = 1 /\ d.refused = "no"
  <2>1. PICK c \in Commits, v \in Versions \cup {None} :
           build' = [build EXCEPT ![b] = [NoBuild EXCEPT !.n = build[b].n + 1,
                        !.result = "running", !.rev = c, !.version = v]]
    BY DEF StartBuild
  <2>2. PICK d : /\ d = [NoBuild EXCEPT !.n = build[b].n + 1, !.result = "running",
                                        !.rev = c, !.version = v]
                 /\ build' = [build EXCEPT ![b] = d]
    BY <2>1
  <2>3. d.at = 1 /\ d.refused = "no"
    BY <2>2 DEF NoBuild
  <2> QED BY <2>2, <2>3
<1>2. UNCHANGED <<settings, workspace>>
  BY DEF StartBuild
<1>3. build'[b] = d /\ \A q \in Branches : q # b => build'[q] = build[q]
  BY <1>1 DEF IInv, TypeInv
<1> QED BY <1>1, <1>2, <1>3 DEF RefusalInv, NoForeseenRefusal, Unmarked, Did, settings

LEMMA RefusalInductive ==
    ASSUME IInv, RefusalInv, [Next]_vars
    PROVE  RefusalInv'
<1>1. CASE UNCHANGED vars
  BY <1>1 DEF vars, RefusalInv, NoForeseenRefusal, Unmarked, Did
<1>2. ASSUME NEW b \in Branches, StartBuild(b) \/ Work(b) \/ Approve(b) \/ Abort(b)
      PROVE  RefusalInv'
  <2>1. /\ "sbom" \in {"sbom", "scan", "provenance"}
        /\ "scan" \in {"sbom", "scan", "provenance"}
        /\ "provenance" \in {"sbom", "scan", "provenance"}
    OBVIOUS
  <2> QED BY <1>2, <2>1, CheckoutUnrefused, IntentUnrefused, ToolsUnrefused, PushUnrefused,
             LookUnrefused, EvidenceUnrefused, ApplyUnrefused, EndsUnrefused, StartUnrefused
          DEF Work
<1> QED BY <1>1, <1>2 DEF Next

\* Whatever generate accepts, however often workspaces are used again and however
\* the builds of the branches interleave, no build is refused by the marker that
\* guards against a second build, nor by the checks of build.sh.
THEOREM NoBuildIsRefused == Spec => []NoForeseenRefusal
<1>1. Init => RefusalInv
  <2> SUFFICES ASSUME Init PROVE RefusalInv
    OBVIOUS
  <2>1. ~model.cache
    BY DEF Init, Accepted, CacheIssues, Flag
  <2>2. \A b \in Branches : build[b] = NoBuild
    BY DEF Init
  <2> QED BY <2>1, <2>2 DEF RefusalInv, NoForeseenRefusal, Unmarked, NoBuild
<1>2. IInv /\ RefusalInv /\ [Next]_vars => RefusalInv'
  BY RefusalInductive
<1>3. RefusalInv => NoForeseenRefusal
  BY DEF RefusalInv
<1> QED BY <1>1, <1>2, <1>3, AlwaysIInv, PTL DEF Spec
=============================================================================
