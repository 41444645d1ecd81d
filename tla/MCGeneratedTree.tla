--------------------------- MODULE MCGeneratedTree ---------------------------
(***************************************************************************)
(* A small instance of GeneratedTree: the Kubernetes template, whose       *)
(* archive wants HEAD unmoved, and the Jenkins template, whose archive     *)
(* does not.                                                               *)
(***************************************************************************)
EXTENDS GeneratedTree

MCKeyOrder == <<"jenkins", "kubernetes">>
MCOrigins == <<"cli", "default-local">>
MCPackaged == [k \in Keys |-> "c1"]
MCEditedLocks == {MCPackaged, [MCPackaged EXCEPT !["kubernetes"] = "c2"]}
MCLicense == [c \in Commits |-> IF c = "c3" THEN "other" ELSE "mit"]
MCModel == [c \in Configs |-> IF c = "k3" THEN "m2" ELSE "m1"]
MCPaths == <<"Jenkinsfile", "configmap", "context">>
MCPathsOf == [m1 |-> {"Jenkinsfile", "context"}, m2 |-> {"Jenkinsfile", "configmap", "context"}]
MCTemplate == ("Jenkinsfile" :> "jenkins") @@ ("configmap" :> None) @@ ("context" :> "kubernetes")

Nowhere == [o \in {"cli", "default-local"} |-> [k \in {"jenkins", "kubernetes"} |-> None]]
MCCheckouts == {Nowhere, [Nowhere EXCEPT !["default-local"] = MCPackaged]}

Op(name, force) == [name |-> name, force |-> force, build |-> FALSE]
MCOps ==
    {Op("generate", FALSE), Op("generate", TRUE), Op("validate", FALSE),
     [Op("generate", FALSE) EXCEPT !.build = TRUE]}

AllOk == [command \in Commands |-> "ok"]
MCHosts == {AllOk, [AllOk EXCEPT !["renderedBundle"] = "odd"]}

\* A project without a lock and without checkouts, where nothing was generated
\* yet; and one with both, after its first generate.
MCInit ==
    /\ Init
    /\ config = "k1" /\ host = AllOk
    /\ IF lock = None THEN manifest = None /\ head = Nowhere
       ELSE manifest # None /\ head # Nowhere
MCSpec == MCInit /\ [][Next]_vars
Symmetry == Permutations(Procs)
=============================================================================
