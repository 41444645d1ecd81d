---------------------------- MODULE MCSupplyChain ----------------------------
(***************************************************************************)
(* Instance of SupplyChain: two plain images and an index, two versions of *)
(* the tools, and a database that learns of a vulnerability between its    *)
(* two versions.                                                           *)
(***************************************************************************)
EXTENDS SupplyChain

Finding(id, severity, fixed) ==
    [id |-> id, package |-> "libc", severity |-> severity, fixed |-> fixed]
Known == [ignored |-> Finding("v1", "HIGH", FALSE),
          allowed |-> Finding("v2", "CRITICAL", TRUE),
          counted |-> Finding("v3", "HIGH", TRUE)]

\* The newer database also knows v3, in the image b only.
MCFindings ==
    [v \in {1, 2} |-> [d \in {"a", "b", "i"} |->
        {Known.ignored, Known.allowed}
        \cup IF v = 2 /\ d = "b" THEN {Known.counted} ELSE {}]]
MCPolicy ==
    [severities |-> {"HIGH", "CRITICAL"}, maximum |-> 0, ignoreUnfixed |-> TRUE,
     allowlist |-> {[id |-> "v2", package |-> "libc", expires |-> 1]}]

\* The policy accepts and refuses something of this instance, by its findings
\* and by the date.
ASSUME PolicyIsDecisive ==
    /\ PolicyPasses(MCFindings[1]["b"], MCPolicy, 1)
    /\ ~PolicyPasses(MCFindings[2]["b"], MCPolicy, 1)
    /\ ~PolicyPasses(MCFindings[1]["b"], MCPolicy, 2)
\* A threshold that fails on more refuses more.
ASSUME ThresholdsAreOrdered ==
    \A findings \in SUBSET {Finding("v", s, fixed) : s \in Severities, fixed \in BOOLEAN} :
        LET passes(failOn) == PolicyPasses(findings, Threshold(failOn), 1) IN
        /\ passes("medium") => passes("high")
        /\ passes("high") => passes("critical")
        /\ passes("critical") => passes("never")
=============================================================================
