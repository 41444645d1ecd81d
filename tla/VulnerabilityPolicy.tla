------------------------- MODULE VulnerabilityPolicy -------------------------
(***************************************************************************)
(* What a vulnerability policy makes of the findings of one scan on one    *)
(* day (policies.py), and the policy a configuration stands for            *)
(* (execution.py).                                                         *)
(*                                                                         *)
(* A finding has an identity of its own: a scan may report one             *)
(* vulnerability of one package in several places, and each report counts. *)
(***************************************************************************)
EXTENDS Naturals, FiniteSets

Severities == {"UNKNOWN", "NEGLIGIBLE", "LOW", "MEDIUM", "HIGH", "CRITICAL"}

Expired(policy, day) == {entry \in policy.allowlist : entry.expires < day}
Active(policy, day) == {entry \in policy.allowlist : entry.expires >= day}

Unrated(findings) == {f \in findings : f.severity \notin Severities}
Matching(findings, policy) == {f \in findings : f.severity \in Severities \cap policy.severities}
Ignored(f, policy) == policy.ignoreUnfixed /\ ~f.fixed
Allowed(f, policy, day) ==
    \E entry \in Active(policy, day) : entry.id = f.id /\ entry.package = f.package
Violating(findings, policy, day) ==
    {f \in Matching(findings, policy) : ~Ignored(f, policy) /\ ~Allowed(f, policy, day)}

PolicyPasses(findings, policy, day) ==
    /\ Cardinality(Violating(findings, policy, day)) <= policy.maximum
    /\ Expired(policy, day) = {}
    /\ Unrated(findings) = {}

\* The older form of a policy names a threshold; `never` counts only findings
\* of unknown severity, and accepts 2^31 - 1 of them.
Threshold(failOn) ==
    [severities |-> CASE failOn = "critical" -> {"CRITICAL"}
                      [] failOn = "high" -> {"HIGH", "CRITICAL"}
                      [] failOn = "medium" -> {"MEDIUM", "HIGH", "CRITICAL"}
                      [] failOn = "never" -> {"UNKNOWN"},
     maximum |-> IF failOn = "never" THEN 2147483647 ELSE 0,
     ignoreUnfixed |-> FALSE,
     allowlist |-> {}]
=============================================================================
