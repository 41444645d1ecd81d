---------------------------- MODULE RunLifecycle ----------------------------
(***************************************************************************)
(* What the durable journal of a run promises to whoever reads it: a run   *)
(* starts once, reaches exactly one outcome, may be cleaned after it, and  *)
(* never leaves an outcome it has reported.  ExecutionJournal implements   *)
(* this with a state file and thirteen intermediate states.                *)
(***************************************************************************)

VARIABLES
    phase,      \* where the run is
    outcome     \* what it reported, "none" while it is undecided

vars == <<phase, outcome>>

Outcomes == {"none", "succeeded", "failed"}

Init == phase = "absent" /\ outcome = "none"

\* The run's directory holds a journal for the first time.
Begin ==
    /\ phase = "absent"
    /\ phase' = "running"
    /\ UNCHANGED outcome

\* The run reports its one outcome.
Decide ==
    /\ phase = "running"
    /\ phase' = "decided"
    /\ outcome' \in Outcomes \ {"none"}

\* The run's resources are gone; the outcome stays what it was.
Clean ==
    /\ phase = "decided"
    /\ phase' = "cleaned"
    /\ UNCHANGED outcome

Next == Begin \/ Decide \/ Clean

Spec == Init /\ [][Next]_vars
=============================================================================
