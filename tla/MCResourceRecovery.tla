------------------------- MODULE MCResourceRecovery -------------------------
(* Instances of ResourceRecovery for TLC. *)
EXTENDS ResourceRecovery, TLC

\* Container IDs are opaque to the code, and so are concurrent cleanups.
Symmetry == Permutations(Ids) \cup Permutations(Cleaners)
=============================================================================
