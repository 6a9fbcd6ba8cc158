------------------------------- MODULE MCJobs -------------------------------
(* One job, two reloads, and a bounded number of objects and edits. *)
EXTENDS JobControl, TLC

Symmetry == Permutations(Run) \cup Permutations(Reload)
=============================================================================
