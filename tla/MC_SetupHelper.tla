---------------------------- MODULE MC_SetupHelper ----------------------------
(* Symmetry for model checking SetupHelper: processes are interchangeable.   *)
EXTENDS SetupHelper, TLC

Processes == Permutations(Helper) \cup Permutations(Worker)

=============================================================================
