------------------------- MODULE MCManagedResolver -------------------------
(* The symmetry sets TLC may use when it checks the safety of              *)
(* ManagedResolver and of the reads of its cache.                          *)
EXTENDS ManagedReads, TLC

Symmetry ==
    Permutations(Names) \cup Permutations(Callers)
        \cup Permutations(Resolvers) \cup Permutations(Services)
=============================================================================
