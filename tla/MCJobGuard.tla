------------------------------ MODULE MCJobGuard ------------------------------
(* Small instances of JobGuard for TLC.                                    *)
EXTENDS JobGuard, TLC

Symmetry == Permutations(Threads) \cup Permutations(Entries) \cup Permutations(Functions)
=============================================================================
