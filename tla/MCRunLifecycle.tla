--------------------------- MODULE MCRunLifecycle ---------------------------
(* RunLifecycle with reconcilers that are interchangeable: for the runs that *)
(* check safety only.                                                        *)
EXTENDS RunLifecycle, TLC

Symmetry == Permutations(Reconcilers)
=============================================================================
