----------------------------- MODULE PodWatcherMC -----------------------------
(* Instances of PodWatcher for TLC. *)
EXTENDS PodWatcher, TLC

CONSTANTS p1, p2

PodSymmetry == Permutations(Pods)
=============================================================================
