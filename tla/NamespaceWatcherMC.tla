-------------------------- MODULE NamespaceWatcherMC --------------------------
(* Instances of NamespaceWatcher for TLC. *)
EXTENDS NamespaceWatcher, TLC

CONSTANTS n1, n2, w1, w2, w3

(* Enough labels for both answers under both behaviours, with and without a *)
(* label.                                                                  *)
FewLabels == {NoLabel, "true", "false"}

MapSymmetry == Permutations(Crds) \cup Permutations(Namespaces)
=============================================================================
