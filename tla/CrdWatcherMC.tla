---------------------------- MODULE CrdWatcherMC ----------------------------
(* Instances of CrdWatcher for TLC. *)
EXTENDS CrdWatcher, TLC

CONSTANTS c1, c2, d1, d2, m1, m2, m3

SpecsOf(deps, modes, flags) == [dep : deps, mode : modes, enabled : flags]

(* One CMC that changes between two modes: the watcher of one unregisters   *)
(* its metrics in Stop already, that of the other in Close only.           *)
DesiredOne == [c \in Cmcs |-> SpecsOf({d1}, {"randomScale", "killPod"}, {TRUE})]

(* One CMC that changes between a mode whose monkey can lose a Stop, and    *)
(* one whose monkey can fall asleep when it is disabled.                   *)
DesiredLive == [c \in Cmcs |-> SpecsOf({d1}, {"randomScale"}, {TRUE})
                               \cup SpecsOf({d1}, {"antiPressure"}, BOOLEAN)]

(* Every CMC may have every mode: CMCs that share a deployment meet, and so *)
(* do the three ways metrics are unregistered, in Stop, in Close or never.  *)
DesiredShared == [c \in Cmcs |-> SpecsOf({d1}, Modes, {TRUE})]

(* One CMC whose monkey is always an AntiHPAWatcher. *)
DesiredPressure == [c \in Cmcs |-> SpecsOf({d1}, {"antiPressure"}, {TRUE})]

(* One CMC that may be moved from one deployment to another. *)
DesiredMoving == [c \in Cmcs |-> SpecsOf({d1, d2}, {"randomScale"}, {TRUE})]

MonkeySymmetry == Permutations(Monkeys)
=============================================================================
