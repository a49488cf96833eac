------------------------- MODULE DeploymentWatcherMC -------------------------
(* Instances of DeploymentWatcher for TLC. *)
EXTENDS DeploymentWatcher

Between(min, max) == [enabled |-> TRUE, min |-> min, max |-> max]

(* Two ranges apart from each other, and a disabled configuration. *)
ApartConfigs == {Between(0, 1), Between(3, 4), [Between(3, 4) EXCEPT !.enabled = FALSE]}
=============================================================================
