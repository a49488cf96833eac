---------------------------- MODULE ChaosMonkeyMC ----------------------------
(* An instance of ChaosMonkey for TLC: one namespace that comes and goes,   *)
(* allowed under one behaviour and ignored under the other. A second slot   *)
(* would stay empty: while a CRD watcher lives its metrics are registered,  *)
(* and the namespace gets no other.                                        *)
EXTENDS ChaosMonkey

CONSTANTS n1, w1
=============================================================================
