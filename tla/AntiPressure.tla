----------------------------- MODULE AntiPressure -----------------------------
(***************************************************************************)
(* The whole tick of the antiPressure monkey (internal/watcher/antihpa.go):*)
(* the loop of AntiHPAWatcher, in which the answer of the metrics server   *)
(* goes through MostUsedPod before the pod it names is deleted. The caller *)
(* and the cluster go on in the meantime. A step is a step of the loop, or *)
(* leaves the variables of the loop alone.                                 *)
(***************************************************************************)
EXTENDS AntiHPAWatcher, Sequences

CONSTANTS Usages,        \* CPU usages, in thousandths of a core
          MaxContainers, \* bound: containers in the answer
          None           \* no node, or no pod yet

ASSUME UsageAssumption == /\ Usages \subseteq Nat /\ MaxContainers \in Nat
                          /\ None \notin Nat \cup Pods \cup {NoPod}

VARIABLES items, next, tree, nodes, at, chosen \* of getMostUsedPod

choice == <<items, next, tree, nodes, at, chosen>>
tick   == <<vars, choice>>

Choice == INSTANCE MostUsedPod

(* Outside the call they have no values. *)
TickInit == /\ Init
            /\ items = <<>> /\ next = 1 /\ chosen = None
            /\ tree = None /\ nodes = [i \in {} |-> None] /\ at = None

-----------------------------------------------------------------------------

(* The metrics server answers with what it last saw, which need not be the  *)
(* pods there are, and getMostUsedPod is called with it.                   *)
Answer ==
  /\ ListSucceeds
  /\ \E n \in 0 .. MaxContainers : items' \in [1 .. n -> Choice!Container]
  /\ UNCHANGED <<next, tree, nodes, at, chosen>>

(* A step of getMostUsedPod. *)
Chooses ==
  /\ pc = "delete"
  /\ Choice!Next
  /\ UNCHANGED vars

(* It has returned, and what it returned is deleted. *)
Deletes ==
  /\ chosen # None
  /\ Delete(chosen)
  /\ items' = <<>> /\ next' = 1 /\ chosen' = None
  /\ tree' = None /\ nodes' = [i \in {} |-> None] /\ at' = None

Tick == \/ Answer
        \/ Chooses
        \/ Deletes
        \/ Turn /\ UNCHANGED choice

TickNext == Tick \/ (Outside /\ UNCHANGED choice)

(* As for AntiHPAWatcher. *)
TickSpec == /\ TickInit /\ [][TickNext]_tick
            /\ WF_tick(Tick) /\ SF_tick(SelectContext /\ UNCHANGED choice)

-----------------------------------------------------------------------------
(* Properties, besides those of AntiHPAWatcher. *)

(* The tree is a search tree of the containers visited so far: each hangs   *)
(* from the root, what is to the left of a node uses less, and what is to   *)
(* the right uses as much or more and was visited later.                   *)
TreeIsSorted == Choice!TreeIsSorted

(* Of the usages it looks at, it returns the last of the highest ones, and  *)
(* the empty name only if there are none.                                  *)
ChoosesLastHighest == Choice!ChoosesLastHighest
=============================================================================
