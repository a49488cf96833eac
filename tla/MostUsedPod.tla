------------------------------ MODULE MostUsedPod ------------------------------
(***************************************************************************)
(* How the antiPressure monkey chooses its victim: getMostUsedPod and the  *)
(* binary tree it fills (internal/watcher/antihpa.go). The containers of   *)
(* all the pods are visited in the order the metrics list them; the pod of *)
(* the rightmost node is the one.                                          *)
(***************************************************************************)
EXTENDS Naturals, Sequences

CONSTANTS Pods,          \* names of the pods
          Usages,        \* CPU usages, in thousandths of a core
          MaxContainers, \* bound: containers in the list
          None,          \* no node, or no pod yet
          NoPod          \* the empty name, which is returned with an error

Container == [pod : Pods, cpu : Usages]

VARIABLES items,  \* the containers of the PodMetricsList
          next,   \* the position of the next one to visit
          tree,   \* the root of the tree, or None
          nodes,  \* the nodes there are, by the position they were made for
          at,     \* where insert or getMostUsedCpu is, or None
          chosen  \* the pod that is returned

vars == <<items, next, tree, nodes, at, chosen>>

Init ==
  /\ items \in UNION {[1 .. n -> Container] : n \in 0 .. MaxContainers}
  /\ next = 1
  /\ tree = None
  /\ nodes = [i \in {} |-> None]
  /\ at = None
  /\ chosen = None

-----------------------------------------------------------------------------

(* Quantity.AsInt64 of apimachinery, for a quantity in canonical form, as   *)
(* the API server sends it: whole numbers of cores only. (Memory is counted *)
(* in bytes, which always are whole numbers.)                              *)
IsInt64(cpu) == cpu % 1000 = 0

AsInt64(cpu) == cpu \div 1000

(* newNode *)
Node(c) == [pod |-> c.pod, cpu |-> AsInt64(c.cpu), left |-> None, right |-> None]

(* The nodes ns, and the one for the next container. *)
WithNew(ns) == [i \in DOMAIN ns \cup {next} |->
                  IF i = next THEN Node(items[next]) ELSE ns[i]]

(* Mutant: equal usages go to the left. *)
EqualGoesLeft(c, n) == AsInt64(c.cpu) <= n.cpu

GoesLeft(c, n) == AsInt64(c.cpu) < n.cpu

(* Where insert goes on with the next container. *)
Child == IF GoesLeft(items[next], nodes[at]) THEN nodes[at].left ELSE nodes[at].right

(* The node insert was called on, with the next container for a child. *)
Parent == IF GoesLeft(items[next], nodes[at]) THEN [nodes[at] EXCEPT !.left = next]
                                              ELSE [nodes[at] EXCEPT !.right = next]

Visits == next <= Len(items) /\ IsInt64(items[next].cpu)

(* The first one. *)
Plant ==
  /\ Visits
  /\ tree = None
  /\ tree' = next
  /\ nodes' = WithNew(nodes)
  /\ next' = next + 1
  /\ UNCHANGED <<items, at, chosen>>

(* insert is called on the root. *)
Visit ==
  /\ Visits
  /\ tree # None
  /\ at = None /\ at' = tree
  /\ UNCHANGED <<items, next, tree, nodes, chosen>>

(* It calls itself on a child, *)
Descend ==
  /\ Visits
  /\ at # None
  /\ Child # None /\ at' = Child
  /\ UNCHANGED <<items, next, tree, nodes, chosen>>

(* until there is none: what it makes becomes the child.                    *)
Attach ==
  /\ Visits
  /\ at # None /\ at' = None
  /\ Child = None
  /\ nodes' = WithNew([nodes EXCEPT ![at] = Parent])
  /\ next' = next + 1
  /\ UNCHANGED <<items, tree, chosen>>

(* Only a warning. *)
Skip ==
  /\ next <= Len(items)
  /\ ~IsInt64(items[next].cpu)
  /\ next' = next + 1
  /\ UNCHANGED <<items, tree, nodes, at, chosen>>

(* Mutant: one step to the right only. *)
OneToTheRight(i) == i # tree \/ nodes[i].right = None

Rightmost(i) == nodes[i].right = None

(* getMostUsedCpu is called on the root, and calls itself on the right. *)
GoRight ==
  /\ next = Len(items) + 1
  /\ chosen = None
  /\ \/ at = None /\ tree # None /\ at' = tree
     \/ at # None /\ ~Rightmost(at) /\ at' = nodes[at].right
  /\ UNCHANGED <<items, next, tree, nodes, chosen>>

Choose ==
  /\ next = Len(items) + 1
  /\ chosen = None
  /\ at' = None
  /\ \/ tree = None /\ chosen' = NoPod
     \/ at # None /\ Rightmost(at) /\ chosen' = nodes[at].pod
  /\ UNCHANGED <<items, next, tree, nodes>>

Next == Plant \/ Visit \/ Descend \/ Attach \/ Skip \/ GoRight \/ Choose

Spec == Init /\ [][Next]_vars

-----------------------------------------------------------------------------
(* Properties. *)

(* The nodes that hang from i, itself included, or from nothing: the least  *)
(* set that has i, and the children of all it has.                         *)
HasChildren(S) == \A i \in S : {nodes[i].left, nodes[i].right} \subseteq S \cup {None}

Subtree(i) == {j \in DOMAIN nodes : \A S \in SUBSET DOMAIN nodes :
                 i \in S \cup {None} /\ HasChildren(S) => j \in S}

(* The tree is a search tree of the containers visited so far: each hangs   *)
(* from the root, what is to the left of a node uses less, and what is to   *)
(* the right uses as much or more and was visited later.                   *)
TreeIsSorted ==
  /\ DOMAIN nodes = {i \in 1 .. next - 1 : IsInt64(items[i].cpu)}
  /\ \A i \in DOMAIN nodes :
       /\ nodes[i].pod = items[i].pod /\ nodes[i].cpu = AsInt64(items[i].cpu)
       /\ i \in Subtree(tree)
       /\ \A j \in Subtree(nodes[i].left) : nodes[j].cpu < nodes[i].cpu
       /\ \A j \in Subtree(nodes[i].right) : nodes[j].cpu >= nodes[i].cpu /\ j > i

(* Of the usages it looks at, it returns the last of the highest ones, and  *)
(* the empty name only if there are none.                                  *)
ChoosesLastHighest ==
  chosen # None =>
    LET whole == {i \in DOMAIN items : IsInt64(items[i].cpu)}
    IN  \/ whole = {} /\ chosen = NoPod
        \/ \E i \in whole :
             /\ chosen = items[i].pod
             /\ \A j \in whole : \/ items[j].cpu < items[i].cpu
                                 \/ items[j].cpu = items[i].cpu /\ j <= i

(* README.md:108-109: it is the pod using the most CPU that is killed. A    *)
(* pod is overlooked unless it uses a whole number of cores.               *)
ChoosesHighest ==
  chosen # None /\ items # <<>> =>
    \E i \in DOMAIN items :
      /\ chosen = items[i].pod
      /\ \A j \in DOMAIN items : items[j].cpu <= items[i].cpu
=============================================================================
