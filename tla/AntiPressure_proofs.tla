-------------------------- MODULE AntiPressure_proofs --------------------------
(***************************************************************************)
(* Proofs about AntiPressure, for any pods, any usages and any number of   *)
(* containers: the choice of the pod, and the tick around it.              *)
(***************************************************************************)
EXTENDS AntiPressure, AntiHPAWatcher_proofs, SequenceTheorems

USE UsageAssumption

(* The CPU usage of container i, as the tree has it. *)
Use(i) == Choice!AsInt64(items[i].cpu)

(* The nodes older than i send j to the side they send i to. *)
Follows(j, i) == \A k \in DOMAIN nodes : k < i => (Use(j) < Use(k) <=> Use(i) < Use(k))

LeftOf(i)  == {j \in DOMAIN nodes : i < j /\ Follows(j, i) /\ Use(j) < Use(i)}
RightOf(i) == {j \in DOMAIN nodes : i < j /\ Follows(j, i) /\ Use(i) <= Use(j)}

IsOldest(i, S) == IF i = None THEN S = {} ELSE i \in S /\ \A j \in S : i <= j

-----------------------------------------------------------------------------
(* The invariant. Where a node hangs is decided by the older nodes alone:  *)
(* what insert finds on the left (right) of a node is the oldest of those  *)
(* that followed it so far and use less (as much or more).                 *)

ANode == [pod : Pods, cpu : Nat, left : Nat \cup {None}, right : Nat \cup {None}]

Typed ==
  /\ items \in Seq(Choice!Container)
  /\ next \in 1 .. Len(items) + 1
  /\ DOMAIN nodes = {i \in 1 .. next - 1 : Choice!IsInt64(items[i].cpu)}
  /\ nodes \in [DOMAIN nodes -> ANode]
  /\ \A i \in DOMAIN nodes : nodes[i].pod = items[i].pod /\ nodes[i].cpu = Use(i)
  /\ at \in DOMAIN nodes \cup {None}

Hanging ==
  /\ IsOldest(tree, DOMAIN nodes)
  /\ \A i \in DOMAIN nodes : /\ IsOldest(nodes[i].left, LeftOf(i))
                             /\ IsOldest(nodes[i].right, RightOf(i))

(* A set of nodes is all of them, if it has the root and their children. *)
Whole == \A S \in SUBSET DOMAIN nodes :
           tree \in S \cup {None} /\ Choice!HasChildren(S) => S = DOMAIN nodes

(* insert is at a node that the new one follows. *)
Inserting ==
  at # None /\ next <= Len(items) =>
    Choice!IsInt64(items[next].cpu) /\ Follows(next, at)

(* The last of the highest is at getMostUsedCpu's node, or follows it. *)
Searching ==
  at # None /\ next = Len(items) + 1 =>
    \A i \in DOMAIN nodes : \/ at <= i /\ Follows(i, at)
                            \/ Use(i) < Use(at)
                            \/ Use(i) = Use(at) /\ i < at

Returned ==
  chosen # None => /\ chosen \in Pods \cup {NoPod}
                   /\ at = None
                   /\ next = Len(items) + 1
                   /\ ChoosesLastHighest

ChoiceInv == Typed /\ Hanging /\ Whole /\ Inserting /\ Searching /\ Returned

(* getMostUsedPod runs between the answer and the deletion. *)
Idle == /\ items = <<>> /\ next = 1 /\ chosen = None
        /\ tree = None /\ nodes = [i \in {} |-> None] /\ at = None

TickInv == IInv /\ ChoiceInv /\ (pc # "delete" => Idle)
-----------------------------------------------------------------------------
(* The order of the nodes. *)

LEMMA UseIsNat == Typed => \A i \in 1 .. Len(items) : Use(i) \in Nat
<1> SUFFICES ASSUME Typed, NEW i \in 1 .. Len(items) PROVE Use(i) \in Nat
  OBVIOUS
<1>1. items[i] \in Choice!Container
  BY ElementOfSeq DEF Typed
<1>2. items[i].cpu \in Nat
  BY <1>1 DEF Choice!Container
<1> QED BY <1>2 DEF Use, Choice!AsInt64

LEMMA NodesArePositions == Typed => /\ DOMAIN nodes \subseteq 1 .. Len(items)
                                    /\ \A i \in DOMAIN nodes : i < next
  BY DEF Typed

(* A container that follows node i to the left follows what hangs there,    *)
(* and likewise to the right.                                              *)
LEMMA FollowsOn ==
  ASSUME Typed, Hanging,
         NEW i \in DOMAIN nodes, NEW j \in 1 .. Len(items), Follows(j, i),
         NEW c \in DOMAIN nodes,
         \/ c = nodes[i].left /\ Use(j) < Use(i)
         \/ c = nodes[i].right /\ Use(i) <= Use(j)
  PROVE  Follows(j, c) /\ i < c
<1> USE UseIsNat, NodesArePositions
<1>0. c # None
  OBVIOUS
<1>1. CASE c = nodes[i].left /\ Use(j) < Use(i)
  <2>1. c \in LeftOf(i) /\ \A k \in LeftOf(i) : c <= k
    BY <1>0, <1>1 DEF Hanging, IsOldest
  <2>2. ASSUME NEW k \in DOMAIN nodes, k < c
        PROVE  Use(j) < Use(k) <=> Use(c) < Use(k)
    <3>1. CASE k <= i
      BY <1>1, <2>1, <2>2, <3>1 DEF LeftOf, Follows
    <3>2. CASE i < k /\ Use(i) <= Use(k)
      BY <1>1, <2>1, <3>2 DEF LeftOf
    <3>3. CASE i < k /\ ~Follows(k, i)
      <4>1. PICK l \in DOMAIN nodes : l < i /\ ~(Use(k) < Use(l) <=> Use(i) < Use(l))
        BY <3>3 DEF Follows
      <4>2. /\ Use(j) < Use(l) <=> Use(i) < Use(l)
            /\ Use(c) < Use(l) <=> Use(i) < Use(l)
        BY <2>1, <4>1 DEF LeftOf, Follows
      <4> QED BY <4>1, <4>2
    <3> QED BY <2>1, <2>2, <3>1, <3>2, <3>3 DEF LeftOf
  <2> QED BY <2>1, <2>2 DEF Follows, LeftOf
<1>2. CASE c = nodes[i].right /\ Use(i) <= Use(j)
  <2>1. c \in RightOf(i) /\ \A k \in RightOf(i) : c <= k
    BY <1>0, <1>2 DEF Hanging, IsOldest
  <2>2. ASSUME NEW k \in DOMAIN nodes, k < c
        PROVE  Use(j) < Use(k) <=> Use(c) < Use(k)
    <3>1. CASE k <= i
      BY <1>2, <2>1, <2>2, <3>1 DEF RightOf, Follows
    <3>2. CASE i < k /\ Use(k) < Use(i)
      BY <1>2, <2>1, <3>2 DEF RightOf
    <3>3. CASE i < k /\ ~Follows(k, i)
      <4>1. PICK l \in DOMAIN nodes : l < i /\ ~(Use(k) < Use(l) <=> Use(i) < Use(l))
        BY <3>3 DEF Follows
      <4>2. /\ Use(j) < Use(l) <=> Use(i) < Use(l)
            /\ Use(c) < Use(l) <=> Use(i) < Use(l)
        BY <2>1, <4>1 DEF RightOf, Follows
      <4> QED BY <4>1, <4>2
    <3> QED BY <2>1, <2>2, <3>1, <3>2, <3>3 DEF RightOf
  <2> QED BY <2>1, <2>2 DEF Follows, RightOf
<1> QED BY <1>1, <1>2

-----------------------------------------------------------------------------
(* The next container gets a node. *)

(* What Plant and Attach do to the nodes there are. *)
Grows == /\ Choice!Visits
         /\ next' = next + 1
         /\ DOMAIN nodes' = DOMAIN nodes \cup {next}
         /\ nodes'[next] = Choice!Node(items[next])
         /\ \A i \in DOMAIN nodes : /\ nodes'[i].pod = nodes[i].pod
                                    /\ nodes'[i].cpu = nodes[i].cpu
         /\ items' = items /\ chosen' = chosen /\ at' = None
         /\ nodes' \in [DOMAIN nodes' -> ANode]

LEMMA NodeTyped == Typed /\ next <= Len(items) => Choice!Node(items[next]) \in ANode
<1> SUFFICES ASSUME Typed, next <= Len(items)
             PROVE  Choice!Node(items[next]) \in ANode
  OBVIOUS
<1>1. next \in 1 .. Len(items)
  BY DEF Typed
<1>2. items[next] \in Choice!Container
  BY <1>1, ElementOfSeq DEF Typed
<1>3. items[next].pod \in Pods
  BY <1>2 DEF Choice!Container
<1>4. Choice!AsInt64(items[next].cpu) \in Nat
  BY <1>1, UseIsNat DEF Use
<1> QED BY <1>3, <1>4 DEF Choice!Node, ANode

LEMMA GrowsTyped == Typed /\ Grows => Typed'
<1> SUFFICES ASSUME Typed, Grows PROVE Typed'
  OBVIOUS
<1>1. next \in 1 .. Len(items) /\ Choice!IsInt64(items[next].cpu)
  BY DEF Typed, Grows, Choice!Visits
<1>2. DOMAIN nodes' = {i \in 1 .. next' - 1 : Choice!IsInt64(items'[i].cpu)}
  BY <1>1 DEF Typed, Grows
<1>3. \A i \in DOMAIN nodes' : nodes'[i].pod = items'[i].pod /\ nodes'[i].cpu = Use(i)'
  <2>1. \A i \in DOMAIN nodes : nodes'[i].pod = items'[i].pod /\ nodes'[i].cpu = Use(i)'
    BY DEF Typed, Grows, Use
  <2>2. \A i : i = next => nodes'[i].pod = items'[i].pod /\ nodes'[i].cpu = Use(i)'
    BY DEF Grows, Choice!Node, Use
  <2> QED BY <2>1, <2>2 DEF Grows
<1> QED BY <1>1, <1>2, <1>3 DEF Typed, Grows

(* Nobody follows a node less or more for it, and it is nobody's elder.     *)
LEMMA GrowsOrder ==
  ASSUME Typed, Grows
  PROVE  /\ \A i \in DOMAIN nodes :
              /\ LeftOf(i)' = LeftOf(i) \cup {j \in {next} : Follows(j, i) /\ Use(j) < Use(i)}
              /\ RightOf(i)' = RightOf(i) \cup {j \in {next} : Follows(j, i) /\ Use(i) <= Use(j)}
         /\ \A i : i = next => LeftOf(i)' = {} /\ RightOf(i)' = {}
<1>1. next \in Nat /\ \A i \in DOMAIN nodes : i \in Nat /\ i < next
  BY DEF Typed
<1>2. \A i \in DOMAIN nodes' : i <= next
  BY <1>1 DEF Grows
<1>3. \A i : Use(i)' = Use(i)
  BY DEF Grows, Use
<1>4. ASSUME NEW i \in DOMAIN nodes, NEW j PROVE Follows(j, i)' <=> Follows(j, i)
  BY <1>1, <1>3 DEF Follows, Grows
<1>5. ASSUME NEW i \in DOMAIN nodes
      PROVE  /\ LeftOf(i)' = LeftOf(i) \cup {j \in {next} : Follows(j, i) /\ Use(j) < Use(i)}
             /\ RightOf(i)' = RightOf(i) \cup {j \in {next} : Follows(j, i) /\ Use(i) <= Use(j)}
  <2>1. LeftOf(i)' = {j \in DOMAIN nodes \cup {next} : i < j /\ Follows(j, i) /\ Use(j) < Use(i)}
    BY <1>3, <1>4 DEF LeftOf, Grows
  <2>2. RightOf(i)' = {j \in DOMAIN nodes \cup {next} : i < j /\ Follows(j, i) /\ Use(i) <= Use(j)}
    BY <1>3, <1>4 DEF RightOf, Grows
  <2> QED BY <1>1, <2>1, <2>2 DEF LeftOf, RightOf
<1>6. \A i : i = next => LeftOf(i)' = {} /\ RightOf(i)' = {}
  BY <1>1, <1>2 DEF LeftOf, RightOf, Grows
<1> QED BY <1>5, <1>6
LEMMA PlantGrows == Typed /\ Hanging /\ Choice!Plant =>
                      Grows /\ DOMAIN nodes = {} /\ tree' = next
<1> SUFFICES ASSUME Typed, Hanging, Choice!Plant
             PROVE  Grows /\ DOMAIN nodes = {} /\ tree' = next
  OBVIOUS
<1>1. DOMAIN nodes = {} /\ at = None
  BY DEF Hanging, IsOldest, Choice!Plant, Typed
<1>2. nodes' = [i \in {next} |-> Choice!Node(items[next])]
  BY <1>1 DEF Choice!Plant, Choice!WithNew
<1> QED BY <1>1, <1>2, NodeTyped DEF Grows, Choice!Plant, Choice!Visits

LEMMA PlantInv == ChoiceInv /\ Choice!Plant => ChoiceInv'
<1> SUFFICES ASSUME ChoiceInv, Choice!Plant PROVE ChoiceInv'
  OBVIOUS
<1>1. Grows /\ DOMAIN nodes = {} /\ tree' = next /\ Typed'
  BY PlantGrows, GrowsTyped DEF ChoiceInv
<1>2. /\ DOMAIN nodes' = {next} /\ next \in Nat
      /\ nodes'[next].left = None /\ nodes'[next].right = None
  BY <1>1 DEF Grows, Choice!Node, ChoiceInv, Typed
<1>3. Hanging'
  BY <1>1, <1>2, GrowsOrder DEF Hanging, IsOldest, ChoiceInv
<1>4. Whole'
  BY <1>1, <1>2 DEF Whole
<1>5. Inserting' /\ Searching'
  BY <1>1 DEF Grows, Inserting, Searching
<1>6. chosen' = None
  BY <1>1 DEF Grows, ChoiceInv, Returned, Choice!Plant, Choice!Visits, Typed
<1> QED BY <1>1, <1>3, <1>4, <1>5, <1>6 DEF ChoiceInv, Returned
(* The children of the nodes, once the next container hangs from at.        *)
LEMMA AttachGrows ==
  ASSUME Typed, Hanging, Choice!Attach
  PROVE  /\ Grows /\ tree' = tree /\ at \in DOMAIN nodes
         /\ \A i \in DOMAIN nodes :
              /\ i # at \/ Use(at) <= Use(next) => nodes'[i].left = nodes[i].left
              /\ i # at \/ Use(next) < Use(at) => nodes'[i].right = nodes[i].right
         /\ Use(next) < Use(at) => nodes[at].left = None /\ nodes'[at].left = next
         /\ Use(at) <= Use(next) => nodes[at].right = None /\ nodes'[at].right = next
<1>1. at \in DOMAIN nodes /\ next \notin DOMAIN nodes /\ next \in 1 .. Len(items)
  BY DEF Typed, Choice!Attach, Choice!Visits
<1>2. Use(at) \in Nat /\ Use(next) \in Nat
  BY <1>1, UseIsNat, NodesArePositions
<1>3. Choice!GoesLeft(items[next], nodes[at]) <=> Use(next) < Use(at)
  BY <1>1 DEF Choice!GoesLeft, Use, Typed
<1>4. /\ DOMAIN nodes' = DOMAIN nodes \cup {next}
      /\ nodes'[next] = Choice!Node(items[next])
      /\ nodes'[at] = Choice!Parent
      /\ \A i \in DOMAIN nodes \ {at} : nodes'[i] = nodes[i]
      /\ nodes' = [i \in DOMAIN nodes \cup {next} |-> nodes'[i]]
      /\ Choice!Child = None /\ tree' = tree
  BY <1>1 DEF Choice!Attach, Choice!WithNew
<1>5. (\A i \in DOMAIN nodes : nodes[i] \in ANode) /\ Choice!Node(items[next]) \in ANode
  BY <1>1, NodeTyped DEF Typed
<1>6. CASE Use(next) < Use(at)
  <2>1. Choice!Parent = [nodes[at] EXCEPT !.left = next] /\ Choice!Child = nodes[at].left
    BY <1>3, <1>6 DEF Choice!Parent, Choice!Child
  <2>2. /\ Choice!Parent.left = next /\ Choice!Parent.right = nodes[at].right
        /\ Choice!Parent.pod = nodes[at].pod /\ Choice!Parent.cpu = nodes[at].cpu
        /\ Choice!Parent \in ANode
    BY <1>1, <1>5, <2>1 DEF ANode
  <2>3. nodes' \in [DOMAIN nodes' -> ANode]
    BY <1>1, <1>4, <1>5, <2>2
  <2>4. Grows
    <3>1. \A i \in DOMAIN nodes : nodes'[i].pod = nodes[i].pod /\ nodes'[i].cpu = nodes[i].cpu
      BY <1>4, <2>2
    <3> QED BY <1>4, <2>3, <3>1 DEF Grows, Choice!Attach
  <2>5. ~(Use(at) <= Use(next))
    BY <1>2, <1>6
  <2> QED BY <1>1, <1>4, <1>6, <2>1, <2>2, <2>4, <2>5
<1>7. CASE Use(at) <= Use(next)
  <2>1. Choice!Parent = [nodes[at] EXCEPT !.right = next] /\ Choice!Child = nodes[at].right
    BY <1>2, <1>3, <1>7 DEF Choice!Parent, Choice!Child
  <2>2. /\ Choice!Parent.right = next /\ Choice!Parent.left = nodes[at].left
        /\ Choice!Parent.pod = nodes[at].pod /\ Choice!Parent.cpu = nodes[at].cpu
        /\ Choice!Parent \in ANode
    BY <1>1, <1>5, <2>1 DEF ANode
  <2>3. nodes' \in [DOMAIN nodes' -> ANode]
    BY <1>1, <1>4, <1>5, <2>2
  <2>4. Grows
    <3>1. \A i \in DOMAIN nodes : nodes'[i].pod = nodes[i].pod /\ nodes'[i].cpu = nodes[i].cpu
      BY <1>4, <2>2
    <3> QED BY <1>4, <2>3, <3>1 DEF Grows, Choice!Attach
  <2>5. ~(Use(next) < Use(at))
    BY <1>2, <1>7
  <2> QED BY <1>1, <1>4, <1>7, <2>1, <2>2, <2>4, <2>5
<1> QED BY <1>2, <1>6, <1>7

(* Only the node that insert ended at lacks the child that the next         *)
(* container would be.                                                     *)
LEMMA OneVacancy ==
  ASSUME Typed, Hanging, Inserting, Choice!Attach,
         NEW i \in DOMAIN nodes, i # at, Follows(next, i)
  PROVE  /\ Use(next) < Use(i) => nodes[i].left # None
         /\ Use(i) <= Use(next) => nodes[i].right # None
<1>1. at \in DOMAIN nodes /\ next \in 1 .. Len(items) /\ Follows(next, at)
  BY DEF Typed, Inserting, Choice!Attach, Choice!Visits
<1>2. /\ Use(next) \in Nat /\ \A k \in DOMAIN nodes : Use(k) \in Nat
      /\ DOMAIN nodes \subseteq Nat
  BY <1>1, UseIsNat, NodesArePositions
<1>3. CASE i < at
  <2>1. Follows(at, i) /\ (Use(next) < Use(i) <=> Use(at) < Use(i))
    BY <1>1, <1>2, <1>3 DEF Follows
  <2>2. IF Use(next) < Use(i) THEN at \in LeftOf(i) ELSE at \in RightOf(i)
    BY <1>1, <1>2, <1>3, <2>1 DEF LeftOf, RightOf
  <2> QED BY <1>2, <2>2 DEF Hanging, IsOldest
<1>4. CASE at < i
  <2>1. Follows(i, at) /\ (Use(next) < Use(at) <=> Use(i) < Use(at))
    BY <1>1, <1>2, <1>4 DEF Follows
  <2>2. IF Use(next) < Use(at) THEN i \in LeftOf(at) ELSE i \in RightOf(at)
    BY <1>1, <1>2, <1>4, <2>1 DEF LeftOf, RightOf
  <2>3. Use(next) < Use(at) => nodes[at].left = None
    BY AttachGrows
  <2>4. Use(at) <= Use(next) => nodes[at].right = None
    BY AttachGrows
  <2> QED BY <1>1, <1>2, <2>2, <2>3, <2>4 DEF Hanging, IsOldest
<1> QED BY <1>1, <1>2, <1>3, <1>4

LEMMA AttachHanging == ChoiceInv /\ Choice!Attach => Hanging'
<1> SUFFICES ASSUME ChoiceInv, Choice!Attach PROVE Hanging'
  OBVIOUS
<1> USE DEF ChoiceInv
<1>1. /\ Grows /\ tree' = tree /\ at \in DOMAIN nodes
      /\ \A i \in DOMAIN nodes :
           /\ i # at \/ Use(at) <= Use(next) => nodes'[i].left = nodes[i].left
           /\ i # at \/ Use(next) < Use(at) => nodes'[i].right = nodes[i].right
      /\ Use(next) < Use(at) => nodes[at].left = None /\ nodes'[at].left = next
      /\ Use(at) <= Use(next) => nodes[at].right = None /\ nodes'[at].right = next
  BY AttachGrows
<1>2. /\ DOMAIN nodes' = DOMAIN nodes \cup {next} /\ next \in Nat
      /\ \A i \in DOMAIN nodes : i \in Nat /\ i < next
      /\ next \in 1 .. Len(items) /\ Follows(next, at)
  <2>1. next \in 1 .. Len(items) /\ \A i \in DOMAIN nodes : i \in Nat /\ i < next
    BY DEF Typed, Choice!Attach, Choice!Visits
  <2>2. Follows(next, at)
    BY <1>1, <2>1 DEF Inserting, Choice!Attach, Typed
  <2> QED BY <1>1, <2>1, <2>2 DEF Grows
<1>3. Use(next) \in Nat /\ \A k \in DOMAIN nodes : Use(k) \in Nat
  BY <1>2, UseIsNat, NodesArePositions
<1>4. IsOldest(tree, DOMAIN nodes)'
  BY <1>1, <1>2 DEF Hanging, IsOldest
<1>5. ASSUME NEW i \in DOMAIN nodes
      PROVE  /\ IsOldest(nodes'[i].left, LeftOf(i)')
             /\ IsOldest(nodes'[i].right, RightOf(i)')
  <2>1. /\ LeftOf(i)' = LeftOf(i) \cup {j \in {next} : Follows(j, i) /\ Use(j) < Use(i)}
        /\ RightOf(i)' = RightOf(i) \cup {j \in {next} : Follows(j, i) /\ Use(i) <= Use(j)}
    BY <1>1, GrowsOrder
  <2>2. /\ IsOldest(nodes[i].left, LeftOf(i)) /\ IsOldest(nodes[i].right, RightOf(i))
        /\ LeftOf(i) \subseteq DOMAIN nodes /\ RightOf(i) \subseteq DOMAIN nodes
    BY DEF Hanging, LeftOf, RightOf
  <2>3. CASE i = at
    BY <1>1, <1>2, <1>3, <2>1, <2>2, <2>3 DEF IsOldest
  <2>4. CASE i # at
    <3>1. Follows(next, i) => /\ Use(next) < Use(i) => nodes[i].left # None
                              /\ Use(i) <= Use(next) => nodes[i].right # None
      BY <2>4, OneVacancy
    <3> QED BY <1>1, <1>2, <1>3, <2>1, <2>2, <2>4, <3>1 DEF IsOldest
  <2> QED BY <2>3, <2>4
<1>6. ASSUME NEW i \in {next}
      PROVE  /\ IsOldest(nodes'[i].left, LeftOf(i)')
             /\ IsOldest(nodes'[i].right, RightOf(i)')
  <2>1. nodes'[i].left = None /\ nodes'[i].right = None
    BY <1>1 DEF Grows, Choice!Node
  <2>2. LeftOf(i)' = {} /\ RightOf(i)' = {}
    BY <1>1, GrowsOrder
  <2> QED BY <2>1, <2>2 DEF IsOldest
<1> QED BY <1>2, <1>4, <1>5, <1>6 DEF Hanging, IsOldest
(* Without the new node, a set that has the children of its nodes still has *)
(* them: it is all the old ones, the one the new one hangs from among them. *)
LEMMA AttachWhole == ChoiceInv /\ Choice!Attach => Whole'
<1> SUFFICES ASSUME ChoiceInv, Choice!Attach,
                    NEW S \in SUBSET DOMAIN nodes', tree' \in S \cup {None},
                    Choice!HasChildren(S)'
             PROVE  S = DOMAIN nodes'
  BY DEF Whole
<1> DEFINE R == S \ {next}
<1>1. /\ DOMAIN nodes' = DOMAIN nodes \cup {next} /\ next \in Nat
      /\ next \notin DOMAIN nodes /\ next # None /\ at \in DOMAIN nodes
  BY AttachGrows DEF ChoiceInv, Grows, Typed
<1>2. tree \in DOMAIN nodes
  BY <1>1 DEF ChoiceInv, Hanging, IsOldest
<1>3. tree \in R
  <2>1. tree # None
    BY <1>2, NodesArePositions DEF ChoiceInv
  <2> QED BY <1>1, <1>2, <2>1, AttachGrows DEF ChoiceInv
<1>4. Use(at) \in Nat /\ Use(next) \in Nat
  BY UseIsNat, NodesArePositions, <1>1 DEF ChoiceInv, Typed, Choice!Attach, Choice!Visits
<1>5. Choice!HasChildren(R)
  <2>1. \A i \in R : {nodes[i].left, nodes[i].right} \subseteq DOMAIN nodes \cup {None}
    BY <1>1 DEF ChoiceInv, Hanging, IsOldest, LeftOf, RightOf
  <2>2. \A i \in R : {nodes'[i].left, nodes'[i].right} \subseteq S \cup {None}
    BY DEF Choice!HasChildren
  <2>3. \A i \in R : /\ nodes[i].left \in {None, nodes'[i].left}
                     /\ nodes[i].right \in {None, nodes'[i].right}
    BY <1>1, <1>4, AttachGrows DEF ChoiceInv
  <2> QED BY <1>1, <2>1, <2>2, <2>3 DEF Choice!HasChildren
<1>6. R = DOMAIN nodes
  BY <1>1, <1>3, <1>5 DEF ChoiceInv, Whole
<1>7. next \in {nodes'[at].left, nodes'[at].right}
  BY <1>4, AttachGrows DEF ChoiceInv
<1>8. next \in S
  BY <1>1, <1>6, <1>7 DEF Choice!HasChildren
<1> QED BY <1>1, <1>6, <1>8

LEMMA AttachInv == ChoiceInv /\ Choice!Attach => ChoiceInv'
<1> SUFFICES ASSUME ChoiceInv, Choice!Attach PROVE ChoiceInv'
  OBVIOUS
<1>1. Grows
  BY AttachGrows DEF ChoiceInv
<1>2. Typed' /\ Hanging' /\ Whole'
  BY <1>1, GrowsTyped, AttachHanging, AttachWhole DEF ChoiceInv
<1>3. Inserting' /\ Searching'
  BY <1>1 DEF Grows, Inserting, Searching
<1>4. chosen' = None
  BY <1>1 DEF Grows, ChoiceInv, Returned, Choice!Attach
<1> QED BY <1>2, <1>3, <1>4 DEF ChoiceInv, Returned

-----------------------------------------------------------------------------
(* The other steps of getMostUsedPod leave the tree alone.                  *)

LEMMA SameTree ==
  ASSUME Hanging, Whole, UNCHANGED <<items, nodes, tree>>
  PROVE  Hanging' /\ Whole' /\ (\A i : Use(i)' = Use(i))
         /\ (\A i, j : Follows(j, i)' <=> Follows(j, i))
<1>1. \A i : Use(i)' = Use(i)
  BY DEF Use
<1>2. \A i, j : Follows(j, i)' <=> Follows(j, i)
  BY <1>1 DEF Follows
<1>3. \A i : LeftOf(i)' = LeftOf(i) /\ RightOf(i)' = RightOf(i)
  BY <1>1, <1>2 DEF LeftOf, RightOf
<1>4. Hanging'
  BY <1>3 DEF Hanging, IsOldest
<1>5. Whole'
  BY DEF Whole, Choice!HasChildren
<1> QED BY <1>1, <1>2, <1>4, <1>5

(* The root has no elder, so that every container follows it. *)
LEMMA RootFirst ==
  Typed /\ Hanging /\ tree # None => /\ tree \in DOMAIN nodes
                                    /\ \A j : Follows(j, tree)
                                    /\ \A i \in DOMAIN nodes : tree <= i
  BY NodesArePositions DEF Hanging, IsOldest, Follows, Typed

LEMMA VisitInv == ChoiceInv /\ Choice!Visit => ChoiceInv'
<1> SUFFICES ASSUME ChoiceInv, Choice!Visit PROVE ChoiceInv'
  OBVIOUS
<1>1. /\ UNCHANGED <<items, next, tree, nodes, chosen>> /\ at' = tree
      /\ Choice!IsInt64(items[next].cpu) /\ next <= Len(items)
      /\ tree \in DOMAIN nodes /\ Follows(next, tree)
  BY RootFirst DEF ChoiceInv, Choice!Visit, Choice!Visits
<1>2. Hanging' /\ Whole' /\ (\A i : Use(i)' = Use(i))
      /\ (\A i, j : Follows(j, i)' <=> Follows(j, i))
  BY <1>1, SameTree DEF ChoiceInv
<1>3. Typed'
  BY <1>1, <1>2 DEF ChoiceInv, Typed
<1>4. Inserting'
  BY <1>1, <1>2 DEF Inserting
<1>5. Searching' /\ Returned'
  BY <1>1 DEF ChoiceInv, Searching, Returned, Typed
<1> QED BY <1>2, <1>3, <1>4, <1>5 DEF ChoiceInv

LEMMA DescendInv == ChoiceInv /\ Choice!Descend => ChoiceInv'
<1> SUFFICES ASSUME ChoiceInv, Choice!Descend PROVE ChoiceInv'
  OBVIOUS
<1>1. /\ UNCHANGED <<items, next, tree, nodes, chosen>> /\ at' = Choice!Child
      /\ Choice!IsInt64(items[next].cpu) /\ next <= Len(items) /\ next \in 1 .. Len(items)
      /\ at \in DOMAIN nodes /\ Follows(next, at) /\ Choice!Child # None
  BY DEF ChoiceInv, Typed, Inserting, Choice!Descend, Choice!Visits
<1>2. Hanging' /\ Whole' /\ (\A i : Use(i)' = Use(i))
      /\ (\A i, j : Follows(j, i)' <=> Follows(j, i))
  BY <1>1, SameTree DEF ChoiceInv
<1>3. Use(at) \in Nat /\ Use(next) \in Nat
  BY <1>1, UseIsNat, NodesArePositions DEF ChoiceInv
<1>4. Choice!Child = IF Use(next) < Use(at) THEN nodes[at].left ELSE nodes[at].right
  BY <1>1 DEF Choice!Child, Choice!GoesLeft, Use, ChoiceInv, Typed
<1>5. Choice!Child \in DOMAIN nodes
  BY <1>1, <1>4 DEF ChoiceInv, Hanging, IsOldest, LeftOf, RightOf
<1>6. Follows(next, Choice!Child)
  <2>1. \/ Choice!Child = nodes[at].left /\ Use(next) < Use(at)
        \/ Choice!Child = nodes[at].right /\ Use(at) <= Use(next)
    BY <1>3, <1>4
  <2> QED BY <1>1, <1>5, <2>1, FollowsOn DEF ChoiceInv
<1>7. Typed'
  BY <1>1, <1>2, <1>5 DEF ChoiceInv, Typed
<1>8. Inserting'
  BY <1>1, <1>2, <1>6 DEF Inserting
<1>9. Searching' /\ Returned'
  BY <1>1 DEF ChoiceInv, Searching, Returned, Typed, Choice!Descend
<1> QED BY <1>2, <1>7, <1>8, <1>9 DEF ChoiceInv
LEMMA SkipInv == ChoiceInv /\ Choice!Skip => ChoiceInv'
<1> SUFFICES ASSUME ChoiceInv, Choice!Skip PROVE ChoiceInv'
  OBVIOUS
<1>1. /\ UNCHANGED <<items, tree, nodes, at, chosen>> /\ next' = next + 1
      /\ next <= Len(items) /\ ~Choice!IsInt64(items[next].cpu) /\ at = None
  BY DEF Choice!Skip, ChoiceInv, Inserting
<1>2. Hanging' /\ Whole' /\ \A i : Use(i)' = Use(i)
  BY <1>1, SameTree DEF ChoiceInv
<1>3. Typed'
  BY <1>1, <1>2 DEF ChoiceInv, Typed
<1>4. Inserting' /\ Searching' /\ chosen' = None
  BY <1>1 DEF ChoiceInv, Inserting, Searching, Returned, Typed
<1> QED BY <1>2, <1>3, <1>4 DEF ChoiceInv, Returned

LEMMA GoRightInv == ChoiceInv /\ Choice!GoRight => ChoiceInv'
<1> SUFFICES ASSUME ChoiceInv, Choice!GoRight PROVE ChoiceInv'
  OBVIOUS
<1>1. /\ UNCHANGED <<items, next, tree, nodes, chosen>>
      /\ next = Len(items) + 1 /\ chosen = None
  BY DEF Choice!GoRight
<1>2. Hanging' /\ Whole' /\ (\A i : Use(i)' = Use(i))
      /\ (\A i, j : Follows(j, i)' <=> Follows(j, i))
  BY <1>1, SameTree DEF ChoiceInv
<1>3. (\A i \in DOMAIN nodes : i \in 1 .. Len(items) /\ Use(i) \in Nat) /\ Len(items) \in Nat
  BY UseIsNat, NodesArePositions DEF ChoiceInv, Typed
<1>4. /\ at' \in DOMAIN nodes
      /\ \A i \in DOMAIN nodes : \/ at' <= i /\ Follows(i, at')
                                 \/ Use(i) < Use(at')
                                 \/ Use(i) = Use(at') /\ i < at'
  <2>1. CASE at = None /\ tree # None /\ at' = tree
    <3>1. /\ tree \in DOMAIN nodes
          /\ \A i \in DOMAIN nodes : tree <= i /\ Follows(i, tree)
      BY <2>1, RootFirst DEF ChoiceInv
    <3> QED BY <2>1, <3>1
  <2>2. CASE at # None /\ ~Choice!Rightmost(at) /\ at' = nodes[at].right
    <3>1. at \in DOMAIN nodes /\ at' # None
      BY <2>2 DEF ChoiceInv, Typed, Choice!Rightmost
    <3>2. at' \in RightOf(at) /\ \A i \in RightOf(at) : at' <= i
      BY <2>2, <3>1 DEF ChoiceInv, Hanging, IsOldest
    <3>3. at' \in DOMAIN nodes /\ at < at' /\ Use(at) <= Use(at')
      BY <3>2 DEF RightOf
    <3>4. ASSUME NEW i \in DOMAIN nodes
          PROVE  \/ at' <= i /\ Follows(i, at')
                 \/ Use(i) < Use(at')
                 \/ Use(i) = Use(at') /\ i < at'
      <4>1. CASE Use(i) < Use(at) \/ (Use(i) = Use(at) /\ i <= at)
        BY <1>3, <3>1, <3>3, <4>1
      <4>2. CASE at < i /\ Follows(i, at) /\ Use(at) <= Use(i)
        <5>1. at' <= i
          BY <3>2, <4>2 DEF RightOf
        <5>2. Follows(i, at')
          BY <1>3, <2>2, <3>1, <3>3, <4>2, FollowsOn DEF ChoiceInv
        <5> QED BY <5>1, <5>2
      <4>3. \/ at <= i /\ Follows(i, at)
            \/ Use(i) < Use(at)
            \/ Use(i) = Use(at) /\ i < at
        BY <1>1, <2>2 DEF ChoiceInv, Searching
      <4> QED BY <1>3, <3>1, <4>1, <4>2, <4>3
    <3> QED BY <3>3, <3>4
  <2> QED BY <2>1, <2>2 DEF Choice!GoRight
<1>5. Typed'
  BY <1>1, <1>2, <1>4 DEF ChoiceInv, Typed
<1>6. Searching'
  BY <1>1, <1>2, <1>4 DEF Searching
<1>7. Inserting' /\ Returned'
  BY <1>1, <1>3 DEF Inserting, Returned
<1> QED BY <1>2, <1>5, <1>6, <1>7 DEF ChoiceInv

(* Nobody follows the rightmost node but to the left. *)
LEMMA ChooseInv == ChoiceInv /\ Choice!Choose => ChoiceInv'
<1> SUFFICES ASSUME ChoiceInv, Choice!Choose PROVE ChoiceInv'
  OBVIOUS
<1>1. /\ UNCHANGED <<items, next, tree, nodes>> /\ at' = None
      /\ next = Len(items) + 1 /\ chosen = None
  BY DEF Choice!Choose
<1>2. Hanging' /\ Whole' /\ \A i : Use(i)' = Use(i)
  BY <1>1, SameTree DEF ChoiceInv
<1>3. /\ Len(items) \in Nat /\ DOMAIN items = 1 .. Len(items)
      /\ DOMAIN nodes = {i \in DOMAIN items : Choice!IsInt64(items[i].cpu)}
      /\ \A i \in DOMAIN nodes : i \in Nat /\ Use(i) \in Nat
  BY <1>1, UseIsNat, NodesArePositions DEF ChoiceInv, Typed
<1>4. \A i \in DOMAIN nodes : items[i].cpu \in Nat /\ items[i].cpu = 1000 * Use(i)
  <2> SUFFICES ASSUME NEW i \in DOMAIN nodes
               PROVE  items[i].cpu \in Nat /\ items[i].cpu = 1000 * Use(i)
    OBVIOUS
  <2>1. items[i] \in Choice!Container
    BY <1>3, ElementOfSeq DEF ChoiceInv, Typed
  <2>2. items[i].cpu \in Nat
    BY <2>1 DEF Choice!Container
  <2>3. items[i].cpu % 1000 = 0
    BY <1>3 DEF Choice!IsInt64
  <2> QED BY <2>2, <2>3 DEF Use, Choice!AsInt64
<1>5. Typed' /\ Inserting' /\ Searching'
  BY <1>1, <1>2 DEF ChoiceInv, Typed, Inserting, Searching
<1>6. CASE tree = None /\ chosen' = NoPod
  <2>1. DOMAIN nodes = {}
    BY <1>6 DEF ChoiceInv, Hanging, IsOldest
  <2>2. ChoosesLastHighest'
    BY <1>1, <1>3, <1>6, <2>1 DEF ChoosesLastHighest, Choice!ChoosesLastHighest
  <2> QED BY <1>1, <1>2, <1>5, <1>6, <2>2 DEF ChoiceInv, Returned
<1>7. CASE at # None /\ Choice!Rightmost(at) /\ chosen' = nodes[at].pod
  <2>1. at \in DOMAIN nodes /\ RightOf(at) = {} /\ chosen' = items[at].pod
    BY <1>7 DEF ChoiceInv, Typed, Hanging, IsOldest, Choice!Rightmost
  <2>2. chosen' \in Pods
    BY <1>7, <2>1 DEF ChoiceInv, Typed, ANode
  <2>3. ASSUME NEW i \in DOMAIN nodes
        PROVE  Use(i) < Use(at) \/ (Use(i) = Use(at) /\ i <= at)
    <3>1. CASE at < i /\ Follows(i, at)
      BY <1>3, <2>1, <3>1 DEF RightOf
    <3>2. \/ at <= i /\ Follows(i, at)
          \/ Use(i) < Use(at)
          \/ Use(i) = Use(at) /\ i < at
      BY <1>1, <1>7 DEF ChoiceInv, Searching
    <3> QED BY <1>3, <2>1, <3>1, <3>2
  <2>4. ASSUME NEW j \in DOMAIN nodes
        PROVE  items[j].cpu < items[at].cpu \/ (items[j].cpu = items[at].cpu /\ j <= at)
    <3>1. Use(j) \in Nat /\ Use(at) \in Nat
      BY <1>3, <2>1
    <3>2. items[j].cpu = 1000 * Use(j) /\ items[at].cpu = 1000 * Use(at)
      BY <1>4, <2>1
    <3> QED BY <2>3, <3>1, <3>2
  <2>5. ChoosesLastHighest'
    BY <1>1, <1>3, <2>1, <2>4 DEF ChoosesLastHighest, Choice!ChoosesLastHighest
  <2> QED BY <1>1, <1>2, <1>5, <2>2, <2>5 DEF ChoiceInv, Returned
<1> QED BY <1>6, <1>7 DEF Choice!Choose
LEMMA ChoiceNextInv == ChoiceInv /\ Choice!Next => ChoiceInv'
  BY PlantInv, VisitInv, DescendInv, AttachInv, SkipInv, GoRightInv, ChooseInv
     DEF Choice!Next

-----------------------------------------------------------------------------
(* The tick. *)

LEMMA IdleInv == Idle => ChoiceInv
<1> SUFFICES ASSUME Idle PROVE ChoiceInv
  OBVIOUS
<1>1. items \in Seq(Choice!Container) /\ Len(items) = 0 /\ DOMAIN nodes = {}
  BY DEF Idle
<1>2. Typed
  <2>1. nodes \in [DOMAIN nodes -> ANode]
    BY <1>1 DEF Idle
  <2>2. 1 .. next - 1 = {} /\ next \in 1 .. Len(items) + 1
    BY <1>1 DEF Idle
  <2> QED BY <1>1, <2>1, <2>2 DEF Typed, Idle
<1>3. Hanging /\ Whole /\ Inserting /\ Searching /\ Returned
  BY <1>1 DEF Idle, Hanging, IsOldest, Whole, Inserting, Searching, Returned
<1> QED BY <1>2, <1>3 DEF ChoiceInv

LEMMA AnswerInv == TickInv /\ Answer => TickInv'
<1> SUFFICES ASSUME TickInv, Answer PROVE TickInv'
  OBVIOUS
<1>1. Idle /\ pc' = "delete"
  BY DEF TickInv, Answer, ListSucceeds
<1>2. PICK n \in Nat : items' \in [1 .. n -> Choice!Container]
  BY DEF Answer
<1>3. items' \in Seq(Choice!Container) /\ Len(items') \in Nat
  BY <1>2
<1>4. UNCHANGED <<next, tree, nodes, at, chosen>>
  BY DEF Answer
<1>5. Typed'
  <2>1. nodes' \in [DOMAIN nodes' -> ANode] /\ DOMAIN nodes' = {}
    BY <1>1, <1>4 DEF Idle
  <2>2. 1 .. next' - 1 = {} /\ next' \in 1 .. Len(items') + 1
    BY <1>1, <1>3, <1>4 DEF Idle
  <2> QED BY <1>1, <1>3, <1>4, <2>1, <2>2 DEF Typed, Idle
<1>6. Hanging' /\ Whole' /\ Inserting' /\ Searching' /\ Returned'
  BY <1>1, <1>4 DEF Idle, Hanging, IsOldest, Whole, Inserting, Searching, Returned
<1>7. IInv'
  BY LoopIInv DEF TickInv, Answer, Watch
<1> QED BY <1>1, <1>5, <1>6, <1>7 DEF TickInv, ChoiceInv

(* What nobody touches stays as it is. *)
LEMMA SameChoice == ChoiceInv /\ UNCHANGED choice => ChoiceInv'
<1> SUFFICES ASSUME ChoiceInv, UNCHANGED choice PROVE ChoiceInv'
  OBVIOUS
<1>1. UNCHANGED <<items, nodes, tree, next, at, chosen>>
  BY DEF choice
<1>2. Hanging' /\ Whole' /\ (\A i : Use(i)' = Use(i))
      /\ (\A i, j : Follows(j, i)' <=> Follows(j, i))
  BY <1>1, SameTree DEF ChoiceInv
<1> QED BY <1>1, <1>2 DEF ChoiceInv, Typed, Inserting, Searching, Returned,
                          ChoosesLastHighest, Choice!ChoosesLastHighest

(* What is chosen may be deleted. *)
LEMMA DeletesAre == ChoiceInv /\ Deletes => \E p \in Pods \cup {NoPod} : Delete(p)
  BY DEF ChoiceInv, Returned, Deletes

LEMMA TickNextInv == TickInv /\ [TickNext]_tick => TickInv'
<1> SUFFICES ASSUME TickInv, [TickNext]_tick PROVE TickInv'
  OBVIOUS
<1>1. CASE Answer
  BY <1>1, AnswerInv
<1>2. CASE Chooses
  <2>1. ChoiceInv'
    BY <1>2, ChoiceNextInv DEF TickInv, Chooses
  <2>2. IInv' /\ pc' = "delete"
    BY <1>2, NextIInv DEF TickInv, Chooses, vars
  <2> QED BY <2>1, <2>2 DEF TickInv
<1>3. CASE Deletes
  <2>1. Idle'
    BY <1>3 DEF Deletes, Idle
  <2>2. ChoiceInv'
    BY <2>1, IdleInv, PTL
  <2>3. IInv'
    BY <1>3, DeletesAre, LoopIInv DEF TickInv, Watch
  <2> QED BY <2>1, <2>2, <2>3 DEF TickInv
<1>4. CASE Turn /\ UNCHANGED choice
  <2>1. pc # "delete" /\ IInv'
    BY <1>4, LoopIInv DEF TickInv, Watch, Turn, Begin, LoopAgain, TimerDisabled, TimerEnabled,
                          ListFails, SelectContext, Reset
  <2> QED BY <1>4, <2>1, SameChoice DEF TickInv, Idle, choice
<1>5. CASE Outside /\ UNCHANGED choice
  <2>1. pc' = pc /\ IInv'
    BY <1>5, OutsideIInv DEF TickInv, Outside, PodsChange, SetEnabled, Stop, Cancel
  <2> QED BY <1>5, <2>1, SameChoice DEF TickInv, Idle, choice
<1>6. CASE UNCHANGED tick
  <2>1. pc' = pc /\ IInv' /\ UNCHANGED choice
    BY <1>6, NextIInv DEF TickInv, tick, vars
  <2> QED BY <2>1, SameChoice DEF TickInv, Idle, choice
<1> QED BY <1>1, <1>2, <1>3, <1>4, <1>5, <1>6 DEF TickNext, Tick

(* TickInv holds in every reachable state of the tick. *)
THEOREM TickInvariance == TickSpec => []TickInv
<1>1. TickInit => TickInv
  BY InitIInv, IdleInv DEF TickInit, TickInv, Idle
<1> QED BY <1>1, TickNextInv, PTL DEF TickSpec
(* What hangs from a child of node i followed it to that side. *)
LEMMA SubtreeFollows ==
  ASSUME Typed, Hanging, NEW i \in DOMAIN nodes
  PROVE  /\ Choice!Subtree(nodes[i].left) \subseteq LeftOf(i)
         /\ Choice!Subtree(nodes[i].right) \subseteq RightOf(i)
<1>1. \A k \in DOMAIN nodes : k \in Nat /\ k # None /\ Use(k) \in Nat
  BY NodesArePositions, UseIsNat
<1>2. Choice!Subtree(None) = {}
  <2>1. {} \in SUBSET DOMAIN nodes /\ None \in {} \cup {None} /\ Choice!HasChildren({})
    BY DEF Choice!HasChildren
  <2> QED BY <2>1 DEF Choice!Subtree
<1>3. ASSUME NEW c \in DOMAIN nodes,
             NEW j \in Choice!Subtree(c)
      PROVE  j \in DOMAIN nodes /\ c <= j /\ Follows(j, c)
  <2> DEFINE S == {k \in DOMAIN nodes : c <= k /\ Follows(k, c)}
  <2>1. c \in S
    BY <1>1 DEF Follows
  <2>2. ASSUME NEW k \in S, NEW d \in {nodes[k].left, nodes[k].right}, d # None PROVE d \in S
    <3>1. d \in DOMAIN nodes /\ k < d /\ Follows(d, k)
      BY <2>2 DEF Hanging, IsOldest, LeftOf, RightOf
    <3>2. Follows(d, c)
      BY <1>1, <3>1 DEF Follows
    <3> QED BY <1>1, <3>1, <3>2
  <2>3. Choice!HasChildren(S)
    BY <2>2 DEF Choice!HasChildren
  <2> HIDE DEF S
  <2>4. j \in S
    BY <1>3, <2>1, <2>3 DEF Choice!Subtree, S
  <2> QED BY <2>4 DEF S
<1>4. ASSUME nodes[i].left # None PROVE Choice!Subtree(nodes[i].left) \subseteq LeftOf(i)
  <2>1. nodes[i].left \in LeftOf(i)
    BY <1>4 DEF Hanging, IsOldest
  <2>2. ASSUME NEW j \in Choice!Subtree(nodes[i].left) PROVE j \in LeftOf(i)
    <3>1. j \in DOMAIN nodes /\ nodes[i].left <= j /\ Follows(j, nodes[i].left)
      BY <1>3, <2>1 DEF LeftOf
    <3>2. i < j /\ (Use(j) < Use(i) <=> Use(nodes[i].left) < Use(i))
      BY <1>1, <2>1, <3>1 DEF LeftOf, Follows
    <3>3. Follows(j, i)
      BY <1>1, <2>1, <3>1 DEF LeftOf, Follows
    <3> QED BY <2>1, <3>1, <3>2, <3>3 DEF LeftOf
  <2> QED BY <2>2
<1>5. ASSUME nodes[i].right # None PROVE Choice!Subtree(nodes[i].right) \subseteq RightOf(i)
  <2>1. nodes[i].right \in RightOf(i)
    BY <1>5 DEF Hanging, IsOldest
  <2>2. ASSUME NEW j \in Choice!Subtree(nodes[i].right) PROVE j \in RightOf(i)
    <3>1. j \in DOMAIN nodes /\ nodes[i].right <= j /\ Follows(j, nodes[i].right)
      BY <1>3, <2>1 DEF RightOf
    <3>2. i < j /\ (Use(j) < Use(i) <=> Use(nodes[i].right) < Use(i))
      BY <1>1, <2>1, <3>1 DEF RightOf, Follows
    <3>3. Follows(j, i)
      BY <1>1, <2>1, <3>1 DEF RightOf, Follows
    <3> QED BY <1>1, <2>1, <3>1, <3>2, <3>3 DEF RightOf
  <2> QED BY <2>2
<1> QED BY <1>2, <1>4, <1>5

(* However many containers there are and whatever they use, the tree that   *)
(* insert has built so far is a search tree of all of them (antihpa.go:170- *)
(* 182).                                                                   *)
THEOREM TreeStaysSorted == TickSpec => []TreeIsSorted
<1>1. TickInv => TreeIsSorted
  <2> SUFFICES ASSUME ChoiceInv PROVE Choice!TreeIsSorted
    BY DEF TickInv, TreeIsSorted
  <2>1. \A i \in DOMAIN nodes : i \in Nat /\ nodes[i].cpu = Use(i) /\ Use(i) \in Nat
    BY NodesArePositions, UseIsNat DEF ChoiceInv, Typed
  <2>2. ASSUME NEW i \in DOMAIN nodes
        PROVE  /\ nodes[i].pod = items[i].pod /\ nodes[i].cpu = Choice!AsInt64(items[i].cpu)
               /\ i \in Choice!Subtree(tree)
               /\ \A j \in Choice!Subtree(nodes[i].left) : nodes[j].cpu < nodes[i].cpu
               /\ \A j \in Choice!Subtree(nodes[i].right) : nodes[j].cpu >= nodes[i].cpu /\ j > i
    <3>1. nodes[i].pod = items[i].pod /\ nodes[i].cpu = Choice!AsInt64(items[i].cpu)
      BY DEF ChoiceInv, Typed, Use
    <3>2. i \in Choice!Subtree(tree)
      BY DEF ChoiceInv, Whole, Choice!Subtree
    <3>3. \A j \in Choice!Subtree(nodes[i].left) : nodes[j].cpu < nodes[i].cpu
      BY <2>1, SubtreeFollows DEF ChoiceInv, LeftOf
    <3>4. \A j \in Choice!Subtree(nodes[i].right) : nodes[j].cpu >= nodes[i].cpu /\ j > i
      BY <2>1, SubtreeFollows DEF ChoiceInv, RightOf
    <3> QED BY <3>1, <3>2, <3>3, <3>4
  <2> QED BY <2>2 DEF ChoiceInv, Typed, Choice!TreeIsSorted
<1> QED BY <1>1, TickInvariance, PTL

(* getMostUsedPod returns the pod of the last of the highest usages that    *)
(* are whole numbers of cores, and the empty name only if there are none    *)
(* (antihpa.go:184-227).                                                   *)
THEOREM MostUsedIsChosen == TickSpec => []ChoosesLastHighest
<1>1. TickInv => ChoosesLastHighest
  BY DEF TickInv, ChoiceInv, Returned, ChoosesLastHighest, Choice!ChoosesLastHighest
<1> QED BY <1>1, TickInvariance, PTL

-----------------------------------------------------------------------------
(* The tick implements the loop that deletes any pod at all. *)

LEMMA TickRefines == TickInv /\ [TickNext]_tick => [Next]_vars
<1> SUFFICES ASSUME TickInv, TickNext PROVE Next \/ UNCHANGED vars
  BY DEF tick
<1>1. CASE Answer
  BY <1>1 DEF Answer, Next, Watch
<1>2. CASE Chooses
  BY <1>2 DEF Chooses
<1>3. CASE Deletes
  BY <1>3, DeletesAre DEF TickInv, Next, Watch
<1> QED BY <1>1, <1>2, <1>3 DEF TickNext, Tick, Next, Watch

(* The tick with the choice of the pod in it is a tick of the watcher that  *)
(* deletes some pod: what is proved of the one holds for the other.        *)
THEOREM TickImplementsWatcher == TickSpec => Spec
<1>1. TickInit => Init
  BY DEF TickInit
<1> QED BY <1>1, TickRefines, TickInvariance, PTL DEF TickSpec, Spec

(* So the whole tick keeps its types, deletes at most one pod after it was  *)
(* disabled or stopped, and is a monkey to the CRD watcher.                *)
THEOREM TickWatchesRightly ==
  TickSpec => []TypeOK /\ []AtMostOneLateDelete /\ Abstract!Spec
  BY TickImplementsWatcher, TypeCorrect, OneLateDeleteAtMost, ImplementsMonkey, PTL
=============================================================================
