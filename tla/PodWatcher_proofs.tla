-------------------------- MODULE PodWatcher_proofs --------------------------
(***************************************************************************)
(* Proofs about PodWatcher, for any pods, any timeout and any queue.       *)
(***************************************************************************)
EXTENDS PodWatcher, FiniteSetTheorems, FunctionTheorems, SequenceTheorems, TLAPS

(* A watcher that was stopped late has Running cleared for good. One that   *)
(* has killed once too often will find itself disabled, or Running cleared, *)
(* before it kills again.                                                  *)
Settled ==
  /\ told = "late" => ~running /\ pc # "created"
  /\ unwanted \in {0, 1}
  /\ unwanted = 1 => /\ Unwanted
                     /\ pc \notin {"created", "kill"}
                     /\ enabled => pc \notin {"entering", "select"}

IInv == TypeOK /\ Settled

(* No pod enters or leaves at the positions of S. *)
Silent(p, S) == \A k \in S : queue[k].pod # p \/ queue[k].type = "MODIFIED"

(* The last event of a pod that enters or leaves, if one is under way, says *)
(* whether it exists; without any, the list does.                          *)
LastIsTrue ==
  \A p \in Pods :
    \/ Silent(p, DOMAIN queue) /\ podList[p] = IF p \in pods THEN 1 ELSE 0
    \/ \E i \in DOMAIN queue :
         /\ queue[i].pod = p /\ queue[i].type # "MODIFIED"
         /\ Silent(p, i + 1 .. Len(queue))
         /\ queue[i].type = "ADDED" <=> p \in pods

(* A pod enters only when it is not in the list, or will have left it.     *)
AddedIsNew ==
  \A i \in DOMAIN queue : queue[i].type = "ADDED" =>
    \/ Silent(queue[i].pod, 1 .. i - 1) /\ podList[queue[i].pod] = 0
    \/ \E j \in 1 .. i - 1 :
         /\ queue[j].pod = queue[i].pod /\ queue[j].type = "DELETED"
         /\ Silent(queue[i].pod, j + 1 .. i - 1)

QInv ==
  /\ pc \in {"created", "restarting"} => podList = Empty
  /\ watch = "open" => LastIsTrue /\ AddedIsNew

USE PodAssumption

-----------------------------------------------------------------------------
(* Types, and the deletions that come too late. *)

LEMMA InitIInv == Init => IInv
<1> SUFFICES ASSUME Init PROVE IInv
  OBVIOUS
<1>1. queue \in Seq(Event)
  BY EmptySeq DEF Init
<1>2. podList \in [Pods -> Nat] /\ podsActive \in [Pods -> Nat]
  BY DEF Init, Empty
<1>3. left \in Ticks /\ unwanted \in Nat
  BY DEF Init, Ticks
<1>4. ctxDone \in BOOLEAN /\ running \in BOOLEAN /\ fired \in BOOLEAN
  BY DEF Init
<1>5. enabled \in BOOLEAN
  BY DEF Init
<1>6. /\ timeout \in Timeouts
      /\ pods \subseteq Pods
      /\ watch \in {"none", "open", "closed"}
      /\ told \in {"no", "early", "late"}
      /\ pc \in {"created", "head", "entering", "select", "restarting", "kill",
                "unwinding", "done", "panicked"}
      /\ victim = None /\ pc # "kill"
  BY DEF Init
<1>7. TypeOK
  BY <1>1, <1>2, <1>3, <1>4, <1>5, <1>6 DEF TypeOK
<1>8. Settled
  BY DEF Init, Settled
<1> QED BY <1>7, <1>8 DEF IInv

(* Reset gives the timer a number of ticks that TypeOK allows. *)
LEMMA TimeoutTicks == TypeOK => timeout \in Ticks
  BY DEF TypeOK, Ticks

(* A new watch starts with one event per pod. *)
LEMMA ListingFacts ==
  ASSUME TypeOK, NEW q \in Listing
  PROVE  /\ q \in Seq(Event)
         /\ \A i \in DOMAIN q : q[i].type = "ADDED" /\ q[i].pod \in pods
         /\ \A p \in pods : \E i \in DOMAIN q : q[i].pod = p
         /\ \A i, j \in DOMAIN q : q[i].pod = q[j].pod => i = j
<1>1. PICK N \in Nat : N = Cardinality(pods)
  BY FS_Subset, FS_CardinalityType DEF TypeOK
<1>2. PICK o \in [1 .. N -> pods] :
        /\ \A i, j \in DOMAIN o : o[i] = o[j] => i = j
        /\ q = [i \in DOMAIN o |-> [type |-> "ADDED", pod |-> o[i]]]
  BY <1>1 DEF Listing
<1>3. DOMAIN o = 1 .. N
  OBVIOUS
<1>4. q \in [1 .. N -> Event]
  <2>1. \A p \in pods : [type |-> "ADDED", pod |-> p] \in Event
    BY DEF Event, TypeOK
  <2> QED BY <1>2, <1>3, <2>1
<1>5. o \in Injection(1 .. N, pods)
  BY <1>2, <1>3, Fun_IsInj
<1>6. o \in Surjection(1 .. N, pods)
  <2>1. IsFiniteSet(pods)
    BY FS_Subset DEF TypeOK
  <2>2. Cardinality(1 .. N) = N
    BY FS_Interval
  <2> QED BY <1>1, <1>5, <2>1, <2>2, FS_Injection
<1>7. \A p \in pods : \E i \in 1 .. N : o[i] = p
  BY <1>6, Fun_SurjectionProperties
<1> QED BY <1>2, <1>3, <1>4, <1>7, SeqDef

LEMMA EmitType ==
  ASSUME TypeOK, NEW type \in {"ADDED", "MODIFIED", "DELETED"}, NEW p \in Pods, Emit(type, p)
  PROVE  queue' \in Seq(Event)
<1>1. [type |-> type, pod |-> p] \in Event
  BY DEF Event
<1>2. queue \in Seq(Event)
  BY DEF TypeOK
<1>3. \/ queue' = Append(queue, [type |-> type, pod |-> p])
      \/ queue' = queue
  BY DEF Emit
<1> HIDE DEF Emit
<1> QED BY <1>1, <1>2, <1>3, AppendProperties

(* What all actions but those on pods and lists keep. *)
LEMMA SameLists ==
  ASSUME TypeOK, UNCHANGED <<pods, queue, list>>
  PROVE  /\ pods' \subseteq Pods /\ queue' \in Seq(Event)
         /\ podList' \in [Pods -> Nat] /\ podsActive' \in [Pods -> Nat]
  BY DEF TypeOK, list

LEMMA ClusterIInv ==
  ASSUME IInv, NEW p \in Pods, ReplicaSet(p) \/ Cluster(p) PROVE IInv'
<1>1. UNCHANGED <<watch, caller, pc, running, timer, list, victim, unwanted>>
  BY DEF ReplicaSet, Cluster
<1>2. pods' \subseteq Pods /\ queue' \in Seq(Event)
  BY EmitType DEF ReplicaSet, Cluster, PodAppears, PodChanges, PodVanishes, IInv, TypeOK
<1>3. TypeOK'
  BY <1>1, <1>2 DEF IInv, TypeOK, caller, timer, list
<1> QED BY <1>1, <1>3 DEF IInv, Settled, Unwanted, caller

LEMMA WatchIInv == ASSUME IInv, StartWatches \/ RestartWatches PROVE IInv'
<1>1. /\ pods' = pods /\ queue' \in Seq(Event) /\ watch' = "open"
      /\ pc \in {"created", "restarting"} /\ pc' = "head"
      /\ left' = timeout /\ fired' = fired
      /\ UNCHANGED <<caller, list, victim, unwanted>>
  BY ListingFacts DEF StartWatches, RestartWatches, WatchOpens, Reset, IInv
<1>2. running' \in BOOLEAN /\ (told = "late" => ~running')
  BY DEF StartWatches, RestartWatches, IInv, TypeOK, Settled
<1>3. left' \in Ticks
  BY <1>1, TimeoutTicks DEF IInv
<1>4. TypeOK'
  BY <1>1, <1>2, <1>3 DEF IInv, TypeOK, caller, list
<1> QED BY <1>1, <1>2, <1>4 DEF IInv, Settled, Unwanted, caller

LEMMA EventIInv == ASSUME IInv, SelectEvent PROVE IInv'
<1> DEFINE e == Head(queue)
<1>1. /\ pc = "select" /\ queue # <<>> /\ queue' = Tail(queue) /\ pc' = "head"
      /\ left' = timeout /\ fired' = fired
      /\ UNCHANGED <<pods, watch, caller, running, victim, unwanted>>
  BY DEF SelectEvent, Reset
<1>2. queue' \in Seq(Event) /\ e \in Event
  BY <1>1, HeadTailProperties DEF IInv, TypeOK
<1>3. podList' \in [Pods -> Nat] /\ podsActive' \in [Pods -> Nat]
  <2>1. e.pod \in Pods /\ e.type \in {"ADDED", "MODIFIED", "DELETED"}
    BY <1>2 DEF Event
  <2>2. AddPodToList(e.pod) \/ RemovePodFromList(e.pod) \/ UNCHANGED list
    BY <2>1 DEF SelectEvent
  <2> HIDE DEF e
  <2>3. podList \in [Pods -> Nat] /\ podsActive \in [Pods -> Nat] /\ podList[e.pod] + 1 \in Nat
    BY <2>1 DEF IInv, TypeOK
  <2>4. CASE AddPodToList(e.pod)
    BY <2>1, <2>3, <2>4 DEF AddPodToList
  <2>5. CASE RemovePodFromList(e.pod)
    BY <2>1, <2>3, <2>5 DEF RemovePodFromList
  <2> QED BY <2>2, <2>3, <2>4, <2>5 DEF list
<1>4. left' \in Ticks
  BY <1>1, TimeoutTicks DEF IInv
<1>5. TypeOK'
  BY <1>1, <1>2, <1>3, <1>4 DEF IInv, TypeOK, caller
<1> QED BY <1>1, <1>5 DEF IInv, Settled, Unwanted, caller

LEMMA ClosedIInv == ASSUME IInv, ApiClosesWatch \/ SelectClosed PROVE IInv'
<1>1. /\ UNCHANGED <<pods, caller, running, timer, podsActive, victim, unwanted>>
      /\ watch' = "closed"
      /\ pc' = pc \/ (pc = "select" /\ pc' = "restarting")
  BY DEF ApiClosesWatch, SelectClosed, api, list
<1>2. queue' \in Seq(Event) /\ podList' \in [Pods -> Nat]
  <2>1. queue' \in {<<>>, queue} /\ podList' \in {Empty, podList}
    BY DEF ApiClosesWatch, SelectClosed, api, list
  <2>2. Empty \in [Pods -> Nat]
    BY DEF Empty
  <2>3. <<>> \in Seq(Event)
    BY EmptySeq
  <2> QED BY <2>1, <2>2, <2>3 DEF IInv, TypeOK
<1>3. TypeOK'
  BY <1>1, <1>2 DEF IInv, TypeOK, caller, timer
<1> QED BY <1>1, <1>3 DEF IInv, Settled, Unwanted, caller

(* The loop, where it leaves the lists alone. *)
LEMMA QuietIInv ==
  ASSUME IInv, \/ StartFails \/ LoopAgain \/ EnterSelect \/ SelectErrorEvent \/ Unwind
               \/ RestartFails \/ SelectContext
  PROVE  IInv'
<1>1. /\ UNCHANGED <<api, caller, fired, list, victim, unwanted>>
      /\ running' \in {running, FALSE}
      /\ left' \in {left, timeout}
  BY DEF StartFails, LoopAgain, EnterSelect, SelectErrorEvent, Unwind, RestartFails,
         SelectContext, timer, Reset
<1>2. /\ pc # "kill"
      /\ pc' \in {"head", "entering", "select", "unwinding", "done", "panicked"}
      /\ pc = "created" => pc' = "done"
      /\ pc' = "entering" => pc = "head" /\ running
      /\ pc' = "select" => pc = "entering"
  BY DEF StartFails, LoopAgain, EnterSelect, SelectErrorEvent, Unwind, RestartFails, SelectContext
<1>3. left' \in Ticks
  BY <1>1, TimeoutTicks DEF IInv, TypeOK
<1>4. running' \in BOOLEAN
  BY <1>1 DEF IInv, TypeOK
<1>5. /\ pods' \subseteq Pods /\ queue' \in Seq(Event)
      /\ podList' \in [Pods -> Nat] /\ podsActive' \in [Pods -> Nat]
  BY <1>1, SameLists DEF IInv, api
<1>6. TypeOK'
  BY <1>1, <1>2, <1>3, <1>4, <1>5 DEF IInv, TypeOK, caller, api
<1>7. Settled'
  BY <1>1, <1>2 DEF IInv, Settled, Unwanted, caller, TypeOK
<1> QED BY <1>6, <1>7 DEF IInv

(* A watcher that has deleted too late does not get here enabled. *)
LEMMA TimerIInv == ASSUME IInv, SelectTimer PROVE IInv'
<1>1. /\ UNCHANGED <<api, caller, running, list, unwanted>>
      /\ pc = "select" /\ fired' = FALSE
      /\ left' \in {left, timeout}
      /\ \/ pc' = "head" /\ victim' = victim
         \/ pc' = "kill" /\ victim' \in Pods /\ enabled
  BY DEF SelectTimer, NothingToKill, PickVictim
<1>2. left' \in Ticks
  BY <1>1, TimeoutTicks DEF IInv, TypeOK
<1>3. /\ pods' \subseteq Pods /\ queue' \in Seq(Event)
      /\ podList' \in [Pods -> Nat] /\ podsActive' \in [Pods -> Nat]
  BY <1>1, SameLists DEF IInv, api
<1>4. victim' \in Pods \cup {None} /\ (victim' # None) = (pc' = "kill")
  BY <1>1 DEF IInv, TypeOK, PodAssumption
<1>5. TypeOK'
  BY <1>1, <1>2, <1>3, <1>4 DEF IInv, TypeOK, caller, api
<1> QED BY <1>1, <1>5 DEF IInv, Settled, Unwanted, caller

LEMMA KillIInv == ASSUME IInv, Kill PROVE IInv'
<1>1. /\ UNCHANGED <<watch, caller, running, list>>
      /\ pc = "kill" /\ pc' = "head" /\ victim' = None
      /\ left' = timeout /\ fired' = fired
      /\ unwanted' = IF Unwanted THEN unwanted + 1 ELSE unwanted
  BY DEF Kill, Reset
<1>2. victim \in Pods
  BY <1>1 DEF IInv, TypeOK
<1>3. pods' \subseteq Pods /\ queue' \in Seq(Event)
  BY <1>2, EmitType DEF Kill, PodVanishes, IInv, TypeOK
<1>4. unwanted = 0 /\ unwanted' \in {0, 1} /\ (unwanted' = 1 => Unwanted)
  BY <1>1 DEF IInv, Settled
<1>5. left' \in Ticks /\ unwanted' \in Nat
  BY <1>1, <1>4, TimeoutTicks DEF IInv
<1>6. TypeOK'
  BY <1>1, <1>3, <1>5 DEF IInv, TypeOK, caller, list
<1> QED BY <1>1, <1>4, <1>6 DEF IInv, Settled, Unwanted, caller

LEMMA TickIInv == ASSUME IInv, Tick PROVE IInv'
<1>1. UNCHANGED <<api, caller, pc, running, list, victim, unwanted>>
  BY DEF Tick
<1>2. left' \in Ticks
  BY DEF Tick, IInv, TypeOK, Ticks
<1>3. fired' \in BOOLEAN
  BY DEF Tick, IInv, TypeOK
<1>4. TypeOK'
  BY <1>1, <1>2, <1>3 DEF IInv, TypeOK, api, caller, list
<1> QED BY <1>1, <1>4 DEF IInv, Settled, Unwanted, caller

LEMMA CallerIInv ==
  ASSUME IInv, \/ Stop \/ Cancel \/ \E v \in BOOLEAN : SetEnabled(v)
               \/ \E t \in Timeouts : SetTimeout(t)
  PROVE  IInv'
<1>1. /\ UNCHANGED <<api, fired, list, victim>>
      /\ ctxDone' \in BOOLEAN
      /\ left' \in {left, timeout}
      /\ pc' = pc \/ (pc = "select" /\ pc' = "head")
  BY DEF Stop, Cancel, SetEnabled, SetTimeout, timer, Reset, caller, IInv, TypeOK
<1>2. enabled' \in BOOLEAN
  BY DEF Stop, Cancel, SetEnabled, SetTimeout, IInv, TypeOK
<1>3. running' \in BOOLEAN
  BY DEF Stop, Cancel, SetEnabled, SetTimeout, IInv, TypeOK
<1>4. told' \in {"no", "early", "late"} /\ unwanted' \in {0, unwanted}
  BY DEF Stop, Cancel, SetEnabled, SetTimeout, IInv, TypeOK
<1>5. /\ pods' \subseteq Pods /\ queue' \in Seq(Event)
      /\ podList' \in [Pods -> Nat] /\ podsActive' \in [Pods -> Nat]
  BY <1>1, SameLists DEF IInv, api
<1>6. left' \in Ticks /\ timeout' \in Timeouts /\ unwanted' \in Nat
  <2>1. timeout' \in Timeouts
    BY DEF Stop, Cancel, SetEnabled, SetTimeout, caller, IInv, TypeOK
  <2> QED BY <1>1, <1>4, <2>1, TimeoutTicks DEF IInv, TypeOK
<1>7. TypeOK'
  BY <1>1, <1>2, <1>3, <1>4, <1>5, <1>6 DEF IInv, TypeOK, api
<1>8. Settled'
  <2>1. CASE Stop
    BY <2>1 DEF Stop, IInv, Settled, Unwanted, timer, TypeOK
  <2>2. CASE Cancel
    BY <2>2 DEF Cancel, IInv, Settled, Unwanted
  <2>3. ASSUME NEW v \in BOOLEAN, SetEnabled(v) PROVE Settled'
    BY <2>3 DEF SetEnabled, IInv, Settled, Unwanted, TypeOK
  <2>4. ASSUME NEW t \in Timeouts, SetTimeout(t) PROVE Settled'
    BY <2>4 DEF SetTimeout, IInv, Settled, Unwanted
  <2> QED BY <2>1, <2>2, <2>3, <2>4
<1> QED BY <1>7, <1>8 DEF IInv

LEMMA NextIInv == IInv /\ [Next]_vars => IInv'
<1> SUFFICES ASSUME IInv, [Next]_vars PROVE IInv'
  OBVIOUS
<1>1. CASE UNCHANGED vars
  BY <1>1 DEF vars, api, caller, timer, list, IInv, TypeOK, Settled, Unwanted
<1> QED BY <1>1, ClusterIInv, WatchIInv, EventIInv, ClosedIInv, QuietIInv, TimerIInv,
           KillIInv, TickIInv, CallerIInv DEF Next, Watch, Select

(* IInv holds in every reachable state. *)
THEOREM Invariance == Spec => []IInv
  BY InitIInv, NextIInv, PTL DEF Spec

(* Every variable keeps its type. *)
THEOREM TypeCorrect == Spec => []TypeOK
<1>1. IInv => TypeOK
  BY DEF IInv
<1> QED BY <1>1, Invariance, PTL

(* Whatever the moment of SetEnabled(false) or Stop, a pod or none dies     *)
(* after it.                                                               *)
THEOREM OneLateKillAtMost == Spec => []AtMostOneLateKill
<1>1. IInv => AtMostOneLateKill
  BY DEF IInv, Settled, AtMostOneLateKill
<1> QED BY <1>1, Invariance, PTL

-----------------------------------------------------------------------------
(* The list and the API server. *)

LEMMA InitQInv == Init => QInv
  BY DEF Init, QInv

(* What leaves queue, list and pods alone. *)
LEMMA FrameQInv ==
  ASSUME QInv, UNCHANGED <<pods, queue, podList>>, watch' = "open" => watch = "open",
         pc' \in {"created", "restarting"} => podList = Empty
  PROVE  QInv'
  BY DEF QInv, LastIsTrue, AddedIsNew, Silent

(* A new watch finds an empty list. *)
LEMMA WatchQInv == ASSUME IInv, QInv, StartWatches \/ RestartWatches PROVE QInv'
<1>1. /\ pods' = pods /\ queue' \in Listing /\ podList' = podList /\ pc' = "head"
      /\ podList = Empty
  BY DEF StartWatches, RestartWatches, WatchOpens, QInv, list
<1>2. PICK L \in Nat : L = Len(queue') /\ DOMAIN queue' = 1 .. L
  BY <1>1, ListingFacts, LenProperties DEF IInv
<1>3. /\ \A i \in 1 .. L : queue'[i].type = "ADDED" /\ queue'[i].pod \in pods
      /\ \A p \in pods : \E i \in 1 .. L : queue'[i].pod = p
      /\ \A i, j \in 1 .. L : queue'[i].pod = queue'[j].pod => i = j
  BY <1>1, <1>2, ListingFacts DEF IInv
<1>4. LastIsTrue'
  <2> SUFFICES ASSUME NEW p \in Pods
               PROVE  \/ Silent(p, 1 .. L)' /\ podList[p] = IF p \in pods THEN 1 ELSE 0
                      \/ \E i \in 1 .. L :
                           /\ queue'[i].pod = p /\ queue'[i].type # "MODIFIED"
                           /\ Silent(p, i + 1 .. L)'
                           /\ queue'[i].type = "ADDED" <=> p \in pods
    BY <1>1, <1>2 DEF LastIsTrue
  <2>1. CASE p \in pods
    <3>1. PICK i \in 1 .. L : queue'[i].pod = p
      BY <1>3, <2>1
    <3>2. Silent(p, i + 1 .. L)'
      BY <1>3, <3>1 DEF Silent
    <3> QED BY <1>3, <2>1, <3>1, <3>2
  <2>2. CASE p \notin pods
    BY <1>1, <1>3, <2>2 DEF Silent, Empty
  <2> QED BY <2>1, <2>2
<1>5. AddedIsNew'
  <2> SUFFICES ASSUME NEW i \in 1 .. L
               PROVE  Silent(queue[i].pod, 1 .. i - 1)' /\ podList[queue'[i].pod] = 0
    BY <1>1, <1>2 DEF AddedIsNew
  <2>1. queue'[i].pod \in Pods
    BY <1>3 DEF IInv, TypeOK
  <2> QED BY <1>1, <1>3, <2>1 DEF Silent, Empty
<1> QED BY <1>1, <1>4, <1>5 DEF QInv

(* A pod enters, changes or leaves. *)
LEMMA EmitQInv ==
  ASSUME TypeOK, QInv, NEW p \in Pods, PodAppears(p) \/ PodChanges(p) \/ PodVanishes(p),
         UNCHANGED <<watch, podList>>, pc' = pc \/ pc' = "head"
  PROVE  QInv'
<1>1. PICK type \in {"ADDED", "MODIFIED", "DELETED"} :
        /\ Emit(type, p)
        /\ type = "ADDED" => p \notin pods
        /\ type # "MODIFIED" => (p \in pods' <=> type = "ADDED")
        /\ type = "MODIFIED" => pods' = pods
        /\ \A q \in Pods : q # p => (q \in pods' <=> q \in pods)
  BY DEF PodAppears, PodChanges, PodVanishes
<1>2. ASSUME watch = "open" PROVE LastIsTrue' /\ AddedIsNew'
  <2>1. LastIsTrue /\ AddedIsNew
    BY <1>2 DEF QInv
  <2>2. PICK event \in Event : event.type = type /\ event.pod = p /\ queue' = Append(queue, event)
    <3>1. [type |-> type, pod |-> p] \in Event
      BY DEF Event
    <3> QED BY <1>1, <1>2, <3>1 DEF Emit
  <2>3. PICK L \in Nat : L = Len(queue)
    BY LenProperties DEF TypeOK
  <2>4. /\ DOMAIN queue = 1 .. L
        /\ Len(queue') = L + 1 /\ DOMAIN queue' = 1 .. L + 1
        /\ queue'[L + 1] = event
        /\ \A k \in 1 .. L : queue'[k] = queue[k]
    <3>1. queue \in Seq(Event)
      BY DEF TypeOK
    <3>2. queue' \in Seq(Event) /\ Len(queue') = L + 1
      BY <2>2, <2>3, <3>1, AppendProperties
    <3>3. queue'[L + 1] = event /\ \A k \in 1 .. L : queue'[k] = queue[k]
      BY <2>2, <2>3, <3>1, AppendProperties
    <3>4. DOMAIN queue = 1 .. L
      BY <2>3, <3>1, LenProperties
    <3>5. DOMAIN queue' = 1 .. L + 1
      BY <3>2, LenProperties
    <3> QED BY <3>2, <3>3, <3>4, <3>5
  <2>5. \A q \in Pods, i \in 1 .. L + 1 :
          q # p \/ type = "MODIFIED" => (Silent(q, i .. L + 1)' <=> Silent(q, i .. L))
    BY <2>2, <2>4 DEF Silent
  <2>6. LastIsTrue'
    <3> SUFFICES ASSUME NEW q \in Pods
                 PROVE  \/ Silent(q, 1 .. L + 1)' /\ podList[q] = IF q \in pods' THEN 1 ELSE 0
                        \/ \E i \in 1 .. L + 1 :
                             /\ queue'[i].pod = q /\ queue'[i].type # "MODIFIED"
                             /\ Silent(q, i + 1 .. L + 1)'
                             /\ queue'[i].type = "ADDED" <=> q \in pods'
      BY <2>4 DEF LastIsTrue
    <3>1. CASE q = p /\ type # "MODIFIED"
      <4>1. Silent(p, L + 2 .. L + 1)'
        BY <2>4 DEF Silent
      <4> QED BY <1>1, <2>2, <2>4, <3>1, <4>1
    <3>2. CASE q # p \/ type = "MODIFIED"
      <4>1. q \in pods' <=> q \in pods
        BY <1>1, <3>2
      <4>2. CASE Silent(q, 1 .. L) /\ podList[q] = IF q \in pods THEN 1 ELSE 0
        BY <2>5, <3>2, <4>1, <4>2
      <4>3. ASSUME NEW i \in 1 .. L, queue[i].pod = q, queue[i].type # "MODIFIED",
                   Silent(q, i + 1 .. L), queue[i].type = "ADDED" <=> q \in pods
            PROVE  \E k \in 1 .. L + 1 :
                     /\ queue'[k].pod = q /\ queue'[k].type # "MODIFIED"
                     /\ Silent(q, k + 1 .. L + 1)'
                     /\ queue'[k].type = "ADDED" <=> q \in pods'
        <5>1. Silent(q, i + 1 .. L + 1)'
          BY <2>5, <3>2, <4>3
        <5> QED BY <2>4, <4>1, <4>3, <5>1
      <4> QED BY <2>1, <2>3, <2>4, <4>2, <4>3 DEF LastIsTrue
    <3> QED BY <3>1, <3>2
  <2>7. AddedIsNew'
    <3> SUFFICES ASSUME NEW i \in 1 .. L + 1, queue'[i].type = "ADDED"
                 PROVE  \/ Silent(queue[i].pod, 1 .. i - 1)' /\ podList[queue'[i].pod] = 0
                        \/ \E j \in 1 .. i - 1 :
                             /\ queue'[j].pod = queue'[i].pod /\ queue'[j].type = "DELETED"
                             /\ Silent(queue[i].pod, j + 1 .. i - 1)'
      BY <2>4 DEF AddedIsNew
    <3>1. CASE i \in 1 .. L
      BY <2>1, <2>4, <3>1 DEF AddedIsNew, Silent
    <3>2. CASE i = L + 1
      <4>1. queue'[i].pod = p /\ p \notin pods
        BY <1>1, <2>2, <2>4, <3>2
      <4>2. CASE Silent(p, 1 .. L) /\ podList[p] = 0
        <5>1. Silent(p, 1 .. L)'
          BY <2>4, <4>2 DEF Silent
        <5> QED BY <3>2, <4>1, <4>2, <5>1
      <4>3. CASE ~(Silent(p, 1 .. L) /\ podList[p] = 0)
        <5>1. PICK j \in 1 .. L : /\ queue[j].pod = p /\ queue[j].type # "MODIFIED"
                                  /\ Silent(p, j + 1 .. L) /\ queue[j].type # "ADDED"
          BY <2>1, <2>3, <2>4, <4>1, <4>3 DEF LastIsTrue
        <5>2. queue[j].type = "DELETED"
          <6>1. queue[j] \in Event
            BY <2>3, ElementOfSeq DEF TypeOK
          <6> QED BY <5>1, <6>1 DEF Event
        <5>3. Silent(p, j + 1 .. L)'
          BY <2>4, <5>1 DEF Silent
        <5> QED BY <2>4, <3>2, <4>1, <5>1, <5>2, <5>3
      <4> QED BY <4>2, <4>3
    <3> QED BY <2>4, <3>1, <3>2
  <2> QED BY <2>6, <2>7
<1> QED BY <1>2 DEF QInv

(* The oldest event is applied to the list. *)
LEMMA EventQInv == ASSUME IInv, QInv, SelectEvent PROVE QInv'
<1>1. /\ pc' = "head" /\ queue # <<>> /\ queue' = Tail(queue)
      /\ UNCHANGED <<pods, watch>>
  BY DEF SelectEvent
<1>2. PICK e \in Event : e = Head(queue) /\ e = queue[1]
  BY <1>1, HeadTailProperties DEF IInv, TypeOK
<1>3. e.pod \in Pods /\ e.type \in {"ADDED", "MODIFIED", "DELETED"}
  BY <1>2 DEF Event
<1>4. /\ e.type = "ADDED" => podList'[e.pod] = podList[e.pod] + 1
      /\ e.type = "DELETED" => podList'[e.pod] = 0
      /\ \A q \in Pods : q # e.pod \/ e.type = "MODIFIED" => podList'[q] = podList[q]
  <2>1. podList \in [Pods -> Nat]
    BY DEF IInv, TypeOK
  <2> QED BY <1>2, <1>3, <2>1 DEF SelectEvent, AddPodToList, RemovePodFromList, list
<1>5. ASSUME watch = "open" PROVE LastIsTrue' /\ AddedIsNew'
  <2>1. LastIsTrue /\ AddedIsNew
    BY <1>5 DEF QInv
  <2>2. PICK L \in Nat : L + 1 = Len(queue)
    <3>1. Len(queue) \in Nat /\ Len(queue) # 0
      BY <1>1, EmptySeq DEF IInv, TypeOK
    <3>2. Len(queue) - 1 \in Nat /\ (Len(queue) - 1) + 1 = Len(queue)
      BY <3>1
    <3> QED BY <3>2
  <2>3. /\ DOMAIN queue = 1 .. L + 1 /\ DOMAIN queue' = 1 .. L /\ Len(queue') = L
        /\ \A k \in 1 .. L : queue'[k] = queue[k + 1]
    <3>1. queue \in Seq(Event) /\ queue' \in Seq(Event) /\ Len(queue') = L
      BY <1>1, <2>2, HeadTailProperties DEF IInv, TypeOK
    <3>2. \A k \in 1 .. L : queue'[k] = queue[k + 1]
      BY <1>1, <2>2, <3>1, HeadTailProperties
    <3>3. DOMAIN queue = 1 .. L + 1 /\ DOMAIN queue' = 1 .. L
      BY <2>2, <3>1, LenProperties
    <3> QED BY <3>1, <3>2, <3>3
  <2>4. \A k \in 1 .. L + 1 : queue[k].pod \in Pods
    <3>1. \A k \in 1 .. L + 1 : queue[k] \in Event
      BY <2>2, ElementOfSeq DEF IInv, TypeOK
    <3> QED BY <3>1 DEF Event
  <2>5. \A q \in Pods : \A i \in 2 .. L + 1 : Silent(q, i .. L + 1) => Silent(q, i - 1 .. L)'
    BY <2>3 DEF Silent
  <2>6. LastIsTrue'
    <3>0. pods' = pods /\ DOMAIN queue' = 1 .. L /\ Len(queue') = L
      BY <1>1, <2>3
    <3> SUFFICES ASSUME NEW q \in Pods
                 PROVE  \/ Silent(q, 1 .. L)' /\ podList'[q] = IF q \in pods THEN 1 ELSE 0
                        \/ \E i \in 1 .. L :
                             /\ queue'[i].pod = q /\ queue'[i].type # "MODIFIED"
                             /\ Silent(q, i + 1 .. L)'
                             /\ queue'[i].type = "ADDED" <=> q \in pods
      BY <3>0 DEF LastIsTrue
    <3>1. CASE Silent(q, 1 .. L + 1) /\ podList[q] = IF q \in pods THEN 1 ELSE 0
      <4>1. q # e.pod \/ e.type = "MODIFIED"
        BY <1>2, <2>3, <3>1 DEF Silent
      <4>2. Silent(q, 1 .. L)'
        BY <2>3, <3>1 DEF Silent
      <4> QED BY <1>4, <3>1, <4>1, <4>2
    <3>2. ASSUME NEW i \in 1 .. L + 1, queue[i].pod = q, queue[i].type # "MODIFIED",
                 Silent(q, i + 1 .. L + 1), queue[i].type = "ADDED" <=> q \in pods
          PROVE  \/ Silent(q, 1 .. L)' /\ podList'[q] = IF q \in pods THEN 1 ELSE 0
                 \/ \E k \in 1 .. L :
                      /\ queue'[k].pod = q /\ queue'[k].type # "MODIFIED"
                      /\ Silent(q, k + 1 .. L)'
                      /\ queue'[k].type = "ADDED" <=> q \in pods
      <4>1. CASE i # 1
        <5>1. i - 1 \in 1 .. L /\ queue'[i - 1] = queue[i]
          BY <2>3, <4>1
        <5>2. Silent(q, (i - 1) + 1 .. L)'
          BY <2>3, <3>2, <4>1 DEF Silent
        <5> QED BY <3>2, <5>1, <5>2
      <4>2. CASE i = 1
        <5>1. Silent(q, 1 .. L)'
          BY <2>3, <3>2, <4>2 DEF Silent
        <5>2. q = e.pod /\ e.type # "MODIFIED" /\ (e.type = "ADDED" <=> q \in pods)
          BY <1>2, <3>2, <4>2
        <5>3. e.type = "ADDED" => podList[q] = 0
          BY <1>2, <2>1, <2>3, <5>2 DEF AddedIsNew
        <5>4. podList'[q] = IF q \in pods THEN 1 ELSE 0
          BY <1>3, <1>4, <5>2, <5>3
        <5> QED BY <5>1, <5>4
      <4> QED BY <4>1, <4>2
    <3> QED BY <2>1, <2>2, <2>3, <3>1, <3>2 DEF LastIsTrue
  <2>7. AddedIsNew'
    <3> SUFFICES ASSUME NEW i \in 1 .. L, queue'[i].type = "ADDED"
                 PROVE  \/ Silent(queue[i].pod, 1 .. i - 1)' /\ podList'[queue'[i].pod] = 0
                        \/ \E j \in 1 .. i - 1 :
                             /\ queue'[j].pod = queue'[i].pod /\ queue'[j].type = "DELETED"
                             /\ Silent(queue[i].pod, j + 1 .. i - 1)'
      BY <2>3 DEF AddedIsNew
    <3>1. PICK q \in Pods : q = queue[i + 1].pod /\ q = queue'[i].pod
      BY <2>3, <2>4
    <3>2. CASE Silent(q, 1 .. i) /\ podList[q] = 0
      <4>1. q # e.pod \/ e.type = "MODIFIED"
        BY <1>2, <2>3, <3>2 DEF Silent
      <4>2. Silent(q, 1 .. i - 1)'
        BY <2>3, <3>2 DEF Silent
      <4> QED BY <1>4, <3>1, <3>2, <4>1, <4>2
    <3>3. ASSUME NEW j \in 1 .. i, queue[j].pod = q, queue[j].type = "DELETED",
                 Silent(q, j + 1 .. i)
          PROVE  \/ Silent(queue[i].pod, 1 .. i - 1)' /\ podList'[queue'[i].pod] = 0
                 \/ \E k \in 1 .. i - 1 :
                      /\ queue'[k].pod = queue'[i].pod /\ queue'[k].type = "DELETED"
                      /\ Silent(queue[i].pod, k + 1 .. i - 1)'
      <4>1. CASE j = 1
        <5>1. Silent(q, 1 .. i - 1)'
          BY <2>3, <3>3, <4>1 DEF Silent
        <5>2. podList'[q] = 0
          BY <1>2, <1>4, <3>3, <4>1
        <5> QED BY <3>1, <5>1, <5>2
      <4>2. CASE j # 1
        <5>1. j - 1 \in 1 .. i - 1 /\ queue'[j - 1] = queue[j]
          BY <2>3, <4>2
        <5>2. Silent(q, (j - 1) + 1 .. i - 1)'
          BY <2>3, <3>3, <4>2 DEF Silent
        <5> QED BY <3>1, <3>3, <5>1, <5>2
      <4> QED BY <4>1, <4>2
    <3>4. /\ i + 1 \in 1 .. L + 1 /\ queue[i + 1].type = "ADDED" /\ (i + 1) - 1 = i
      BY <2>3
    <3> QED BY <2>1, <2>3, <3>1, <3>2, <3>3, <3>4 DEF AddedIsNew
  <2> QED BY <2>6, <2>7
<1> QED BY <1>1, <1>5 DEF QInv

LEMMA NextQInv == IInv /\ QInv /\ [Next]_vars => QInv'
<1> SUFFICES ASSUME IInv, QInv, [Next]_vars PROVE QInv'
  OBVIOUS
<1>1. ASSUME NEW p \in Pods, ReplicaSet(p) \/ Cluster(p) PROVE QInv'
  BY <1>1, EmitQInv DEF IInv, ReplicaSet, Cluster, list
<1>2. CASE ApiClosesWatch
  BY <1>2 DEF ApiClosesWatch, QInv, list
<1>3. CASE StartWatches \/ RestartWatches
  BY <1>3, WatchQInv
<1>4. CASE SelectEvent
  BY <1>4, EventQInv
<1>5. CASE SelectClosed
  BY <1>5 DEF SelectClosed, QInv, api
<1>6. CASE Kill
  <2>1. victim \in Pods
    BY <1>6 DEF Kill, IInv, TypeOK
  <2>2. CASE PodVanishes(victim)
    BY <1>6, <2>1, <2>2, EmitQInv DEF Kill, IInv, list
  <2>3. CASE UNCHANGED <<pods, queue>>
    BY <1>6, <2>3, FrameQInv DEF Kill, list
  <2> QED BY <1>6, <2>2, <2>3 DEF Kill
<1>7. CASE \/ StartFails \/ LoopAgain \/ EnterSelect \/ SelectErrorEvent \/ Unwind \/ RestartFails
           \/ SelectContext \/ SelectTimer \/ Tick \/ Stop \/ Cancel \/ UNCHANGED vars
           \/ (\E v \in BOOLEAN : SetEnabled(v)) \/ \E t \in Timeouts : SetTimeout(t)
  <2>1. UNCHANGED <<api, list>> /\ (pc' = pc \/ pc' \notin {"created", "restarting"})
    BY <1>7 DEF StartFails, LoopAgain, EnterSelect, SelectErrorEvent, Unwind, RestartFails,
               SelectContext, SelectTimer, NothingToKill, PickVictim, Tick, Stop, Cancel,
               SetEnabled, SetTimeout, vars
  <2> QED BY <2>1, FrameQInv DEF api, list, QInv
<1> QED BY <1>1, <1>2, <1>3, <1>4, <1>5, <1>6, <1>7 DEF Next, Watch, Select

(* The list is the cluster's as soon as the events under way are received:  *)
(* through restarts, and through the watcher's own deletions.              *)
THEOREM ListIsTheCluster == Spec => []ListReflectsApi
<1>1. IInv /\ QInv => ListReflectsApi
  <2> SUFFICES ASSUME IInv, QInv, watch = "open", NEW p \in Pods,
                      \A i \in DOMAIN queue : queue[i].pod # p
               PROVE  podList[p] = IF p \in pods THEN 1 ELSE 0
    BY DEF ListReflectsApi
  <2> QED BY DEF QInv, LastIsTrue
<1>2. Spec => [](IInv /\ QInv)
  <2>1. Init => IInv /\ QInv
    BY InitIInv, InitQInv
  <2>2. IInv /\ QInv /\ [Next]_vars => (IInv /\ QInv)'
    BY NextIInv, NextQInv
  <2> QED BY <2>1, <2>2, PTL DEF Spec
<1> QED BY <1>1, <1>2, PTL

-----------------------------------------------------------------------------
(* Refinement. *)

(* A step of the loop is the step of a monkey of which the CRD watcher      *)
(* would say the same, or changes nothing that it can observe.             *)
LEMMA WatchRefines == IInv /\ (Watch \/ SelectErrorEvent) => [Abstract!Next]_(Abstract!vars)
<1> SUFFICES ASSUME IInv, Watch \/ SelectErrorEvent
             PROVE  Abstract!Next \/ UNCHANGED Abstract!vars
  OBVIOUS
<1> USE DEF IInv, TypeOK, Life, Ended, caller, Abstract!vars, Abstract!Moves
<1>1. CASE StartWatches
  BY <1>1 DEF StartWatches, Abstract!Next, Abstract!Runs
<1>2. CASE StartFails
  BY <1>2 DEF StartFails, Abstract!Next, Abstract!FailsToStart
<1>3. CASE LoopAgain
  BY <1>3 DEF LoopAgain, Abstract!Next, Abstract!NoticesStop
<1>4. CASE EnterSelect \/ RestartWatches \/ Kill
  BY <1>4 DEF EnterSelect, RestartWatches, Kill
<1>5. CASE SelectEvent \/ SelectClosed
  BY <1>5 DEF SelectEvent, SelectClosed
<1>6. CASE SelectTimer
  BY <1>6 DEF SelectTimer, NothingToKill, PickVictim
<1>7. CASE SelectContext
  BY <1>7 DEF SelectContext, Abstract!Next, Abstract!NoticesContext
<1>8. CASE SelectErrorEvent \/ RestartFails
  BY <1>8 DEF SelectErrorEvent, RestartFails, Abstract!Next, Abstract!GivesUp
<1>9. CASE Unwind
  BY <1>9 DEF Unwind, Abstract!Next, Abstract!NoticesStop
<1> QED BY <1>1, <1>2, <1>3, <1>4, <1>5, <1>6, <1>7, <1>8, <1>9 DEF Watch, Select

(* The cluster and time are not seen at all, the caller as it is.           *)
LEMMA OutsideRefines ==
  ASSUME IInv,
         \/ \E p \in Pods : ReplicaSet(p) \/ Cluster(p)
         \/ ApiClosesWatch \/ Tick \/ Stop \/ Cancel
         \/ (\E v \in BOOLEAN : SetEnabled(v)) \/ (\E t \in Timeouts : SetTimeout(t))
  PROVE  [Abstract!Next]_(Abstract!vars)
<1> USE DEF IInv, TypeOK, Life, Ended, caller, Abstract!vars, Abstract!Moves
<1>1. CASE (\E p \in Pods : ReplicaSet(p) \/ Cluster(p)) \/ ApiClosesWatch \/ Tick
  BY <1>1 DEF ReplicaSet, Cluster, ApiClosesWatch, Tick
<1>2. ASSUME NEW v \in BOOLEAN, SetEnabled(v) PROVE Abstract!Next
  BY <1>2 DEF SetEnabled, Abstract!Next, Abstract!SetEnabled
<1>3. ASSUME NEW t \in Timeouts, SetTimeout(t) PROVE UNCHANGED Abstract!vars
  BY <1>3 DEF SetTimeout
<1>4. CASE Stop
  <2>1. Life' = IF Life = "running" THEN "stopping" ELSE Life
    BY <1>4 DEF Stop
  <2>2. UNCHANGED <<enabled, ctxDone>>
    BY <1>4 DEF Stop
  <2> QED BY <2>1, <2>2 DEF Abstract!Next, Abstract!Stop
<1>5. CASE Cancel
  BY <1>5 DEF Cancel, Abstract!Next, Abstract!Cancel
<1> QED BY <1>1, <1>2, <1>3, <1>4, <1>5

(* To the CRD watcher it is a monkey as the interface ConfigurableWatcher   *)
(* has it (types.go): the safety part of IsMonkey.                         *)
THEOREM ImplementsMonkey == Spec => Abstract!Spec
<1>1. Init => Abstract!Init
  BY DEF Init, Abstract!Init, Life, Ended
<1>2. IInv /\ [Next]_vars => [Abstract!Next]_(Abstract!vars)
  <2>1. UNCHANGED vars => UNCHANGED Abstract!vars
    BY DEF vars, caller, Life, Ended, Abstract!vars
  <2> QED BY <2>1, WatchRefines, OutsideRefines DEF Next
<1> QED BY <1>1, <1>2, Invariance, PTL DEF Spec, Abstract!Spec
=============================================================================
