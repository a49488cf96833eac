------------------------------ MODULE PodWatcher ------------------------------
(***************************************************************************)
(* The killPod monkey (internal/watcher/pod.go): a goroutine that keeps a  *)
(* list of the pods of a deployment, as a watch reports them, and deletes  *)
(* one of the list every time its timer fires.                             *)
(*                                                                         *)
(* Time is counted in ticks. The timer is that of Go 1.22 (go.mod): Reset  *)
(* starts it anew, and leaves a value it has already sent in its channel.  *)
(***************************************************************************)
EXTENDS Naturals, Sequences, FiniteSets

CONSTANTS Pods,     \* names of the pods that may exist
          Timeouts, \* ticks that spec.timeout may be set to
          MaxQueue, \* bound: events under way when the cluster makes another
          None      \* no victim

Event == [type : {"ADDED", "MODIFIED", "DELETED"}, pod : Pods]

ASSUME PodAssumption ==
  /\ IsFiniteSet(Pods) /\ None \notin Pods
  /\ Timeouts \subseteq Nat \ {0}
  /\ MaxQueue \in Nat

(* What may be left of a timeout. *)
Ticks == {n \in Nat : \E t \in Timeouts : n <= t}

(* A list of pods is a bag: how often each pod is in it. Its order does not *)
(* matter, since the victim is drawn at random.                            *)
Empty == [p \in Pods |-> 0]

VARIABLES
  pods,       \* API server: the pods that exist
  queue,      \* events of the current watch not yet received
  watch,      \* "none", "open", or "closed" by the API server
  ctxDone,
  enabled,    \* p.Enabled
  timeout,    \* p.Timeout
  told,       \* whether Stop was called: before the loop started, or later
  pc,         \* where Start is
  running,    \* p.Running
  left,       \* ticks until the timer fires, 0 when it is not armed
  fired,      \* its channel holds a value
  podList,    \* p.PodList
  podsActive, \* the list whose length the gauge of that name shows
  victim,     \* the pod to delete
  unwanted    \* history: deletions since it was disabled or told to stop

api    == <<pods, queue, watch>>
caller == <<ctxDone, enabled, timeout, told>>
timer  == <<left, fired>>
list   == <<podList, podsActive>>
vars   == <<api, caller, pc, running, timer, list, victim, unwanted>>

Ended    == pc \in {"done", "panicked"}
Unwanted == told = "late" \/ ~enabled

(* The watcher is new, and configured. *)
Init ==
  /\ pods \in SUBSET Pods
  /\ queue = <<>>
  /\ watch = "none"
  /\ ctxDone = FALSE
  /\ enabled \in BOOLEAN
  /\ timeout \in Timeouts
  /\ told = "no"
  /\ pc = "created"
  /\ running = FALSE
  /\ left = 0
  /\ fired = FALSE
  /\ podList = Empty
  /\ podsActive = Empty
  /\ victim = None
  /\ unwanted = 0

-----------------------------------------------------------------------------
(* The API server and the cluster. *)

Emit(type, p) == queue' = IF watch = "open"
                          THEN Append(queue, [type |-> type, pod |-> p])
                          ELSE queue

PodAppears(p) ==
  /\ p \notin pods /\ pods' = pods \cup {p}
  /\ Emit("ADDED", p)

PodChanges(p) ==
  /\ p \in pods /\ watch = "open" /\ UNCHANGED pods
  /\ Emit("MODIFIED", p)

PodVanishes(p) ==
  /\ p \in pods /\ pods' = pods \ {p}
  /\ Emit("DELETED", p)

(* The deployment gets a pod, one that was killed or another. *)
ReplicaSet(p) ==
  /\ watch = "open" => Len(queue) < MaxQueue
  /\ PodAppears(p)
  /\ UNCHANGED <<watch, caller, pc, running, timer, list, victim, unwanted>>

(* A pod changes its status, is evicted or scaled away. *)
Cluster(p) ==
  /\ watch = "open" => Len(queue) < MaxQueue
  /\ PodChanges(p) \/ PodVanishes(p)
  /\ UNCHANGED <<watch, caller, pc, running, timer, list, victim, unwanted>>

(* TimeoutSeconds, or a lost connection. *)
ApiClosesWatch ==
  /\ watch = "open"
  /\ watch' = "closed"
  /\ queue' = <<>>
  /\ UNCHANGED <<pods, caller, pc, running, timer, list, victim, unwanted>>

(* A new watch starts with one synthetic ADDED event per pod. *)
Listing ==
  LET orders == {o \in [1 .. Cardinality(pods) -> pods] :
                   \A i, j \in DOMAIN o : o[i] = o[j] => i = j}
  IN  {[i \in DOMAIN o |-> [type |-> "ADDED", pod |-> o[i]]] : o \in orders}

WatchOpens == watch' = "open" /\ queue' \in Listing /\ UNCHANGED pods

-----------------------------------------------------------------------------
(* Start. *)

(* Mutant: the timeout is added to what is left. *)
Prolong == left' = left + timeout /\ UNCHANGED fired

Reset == left' = timeout /\ UNCHANGED fired

(* The first Watch succeeds: setRunning(true), whatever Stop wrote before.  *)
StartWatches ==
  /\ pc = "created"
  /\ WatchOpens
  /\ running' = TRUE
  /\ Reset
  /\ pc' = "head"
  /\ UNCHANGED <<caller, list, victim, unwanted>>

StartFails ==
  /\ pc = "created"
  /\ pc' = "done"
  /\ UNCHANGED <<api, caller, running, timer, list, victim, unwanted>>

(* Mutant: a loop without a condition. *)
LoopForEver ==
  /\ pc = "head"
  /\ pc' = "entering"
  /\ UNCHANGED <<api, caller, running, timer, list, victim, unwanted>>

LoopAgain ==
  /\ pc = "head"
  /\ pc' = IF running THEN "entering" ELSE "done"
  /\ UNCHANGED <<api, caller, running, timer, list, victim, unwanted>>

EnterSelect ==
  /\ pc = "entering"
  /\ pc' = "select"
  /\ UNCHANGED <<api, caller, running, timer, list, victim, unwanted>>

(* addPodToList *)
AddPodToList(p) ==
  /\ podList' = [podList EXCEPT ![p] = @ + 1]
  /\ podsActive' = podList'

(* removePodFromList: every entry with this name. *)
RemovePodFromList(p) ==
  /\ podList' = [podList EXCEPT ![p] = 0]
  /\ podsActive' = podList'

SelectEvent ==
  /\ pc = "select"
  /\ queue # <<>>
  /\ queue' = Tail(queue)
  /\ LET e == Head(queue) IN
       CASE e.type = "ADDED"    -> AddPodToList(e.pod)
         [] e.type = "DELETED"  -> RemovePodFromList(e.pod)
         [] e.type = "MODIFIED" -> UNCHANGED list
  /\ Reset
  /\ pc' = "head"
  /\ UNCHANGED <<pods, watch, caller, running, victim, unwanted>>

(* An error event carries a Status, which the unchecked type assertion does *)
(* not survive: the panic runs the deferred Close and ends the process. An  *)
(* error event that does carry a pod ends the loop.                        *)
SelectErrorEvent ==
  /\ pc = "select"
  /\ watch = "open" /\ queue = <<>>
  /\ \/ pc' = "unwinding" /\ UNCHANGED <<timer, running>>
     \/ pc' = "head" /\ running' = FALSE /\ Reset
  /\ UNCHANGED <<api, caller, list, victim, unwanted>>

Unwind ==
  /\ pc = "unwinding"
  /\ pc' = "panicked"
  /\ UNCHANGED <<api, caller, running, timer, list, victim, unwanted>>

(* Mutant: the list is kept. *)
ClosedKeepsList ==
  /\ pc = "select"
  /\ watch = "closed"
  /\ pc' = "restarting"
  /\ UNCHANGED <<api, caller, running, timer, list, victim, unwanted>>

(* The watch timed out: restartWatch empties the list and, with the Mutex   *)
(* held, watches again.                                                    *)
SelectClosed ==
  /\ pc = "select"
  /\ watch = "closed"
  /\ podList' = Empty
  /\ pc' = "restarting"
  /\ UNCHANGED <<api, caller, running, timer, podsActive, victim, unwanted>>

RestartWatches ==
  /\ pc = "restarting"
  /\ WatchOpens
  /\ Reset
  /\ pc' = "head"
  /\ UNCHANGED <<caller, running, list, victim, unwanted>>

RestartFails ==
  /\ pc = "restarting"
  /\ running' = FALSE
  /\ Reset
  /\ pc' = "head"
  /\ UNCHANGED <<api, caller, list, victim, unwanted>>

(* Mutant: the cancellation is only logged. *)
ContextLogged ==
  /\ pc = "select"
  /\ ctxDone
  /\ Reset
  /\ pc' = "head"
  /\ UNCHANGED <<api, caller, running, list, victim, unwanted>>

SelectContext ==
  /\ pc = "select"
  /\ ctxDone
  /\ running' = FALSE
  /\ Reset
  /\ pc' = "head"
  /\ UNCHANGED <<api, caller, list, victim, unwanted>>

(* Mutant: a disabled watcher continues without a Reset. *)
DisabledIsNotRearmed ==
  /\ ~enabled \/ podList = Empty
  /\ left' = IF enabled THEN timeout ELSE left
  /\ pc' = "head"
  /\ UNCHANGED victim

(* <-timer.C of a watcher that is disabled, or has no pod to kill. *)
NothingToKill ==
  /\ ~enabled \/ podList = Empty
  /\ left' = timeout
  /\ pc' = "head"
  /\ UNCHANGED victim

(* getRandomPod *)
PickVictim ==
  /\ enabled
  /\ \E p \in Pods : podList[p] > 0 /\ victim' = p
  /\ pc' = "kill"
  /\ UNCHANGED left

SelectTimer ==
  /\ pc = "select"
  /\ fired
  /\ fired' = FALSE
  /\ NothingToKill \/ PickVictim
  /\ UNCHANGED <<api, caller, running, list, unwanted>>

(* Delete with no grace period: it fails when the pod is gone. *)
Kill ==
  /\ pc = "kill"
  /\ \/ victim \in pods /\ PodVanishes(victim)
     \/ UNCHANGED <<pods, queue>>
  /\ unwanted' = IF Unwanted THEN unwanted + 1 ELSE unwanted
  /\ victim' = None
  /\ Reset
  /\ pc' = "head"
  /\ UNCHANGED <<watch, caller, running, list>>

(* Time passes. *)
Tick ==
  /\ left > 0 /\ ~Ended
  /\ left' = left - 1
  /\ fired' = (fired \/ left = 1)
  /\ UNCHANGED <<api, caller, pc, running, list, victim, unwanted>>

-----------------------------------------------------------------------------
(* The CRD watcher: these need the Mutex. *)

SetEnabled(v) ==
  /\ told = "no" /\ pc \notin {"restarting", "panicked"}
  /\ enabled # v /\ enabled' = v
  /\ unwanted' = IF v THEN 0 ELSE unwanted
  /\ UNCHANGED <<api, ctxDone, timeout, told, pc, running, timer, list, victim>>

(* The timer goes on with the timeout that it was started with. *)
SetTimeout(t) ==
  /\ told = "no" /\ pc \notin {"restarting", "panicked"}
  /\ timeout # t /\ timeout' = t
  /\ UNCHANGED <<api, ctxDone, enabled, told, pc, running, timer, list, victim, unwanted>>

(* The loop wakes up if it is waiting in the select, otherwise the send on  *)
(* ForceStopChan is given up.                                              *)
Stop ==
  /\ told = "no" /\ pc \notin {"restarting", "panicked"}
  /\ told' = IF pc = "created" THEN "early" ELSE "late"
  /\ running' = FALSE
  /\ IF pc = "select" THEN pc' = "head" /\ Reset ELSE UNCHANGED <<pc, timer>>
  /\ UNCHANGED <<api, ctxDone, enabled, timeout, list, victim, unwanted>>

Cancel ==
  /\ ~ctxDone /\ pc # "panicked"
  /\ ctxDone' = TRUE
  /\ UNCHANGED <<api, enabled, timeout, told, pc, running, timer, list, victim, unwanted>>

-----------------------------------------------------------------------------

Select == \/ SelectEvent
          \/ SelectClosed
          \/ SelectContext
          \/ SelectTimer

Watch == \/ StartWatches
         \/ StartFails
         \/ LoopAgain
         \/ EnterSelect
         \/ Select
         \/ Unwind
         \/ RestartWatches
         \/ RestartFails
         \/ Kill

Next == \/ \E p \in Pods : ReplicaSet(p) \/ Cluster(p)
        \/ ApiClosesWatch
        \/ Watch
        \/ SelectErrorEvent
        \/ Tick
        \/ \E v \in BOOLEAN : SetEnabled(v)
        \/ \E t \in Timeouts : SetTimeout(t)
        \/ Stop
        \/ Cancel

Spec == Init /\ [][Next]_vars

(* Time passes, calls to the API server return, and a Go select does not    *)
(* pass over a case that is ready again and again. Nothing makes the API    *)
(* server send an error event.                                             *)
FairSpec == /\ Spec
            /\ WF_vars(Tick)
            /\ WF_vars(Watch)
            /\ SF_vars(SelectContext)
            /\ SF_vars(SelectTimer)

-----------------------------------------------------------------------------
(* Properties. *)

TypeOK ==
  /\ pods \subseteq Pods
  /\ queue \in Seq(Event)
  /\ watch \in {"none", "open", "closed"}
  /\ ctxDone \in BOOLEAN /\ enabled \in BOOLEAN /\ running \in BOOLEAN
  /\ told \in {"no", "early", "late"}
  /\ pc \in {"created", "head", "entering", "select", "restarting", "kill",
            "unwinding", "done", "panicked"}
  /\ timeout \in Timeouts
  /\ left \in Ticks /\ fired \in BOOLEAN
  /\ podList \in [Pods -> Nat] /\ podsActive \in [Pods -> Nat]
  /\ victim \in Pods \cup {None}
  /\ (victim # None) = (pc = "kill")
  /\ unwanted \in Nat

(* With an open watch, the list holds every pod that has no event under way *)
(* exactly once if it exists, and not at all otherwise: not after a restart *)
(* that lists everything again, nor after the watcher's own deletions.     *)
ListReflectsApi ==
  watch = "open" =>
    \A p \in Pods :
      \/ \E i \in DOMAIN queue : queue[i].pod = p
      \/ podList[p] = IF p \in pods THEN 1 ELSE 0

(* Once it is disabled, or stopped after its loop began, the watcher        *)
(* deletes at most one pod more.                                           *)
AtMostOneLateKill == unwanted <= 1

(* What the CRD watcher sees of it. *)
Life == IF pc = "created" THEN "starting"
        ELSE IF Ended THEN "done"
        ELSE IF running /\ pc # "unwinding" THEN "running" ELSE "stopping"

Abstract == INSTANCE Monkey WITH Mode <- "killPod", life <- Life

(* The watcher is a Monkey, its liveness included. *)
IsMonkey == Abstract!FairSpec

(* From some moment on nothing but the watcher disturbs the pods: those it  *)
(* kills may be replaced.                                                  *)
Settles == <>[][~ApiClosesWatch /\ \A p \in Pods : ~Cluster(p)]_vars

(* In a cluster that settles, an enabled watcher kills again and again as   *)
(* long as it has pods to kill, until it is stopped (pod.go:224-261).       *)
SettledClusterIsDisturbed ==
  Settles /\ <>[]enabled => []<>(pc = "kill" \/ podList = Empty) \/ <>Ended

(* README.md:100-101: "at regular intervals, specified by the spec.timeout   *)
(* field of the CRD, it will randomly kill a pod". Events of the watch that *)
(* come faster than that keep re-arming the timer.                         *)
KillsRegularly ==
  <>[](enabled /\ podList # Empty) => []<>(pc = "kill") \/ <>Ended

(* README.md:285: podsActive shows the pods currently being targeted. After *)
(* a restart it shows those that were.                                     *)
GaugeShowsList ==
  pc = "select" /\ watch = "open" /\ queue = <<>> => podsActive = podList

(* tests/kubetest.sh:184: "Checking that chaosmonkey did not crash even     *)
(* once". An error event of the API server crashes it.                     *)
ErrorEventIsHandled == pc # "unwinding"
=============================================================================
