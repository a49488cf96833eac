---------------------------- MODULE AntiHPAWatcher ----------------------------
(***************************************************************************)
(* The antiPressure monkey (internal/watcher/antihpa.go): a goroutine that *)
(* deletes the pod using the most CPU every time its timer fires. Which    *)
(* pod that is has a module of its own, MostUsedPod; here it is any.       *)
(* AntiPressure composes the two.                                          *)
(***************************************************************************)
EXTENDS Naturals, FiniteSets

CONSTANTS Pods,       \* names of the pods the deployment may have
          NoPod,      \* the empty name, if there is no pod to delete
          MinReplicas \* spec.minReplicas of the CMC, which nothing reads

ASSUME AntiHPAAssumption == NoPod \notin Pods /\ MinReplicas \in Nat

VARIABLES
  pods,    \* API server: the pods the deployment has
  ctxDone,
  enabled, \* a.Enabled
  told,    \* whether Stop was called: before the loop started, or later
  pc,      \* where Start is
  running, \* a.Running
  armed,   \* the timer will fire
  unwanted \* history: deletions since it was disabled or told to stop

caller == <<ctxDone, enabled, told>>
vars   == <<pods, caller, pc, running, armed, unwanted>>

Ended    == pc = "done"
Unwanted == told = "late" \/ ~enabled

(* The timer is created before setRunning(true). *)
Init ==
  /\ pods \in SUBSET Pods
  /\ ctxDone = FALSE
  /\ enabled \in BOOLEAN
  /\ told = "no"
  /\ pc = "created"
  /\ running = FALSE
  /\ armed = TRUE
  /\ unwanted = 0

-----------------------------------------------------------------------------
(* Start. *)

(* SetRunning(true), whatever Stop wrote before it. *)
Begin ==
  /\ pc = "created"
  /\ running' = TRUE
  /\ pc' = "head"
  /\ UNCHANGED <<pods, caller, armed, unwanted>>

(* Mutant: a loop without a condition. *)
LoopForEver ==
  /\ pc = "head"
  /\ pc' = "select"
  /\ UNCHANGED <<pods, caller, running, armed, unwanted>>

LoopAgain ==
  /\ pc = "head"
  /\ pc' = IF running THEN "select" ELSE "done"
  /\ UNCHANGED <<pods, caller, running, armed, unwanted>>

(* <-timer.C of a disabled watcher: the loop continues without a Reset, and *)
(* looks at Running at once.                                               *)
TimerDisabled ==
  /\ pc = "select"
  /\ armed /\ ~enabled
  /\ armed' = FALSE
  /\ pc' = "head"
  /\ UNCHANGED <<pods, caller, running, unwanted>>

(* Mutant: a ticker in the place of the timer. *)
TickerEnabled ==
  /\ pc = "select"
  /\ armed /\ enabled
  /\ pc' = "list"
  /\ UNCHANGED <<pods, caller, running, armed, unwanted>>

(* <-timer.C of an enabled one: the metrics of the pods are asked for.      *)
TimerEnabled ==
  /\ pc = "select"
  /\ armed /\ enabled
  /\ armed' = FALSE
  /\ pc' = "list"
  /\ UNCHANGED <<pods, caller, running, unwanted>>

(* Mutant: the loop continues without a Reset. *)
ListFailsForGood ==
  /\ pc = "list"
  /\ pc' = "head"
  /\ UNCHANGED <<pods, caller, running, armed, unwanted>>

(* No answer: the tick is over. *)
ListFails ==
  /\ pc = "list"
  /\ pc' = "reset"
  /\ UNCHANGED <<pods, caller, running, armed, unwanted>>

ListSucceeds ==
  /\ pc = "list"
  /\ pc' = "delete"
  /\ UNCHANGED <<pods, caller, running, armed, unwanted>>

(* The pod getMostUsedPod returned, or the empty name: its error is not     *)
(* looked at. The Delete may fail, and does if there is no such pod.       *)
Delete(p) ==
  /\ pc = "delete"
  /\ pods' \in {pods, pods \ {p}}
  /\ unwanted' = IF Unwanted THEN unwanted + 1 ELSE unwanted
  /\ pc' = "reset"
  /\ UNCHANGED <<caller, running, armed>>

SelectContext ==
  /\ pc = "select"
  /\ ctxDone
  /\ running' = FALSE
  /\ pc' = "reset"
  /\ UNCHANGED <<pods, caller, armed, unwanted>>

(* Mutant: the timer is not re-armed. *)
NoReset ==
  /\ pc = "reset"
  /\ pc' = "head"
  /\ UNCHANGED <<pods, caller, running, armed, unwanted>>

Reset ==
  /\ pc = "reset"
  /\ armed' = TRUE
  /\ pc' = "head"
  /\ UNCHANGED <<pods, caller, running, unwanted>>

-----------------------------------------------------------------------------
(* The cluster and the CRD watcher. *)

PodsChange ==
  /\ \E p \in Pods : pods' \in {pods \cup {p}, pods \ {p}}
  /\ UNCHANGED <<caller, pc, running, armed, unwanted>>

SetEnabled(v) ==
  /\ told = "no"
  /\ enabled # v /\ enabled' = v
  /\ unwanted' = IF v THEN 0 ELSE unwanted
  /\ UNCHANGED <<pods, ctxDone, told, pc, running, armed>>

(* Nothing wakes the loop up. *)
Stop ==
  /\ told = "no"
  /\ told' = IF pc = "created" THEN "early" ELSE "late"
  /\ running' = FALSE
  /\ UNCHANGED <<pods, ctxDone, enabled, pc, armed, unwanted>>

Cancel ==
  /\ ~ctxDone
  /\ ctxDone' = TRUE
  /\ UNCHANGED <<pods, enabled, told, pc, running, armed, unwanted>>

-----------------------------------------------------------------------------

(* The steps of the loop that do not concern a pod. *)
Turn == \/ Begin
        \/ LoopAgain
        \/ TimerDisabled
        \/ TimerEnabled
        \/ ListFails
        \/ SelectContext
        \/ Reset

Watch == \/ Turn
         \/ ListSucceeds
         \/ \E p \in Pods \cup {NoPod} : Delete(p)

(* The cluster and the CRD watcher. *)
Outside == \/ PodsChange
           \/ \E v \in BOOLEAN : SetEnabled(v)
           \/ Stop
           \/ Cancel

Next == Watch \/ Outside

Spec == Init /\ [][Next]_vars

(* The timer fires if it is armed, calls to the API server return, and a Go *)
(* select does not pass over a case that is ready again and again.         *)
FairSpec == Spec /\ WF_vars(Watch) /\ SF_vars(SelectContext)

-----------------------------------------------------------------------------
(* Properties. *)

TypeOK ==
  /\ pods \in SUBSET Pods
  /\ ctxDone \in BOOLEAN /\ enabled \in BOOLEAN /\ running \in BOOLEAN
  /\ told \in {"no", "early", "late"}
  /\ pc \in {"created", "head", "select", "list", "delete", "reset", "done"}
  /\ armed \in BOOLEAN /\ (pc \in {"list", "delete"} => ~armed)
  /\ unwanted \in Nat

(* Once it is disabled, or stopped after its loop began, the watcher        *)
(* deletes at most one pod more.                                           *)
AtMostOneLateDelete == unwanted <= 1

(* What the CRD watcher sees of it. Without a timer it dozes at the head of *)
(* the loop and sleeps in the select.                                      *)
Life == CASE pc = "created"        -> "starting"
          [] Ended                 -> "done"
          [] pc = "head" /\ ~armed -> IF running THEN "dozing" ELSE "stopping"
          [] pc = "select" /\ ~armed -> IF running THEN "asleep" ELSE "stuck"
          [] OTHER                 -> IF running THEN "running" ELSE "stopping"

Abstract == INSTANCE Monkey WITH Mode <- "antiPressure", life <- Life

(* The watcher is a Monkey, its liveness included. *)
IsMonkey == Abstract!FairSpec

(* A watcher that is never disabled asks for the metrics again and again,   *)
(* whatever becomes of the requests, until it ends.                        *)
EnabledRunsRegularly == []enabled => []<>(pc = "list") \/ <>Ended

(* crds/chaosmonkey-configuration.yaml:138-139: "everytime the timeout      *)
(* expires, the ChaosMonkey will be triggered". One that was disabled when *)
(* its timer fired is never triggered again, enabled or not.               *)
ReEnabledRunsRegularly == <>[]enabled => []<>(pc = "list") \/ <>Ended

(* crds/chaosmonkey-configuration.yaml:124-125: antiPressure "will respect  *)
(* the `minReplicas` value, avoiding to kill a pod if the system is already *)
(* under heavy pressure". It kills whatever is left.                       *)
RespectsMinReplicas ==
  [][pc = "delete" /\ pc' = "reset" /\ pods' # pods
       => Cardinality(pods) > MinReplicas]_vars
=============================================================================
