--------------------------- MODULE DeploymentWatcher ---------------------------
(***************************************************************************)
(* The randomScale monkey (internal/watcher/deployment.go): a goroutine    *)
(* that sets the replicas of a deployment every time its timer fires. The  *)
(* CRD watcher reconfigures and stops it from another goroutine; each of   *)
(* their accesses to a field takes the Mutex for itself, and nothing keeps *)
(* two accesses together.                                                  *)
(***************************************************************************)
EXTENDS Naturals

CONSTANTS Configs \* the configurations a CMC may have

Config == [enabled : BOOLEAN, min : Nat, max : Nat]

(* The schema of the CRD rejects any other replica bounds. *)
ASSUME DeploymentAssumption ==
  Configs \subseteq {c \in Config : c.min <= c.max}

MaxConsecutiveErrors == 5

VARIABLES
  conf,     \* d.Enabled, d.MinReplicas, d.MaxReplicas
  wanted,   \* the configuration the CRD watcher is setting, or has set
  setting,  \* the setter it calls next, or "none"
  told,     \* whether it called Stop: before the loop started, or later
  ctxDone,
  pc,       \* where Start is
  running,  \* d.Running
  errors,   \* consecutiveErrors
  replicas, \* rng.Intn(max + 1), then newReplicas
  inForce,  \* history: configurations in force since the timer fired
  unwanted, \* history: scalings since it was disabled or told to stop
  failures  \* API server: scalings that failed since the last that did not

fields == <<conf, wanted, setting>>
loop   == <<pc, running, errors, replicas>>
past   == <<inForce, unwanted, failures>>
vars   == <<fields, told, ctxDone, loop, past>>

Ticking == pc \in {"max", "min", "scale"}
Ended   == pc \in {"done", "failed"}

(* When nobody wants it to scale. *)
Unwanted == told = "late" \/ ~conf.enabled

(* addWatcher configures the watcher before it is launched. *)
Init ==
  /\ conf \in Configs
  /\ wanted = conf
  /\ setting = "none"
  /\ told = "no"
  /\ ctxDone \in BOOLEAN
  /\ pc = "created"
  /\ running = FALSE
  /\ errors = 0
  /\ replicas = 0
  /\ inForce = {conf}
  /\ unwanted = 0
  /\ failures = 0

-----------------------------------------------------------------------------
(* Start. *)

(* setRunning(true), whatever Stop wrote before it. *)
Begin ==
  /\ pc = "created"
  /\ running' = TRUE
  /\ pc' = "head"
  /\ UNCHANGED <<fields, told, ctxDone, errors, replicas, past>>

(* for d.IsRunning(): the Mutex is released before the select is entered.   *)
LoopAgain ==
  /\ pc = "head"
  /\ pc' = IF running THEN "entering" ELSE "done"
  /\ UNCHANGED <<fields, told, ctxDone, running, errors, replicas, past>>

EnterSelect ==
  /\ pc = "entering"
  /\ pc' = "select"
  /\ UNCHANGED <<fields, told, ctxDone, running, errors, replicas, past>>

(* Mutant: the Enabled flag is not looked at. *)
TimerUnchecked ==
  /\ pc = "select"
  /\ pc' = "max"
  /\ inForce' = IF setting = "none" THEN {wanted} ELSE inForce
  /\ UNCHANGED <<fields, told, ctxDone, running, errors, replicas, unwanted, failures>>

(* <-timer.C, and d.isEnabled() *)
SelectTimer ==
  /\ pc = "select"
  /\ pc' = IF conf.enabled THEN "max" ELSE "after"
  /\ inForce' = IF setting = "none" THEN {wanted} ELSE inForce
  /\ UNCHANGED <<fields, told, ctxDone, running, errors, replicas, unwanted, failures>>

(* rng.Intn(d.getMaxReplicas()+1) *)
Draw ==
  /\ pc = "max"
  /\ replicas' \in 0 .. conf.max
  /\ pc' = "min"
  /\ UNCHANGED <<fields, told, ctxDone, running, errors, past>>

(* Mutant: min instead of max. *)
AtMostMin ==
  /\ pc = "min"
  /\ replicas' = IF replicas < conf.min THEN replicas ELSE conf.min
  /\ pc' = "scale"
  /\ UNCHANGED <<fields, told, ctxDone, running, errors, past>>

(* max(..., d.getMinReplicas()) *)
AtLeastMin ==
  /\ pc = "min"
  /\ replicas' = IF replicas < conf.min THEN conf.min ELSE replicas
  /\ pc' = "scale"
  /\ UNCHANGED <<fields, told, ctxDone, running, errors, past>>

(* Mutant: a success does not reset the count. *)
ScaleCountsAll ==
  /\ pc = "scale"
  /\ \E ok \in BOOLEAN :
       /\ errors' = IF ok THEN errors ELSE errors + 1
       /\ failures' = IF ok THEN 0 ELSE failures + 1
  /\ unwanted' = IF Unwanted THEN unwanted + 1 ELSE unwanted
  /\ pc' = "after"
  /\ replicas' = 0
  /\ UNCHANGED <<fields, told, ctxDone, running, inForce>>

(* scaleDeployment, and the count of the errors in a row. *)
Scale ==
  /\ pc = "scale"
  /\ \E ok \in BOOLEAN :
       /\ errors' = IF ok THEN 0 ELSE errors + 1
       /\ failures' = IF ok THEN 0 ELSE failures + 1
  /\ unwanted' = IF Unwanted THEN unwanted + 1 ELSE unwanted
  /\ pc' = "after"
  /\ replicas' = 0
  /\ UNCHANGED <<fields, told, ctxDone, running, inForce>>

(* Mutant: the cancellation is only logged. *)
ContextLogged ==
  /\ pc = "select"
  /\ ctxDone
  /\ pc' = "after"
  /\ UNCHANGED <<fields, told, ctxDone, running, errors, replicas, past>>

SelectContext ==
  /\ pc = "select"
  /\ ctxDone
  /\ running' = FALSE
  /\ pc' = "after"
  /\ UNCHANGED <<fields, told, ctxDone, errors, replicas, past>>

(* Mutant: more than five. *)
CheckErrorsLate ==
  /\ pc = "after"
  /\ IF errors > MaxConsecutiveErrors
     THEN pc' = "bailing" /\ running' = FALSE
     ELSE pc' = "head" /\ UNCHANGED running
  /\ UNCHANGED <<fields, told, ctxDone, errors, replicas, past>>

(* After the select: too many errors end the loop with a Stop of its own,   *)
(* otherwise the timer is re-armed.                                        *)
CheckErrors ==
  /\ pc = "after"
  /\ IF errors >= MaxConsecutiveErrors
     THEN pc' = "bailing" /\ running' = FALSE
     ELSE pc' = "head" /\ UNCHANGED running
  /\ UNCHANGED <<fields, told, ctxDone, errors, replicas, past>>

BailOut ==
  /\ pc = "bailing"
  /\ pc' = "failed"
  /\ UNCHANGED <<fields, told, ctxDone, running, errors, replicas, past>>

-----------------------------------------------------------------------------
(* The CRD watcher. *)

(* modifyWatcher hands over a new configuration: SetEnabled first.         *)
SetEnabled(c) ==
  /\ setting = "none" /\ told = "no"
  /\ wanted' = c
  /\ conf' = [conf EXCEPT !.enabled = c.enabled]
  /\ setting' = "min"
  /\ inForce' = IF Ticking THEN inForce \cup {c} ELSE {wanted, c}
  /\ unwanted' = IF c.enabled THEN 0 ELSE unwanted
  /\ UNCHANGED <<told, ctxDone, loop, failures>>

SetMinReplicas ==
  /\ setting = "min"
  /\ conf' = [conf EXCEPT !.min = wanted.min]
  /\ setting' = "max"
  /\ UNCHANGED <<wanted, told, ctxDone, loop, past>>

SetMaxReplicas ==
  /\ setting = "max"
  /\ conf' = [conf EXCEPT !.max = wanted.max]
  /\ setting' = "none"
  /\ UNCHANGED <<wanted, told, ctxDone, loop, past>>

(* Mutant: the loop is woken up, and finds Running still set. *)
StopWakesOnly ==
  /\ setting = "none" /\ told = "no"
  /\ told' = IF pc = "created" THEN "early" ELSE "late"
  /\ pc' = IF pc = "select" THEN "after" ELSE pc
  /\ UNCHANGED <<fields, ctxDone, running, errors, replicas, past>>

(* Stop clears Running, and wakes the loop if it is waiting in the select;  *)
(* otherwise the send on ForceStopChan is given up. The CRD watcher forgets *)
(* the watcher, so there is one Stop at most.                              *)
Stop ==
  /\ setting = "none" /\ told = "no"
  /\ told' = IF pc = "created" THEN "early" ELSE "late"
  /\ running' = FALSE
  /\ pc' = IF pc = "select" THEN "after" ELSE pc
  /\ UNCHANGED <<fields, ctxDone, errors, replicas, past>>

Cancel ==
  /\ ~ctxDone
  /\ ctxDone' = TRUE
  /\ UNCHANGED <<fields, told, loop, past>>

-----------------------------------------------------------------------------

Watch == \/ Begin
         \/ LoopAgain
         \/ EnterSelect
         \/ SelectTimer
         \/ Draw
         \/ AtLeastMin
         \/ Scale
         \/ SelectContext
         \/ CheckErrors
         \/ BailOut

Next == \/ Watch
        \/ \E c \in Configs : SetEnabled(c)
        \/ SetMinReplicas
        \/ SetMaxReplicas
        \/ Stop
        \/ Cancel

Spec == Init /\ [][Next]_vars

(* The timer fires, the calls to the API server return, and a Go select     *)
(* does not pass over a ready case for ever.                               *)
FairSpec == Spec /\ WF_vars(Watch) /\ SF_vars(SelectContext)

-----------------------------------------------------------------------------
(* Properties. *)

TypeOK ==
  /\ conf \in Config /\ wanted \in Configs
  /\ setting \in {"none", "min", "max"}
  /\ told \in {"no", "early", "late"}
  /\ ctxDone \in BOOLEAN /\ running \in BOOLEAN
  /\ pc \in {"created", "head", "entering", "select", "max", "min", "scale", "after",
            "bailing", "done", "failed"}
  /\ errors \in 0 .. MaxConsecutiveErrors
  /\ replicas \in Nat /\ unwanted \in Nat /\ failures \in Nat
  /\ inForce \subseteq Configs

(* The replicas are never below the lowest minimum nor above the highest    *)
(* maximum of the configurations in force during the tick, however the     *)
(* reads of deployment.go:180 and the setters of crd.go:597-599 interleave. *)
ScaleWithinHull ==
  pc = "scale" => \E a, b \in inForce : a.min <= replicas /\ replicas <= b.max

(* Once it is disabled, or stopped after its loop began, the watcher scales *)
(* at most once more: a tick already under way, or one the missed wake-up  *)
(* of Stop lets happen (deployment.go:287-291).                            *)
AtMostOneLateScale == unwanted <= 1

(* It gives up on the fifth scaling in a row the API server refuses, not    *)
(* earlier and not later; disabled ticks in between do not count.          *)
BailsOutOnFifth ==
  /\ pc \in {"bailing", "failed"} => failures = MaxConsecutiveErrors
  /\ pc \in {"head", "entering", "select", "scale"} => failures < MaxConsecutiveErrors

(* A Stop that comes after the loop began ends it. *)
LateStopEnds == told = "late" ~> Ended

(* What the CRD watcher sees of it. *)
Life == IF pc = "created" THEN "starting"
        ELSE IF Ended THEN "done"
        ELSE IF running THEN "running" ELSE "stopping"

Abstract == INSTANCE Monkey WITH Mode <- "randomScale", life <- Life,
                                 enabled <- conf.enabled

(* The watcher is a Monkey, its liveness included. *)
IsMonkey == Abstract!FairSpec

(* crds/chaosmonkey-configuration.yaml:115-116: randomScale modifies the    *)
(* replicas "respecting the `minReplicas` and `maxReplicas` values". A tick *)
(* that reads the maximum before and the minimum after the setters of a    *)
(* modification respects neither the old nor the new ones.                 *)
ScaleWithinConfiguration ==
  pc = "scale" => \E c \in inForce : c.min <= replicas /\ replicas <= c.max
=============================================================================
