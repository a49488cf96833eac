------------------------------- MODULE Monkey -------------------------------
(***************************************************************************)
(* What a chaos monkey promises the CRD watcher that launched it: the      *)
(* interface ConfigurableWatcher (internal/watcher/types.go) seen from     *)
(* outside. The same states and the same steps as the monkeys of module    *)
(* CrdWatcher, for one of them; DeploymentWatcher, PodWatcher and          *)
(* AntiHPAWatcher, the three that exist, are shown to implement it.        *)
(*                                                                         *)
(*   starting  goroutine launched, setRunning(true) not yet executed       *)
(*   running   in its loop                                                 *)
(*   dozing    its timer fired, and nothing will ever re-arm it            *)
(*   asleep    in the select, with that timer                              *)
(*   stopping  Running = FALSE, the loop has not noticed yet               *)
(*   stuck     asleep and Running = FALSE: only the context wakes it       *)
(*   done      Start has returned                                          *)
(***************************************************************************)
CONSTANT Mode \* the scaling mode: which of the three it is

VARIABLES life, enabled, ctxDone

vars == <<life, enabled, ctxDone>>

TypeOK ==
  /\ life \in {"starting", "running", "dozing", "asleep", "stopping", "stuck", "done"}
  /\ enabled \in BOOLEAN
  /\ ctxDone \in BOOLEAN

Init ==
  /\ life = "starting"
  /\ enabled \in BOOLEAN
  /\ ctxDone \in BOOLEAN

Moves(from, to) ==
  /\ life \in from
  /\ life' = to
  /\ UNCHANGED <<enabled, ctxDone>>

(* setRunning(true), whatever Stop wrote before it. *)
Runs == Moves({"starting"}, "running")

(* The loop sees that the Running flag is cleared. *)
NoticesStop == Moves({"stopping"}, "done")

(* The select, the sleeping one too, sees the cancelled context. *)
NoticesContext == ctxDone /\ Moves({"running", "asleep", "stuck"}, "stopping")

(* It clears Running itself, after too many errors. *)
GivesUp == Mode # "antiPressure" /\ Moves({"running"}, "stopping")

(* The first Watch of a PodWatcher fails. *)
FailsToStart == Mode = "killPod" /\ Moves({"starting"}, "done")

(* The timer of a disabled AntiHPAWatcher fires and is not re-armed. *)
LosesTimer == Mode = "antiPressure" /\ ~enabled /\ Moves({"running"}, "dozing")

(* It finds Running still set, and enters the select again. *)
FallsAsleep == Moves({"dozing"}, "asleep")

(* Stop has no effect on a monkey in any other state. *)
Stop == Moves({"running", "dozing"}, "stopping") \/ Moves({"asleep"}, "stuck")

SetEnabled ==
  /\ enabled' \in BOOLEAN
  /\ UNCHANGED <<life, ctxDone>>

Cancel ==
  /\ ctxDone' = TRUE
  /\ UNCHANGED <<life, enabled>>

Next == \/ Runs
        \/ NoticesStop
        \/ NoticesContext
        \/ GivesUp
        \/ FailsToStart
        \/ LosesTimer
        \/ FallsAsleep
        \/ Stop
        \/ SetEnabled
        \/ Cancel

Spec == Init /\ [][Next]_vars

FairSpec ==
  /\ Spec
  /\ WF_vars(Runs)
  /\ WF_vars(NoticesStop)
  /\ WF_vars(NoticesContext)
  /\ WF_vars(FallsAsleep)
=============================================================================
