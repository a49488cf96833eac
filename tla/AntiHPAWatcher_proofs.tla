------------------------ MODULE AntiHPAWatcher_proofs ------------------------
(***************************************************************************)
(* Proofs about AntiHPAWatcher, for any set of pods.                       *)
(***************************************************************************)
EXTENDS AntiHPAWatcher, TLAPS

(* A watcher that was stopped late has Running cleared for good. One that   *)
(* has deleted a pod too many is not about to delete another: it will find  *)
(* itself disabled, or Running cleared, before it asks for the metrics. The *)
(* timer runs before the loop does.                                        *)
Settled ==
  /\ pc = "created" => armed
  /\ told = "late" => ~running /\ pc # "created"
  /\ unwanted \in {0, 1}
  /\ unwanted = 1 => /\ Unwanted
                     /\ pc \notin {"created", "list", "delete"}
                     /\ enabled => pc # "select"

IInv == TypeOK /\ Settled

USE AntiHPAAssumption

LEMMA InitIInv == Init => IInv
<1> SUFFICES ASSUME Init PROVE TypeOK /\ Settled
  BY DEF IInv
<1>1. TypeOK
  BY DEF Init, TypeOK
<1>2. Settled
  BY DEF Init, Settled
<1> QED BY <1>1, <1>2

(* The steps of the loop. *)
LEMMA LoopIInv == IInv /\ Watch => IInv'
<1> SUFFICES ASSUME IInv, Watch PROVE IInv'
  OBVIOUS
<1> USE DEF IInv, TypeOK, Settled, Unwanted, caller
<1>1. CASE Begin
  BY <1>1 DEF Begin
<1>2. CASE LoopAgain
  BY <1>2 DEF LoopAgain
<1>3. CASE TimerDisabled
  BY <1>3 DEF TimerDisabled
<1>4. CASE TimerEnabled
  BY <1>4 DEF TimerEnabled
<1>5. CASE ListFails
  BY <1>5 DEF ListFails
<1>6. CASE ListSucceeds
  BY <1>6 DEF ListSucceeds
<1>7. ASSUME NEW p \in Pods \cup {NoPod}, Delete(p) PROVE IInv'
  <2>1. pods' \in SUBSET Pods
    BY <1>7 DEF Delete
  <2>2. /\ unwanted = 0 /\ pc' = "reset"
        /\ unwanted' = IF Unwanted THEN 1 ELSE 0
        /\ UNCHANGED <<caller, running, armed>>
    BY <1>7 DEF Delete
  <2> QED BY <2>1, <2>2
<1>8. CASE SelectContext
  BY <1>8 DEF SelectContext
<1>9. CASE Reset
  BY <1>9 DEF Reset
<1> QED BY <1>1, <1>2, <1>3, <1>4, <1>5, <1>6, <1>7, <1>8, <1>9 DEF Watch, Turn

(* What the cluster and the CRD watcher do. *)
LEMMA OutsideIInv == IInv /\ Outside => IInv'
<1> SUFFICES ASSUME IInv, Outside PROVE IInv'
  OBVIOUS
<1> USE DEF IInv, TypeOK, Settled, Unwanted, caller
<1>1. CASE PodsChange
  BY <1>1 DEF PodsChange
<1>2. ASSUME NEW v \in BOOLEAN, SetEnabled(v) PROVE IInv'
  <2>1. CASE v
    BY <1>2, <2>1 DEF SetEnabled
  <2>2. CASE ~v
    BY <1>2, <2>2 DEF SetEnabled
  <2> QED BY <2>1, <2>2
<1>3. CASE Stop
  BY <1>3 DEF Stop
<1>4. CASE Cancel
  BY <1>4 DEF Cancel
<1> QED BY <1>1, <1>2, <1>3, <1>4 DEF Outside

LEMMA NextIInv == IInv /\ [Next]_vars => IInv'
<1>1. IInv /\ UNCHANGED vars => IInv'
  BY DEF IInv, TypeOK, Settled, Unwanted, vars, caller
<1> QED BY <1>1, LoopIInv, OutsideIInv DEF Next

(* IInv holds in every reachable state. *)
THEOREM Invariance == Spec => []IInv
  BY InitIInv, NextIInv, PTL DEF Spec

(* Every variable keeps its type, and the timer of a tick that has begun    *)
(* has fired.                                                              *)
THEOREM TypeCorrect == Spec => []TypeOK
<1>1. IInv => TypeOK
  BY DEF IInv
<1> QED BY <1>1, Invariance, PTL

(* A watcher that was disabled, or stopped after its loop began, deletes at *)
(* most one pod more (antihpa.go:237-262).                                 *)
THEOREM OneLateDeleteAtMost == Spec => []AtMostOneLateDelete
<1>1. IInv => AtMostOneLateDelete
  BY DEF IInv, Settled, AtMostOneLateDelete
<1> QED BY <1>1, Invariance, PTL

-----------------------------------------------------------------------------
(* Refinement. *)

LEMMA InitRefines == Init => Abstract!Init
  BY DEF Init, Abstract!Init, Life, Ended

(* A step of the loop is the step of a monkey of which the CRD watcher      *)
(* would say the same, or changes nothing that it can observe.             *)
LEMMA WatchRefines == IInv /\ Watch => [Abstract!Next]_(Abstract!vars)
<1> SUFFICES ASSUME IInv, Watch PROVE Abstract!Next \/ UNCHANGED Abstract!vars
  OBVIOUS
<1> USE DEF IInv, TypeOK, Settled, Life, Ended, caller, Abstract!vars, Abstract!Moves
<1>1. CASE Begin
  BY <1>1 DEF Begin, Abstract!Next, Abstract!Runs
<1>2. CASE LoopAgain
  BY <1>2 DEF LoopAgain, Abstract!Next, Abstract!NoticesStop, Abstract!FallsAsleep
<1>3. CASE TimerDisabled
  BY <1>3 DEF TimerDisabled, Abstract!Next, Abstract!LosesTimer
<1>4. CASE TimerEnabled
  BY <1>4 DEF TimerEnabled
<1>5. CASE ListFails
  BY <1>5 DEF ListFails
<1>6. CASE ListSucceeds
  BY <1>6 DEF ListSucceeds
<1>7. ASSUME NEW p \in Pods \cup {NoPod}, Delete(p) PROVE UNCHANGED Abstract!vars
  BY <1>7 DEF Delete
<1>8. CASE SelectContext
  BY <1>8 DEF SelectContext, Abstract!Next, Abstract!NoticesContext
<1>9. CASE Reset
  BY <1>9 DEF Reset
<1> QED BY <1>1, <1>2, <1>3, <1>4, <1>5, <1>6, <1>7, <1>8, <1>9 DEF Watch, Turn

LEMMA OutsideRefines == IInv /\ Outside => [Abstract!Next]_(Abstract!vars)
<1> SUFFICES ASSUME IInv, Outside PROVE Abstract!Next \/ UNCHANGED Abstract!vars
  OBVIOUS
<1> USE DEF IInv, TypeOK, Settled, Life, Ended, caller, Abstract!vars, Abstract!Moves
<1>1. CASE PodsChange
  BY <1>1 DEF PodsChange
<1>2. ASSUME NEW v \in BOOLEAN, SetEnabled(v) PROVE Abstract!Next
  BY <1>2 DEF SetEnabled, Abstract!Next, Abstract!SetEnabled
<1>3. CASE Stop
  BY <1>3 DEF Stop, Abstract!Next, Abstract!Stop
<1>4. CASE Cancel
  BY <1>4 DEF Cancel, Abstract!Next, Abstract!Cancel
<1> QED BY <1>1, <1>2, <1>3, <1>4 DEF Outside

(* To the CRD watcher it is a monkey as the interface ConfigurableWatcher   *)
(* has it (types.go): the safety part of IsMonkey.                         *)
THEOREM ImplementsMonkey == Spec => Abstract!Spec
<1>1. IInv /\ [Next]_vars => [Abstract!Next]_(Abstract!vars)
  <2>1. UNCHANGED vars => UNCHANGED Abstract!vars
    BY DEF vars, caller, Life, Ended, Abstract!vars
  <2> QED BY <2>1, WatchRefines, OutsideRefines DEF Next
<1> QED BY <1>1, InitRefines, Invariance, PTL DEF Spec, Abstract!Spec
=============================================================================
