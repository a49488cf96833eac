---------------------- MODULE DeploymentWatcher_proofs ----------------------
(***************************************************************************)
(* Proofs about DeploymentWatcher, for any configurations the schema of    *)
(* the CRD admits.                                                         *)
(***************************************************************************)
EXTENDS DeploymentWatcher, TLAPS

(* Each bound is that of some configuration in force, and that of the       *)
(* wanted one unless its setter is still to come.                          *)
FieldsInForce ==
  /\ wanted \in inForce
  /\ \E a \in inForce : conf.min = a.min
  /\ \E b \in inForce : conf.max = b.max
  /\ setting # "min" => conf.min = wanted.min
  /\ setting = "none" => conf.max = wanted.max

(* The number of replicas the tick has come to so far. *)
DrawnInForce ==
  /\ pc \in {"min", "scale"} => \E b \in inForce : replicas <= b.max
  /\ pc = "scale" => \E a \in inForce : a.min <= replicas

(* The count of errors is that of the failures; only the fifth is seen      *)
(* after the select.                                                       *)
CountIsExact ==
  /\ errors = failures
  /\ pc \in {"bailing", "failed"} => errors = MaxConsecutiveErrors
  /\ pc \notin {"after", "bailing", "failed"} => errors < MaxConsecutiveErrors

(* A watcher that was stopped late has Running cleared for good. One that   *)
(* has scaled once too often will find itself disabled, or Running cleared, *)
(* before it scales again. One that gives up has cleared Running.           *)
Settled ==
  /\ pc = "bailing" => ~running
  /\ told = "late" => ~running /\ pc # "created"
  /\ unwanted \in {0, 1}
  /\ unwanted = 1 => /\ Unwanted
                     /\ pc # "created" /\ ~Ticking
                     /\ conf.enabled => pc \notin {"entering", "select"}

IInv == TypeOK /\ FieldsInForce /\ DrawnInForce /\ CountIsExact /\ Settled

USE DeploymentAssumption DEF Config, MaxConsecutiveErrors

LEMMA InitIInv == Init => IInv
<1> SUFFICES ASSUME Init PROVE IInv
  OBVIOUS
<1>1. TypeOK
  <2>1. conf \in Config /\ wanted \in Configs /\ inForce \subseteq Configs
    BY DEF Init
  <2>2. ctxDone \in BOOLEAN /\ running \in BOOLEAN
    BY DEF Init
  <2> QED BY <2>1, <2>2 DEF Init, TypeOK
<1>2. FieldsInForce /\ DrawnInForce /\ CountIsExact
  BY DEF Init, FieldsInForce, DrawnInForce, CountIsExact
<1>3. Settled
  BY DEF Init, Settled
<1> QED BY <1>1, <1>2, <1>3 DEF IInv

-----------------------------------------------------------------------------
(* The loop. *)

LEMMA LoopType == IInv /\ Watch => TypeOK'
<1> SUFFICES ASSUME IInv, Watch PROVE TypeOK'
  OBVIOUS
<1> USE DEF IInv, TypeOK, CountIsExact, fields, loop, past
<1>1. CASE Begin \/ LoopAgain \/ EnterSelect \/ BailOut
  BY <1>1 DEF Begin, LoopAgain, EnterSelect, BailOut
<1>2. CASE SelectTimer
  BY <1>2 DEF SelectTimer
<1>3. CASE Draw
  <2>1. conf.max \in Nat
    OBVIOUS
  <2> QED BY <1>3, <2>1 DEF Draw
<1>4. CASE AtLeastMin
  <2>1. conf.min \in Nat
    OBVIOUS
  <2> QED BY <1>4, <2>1 DEF AtLeastMin
<1>5. CASE Scale
  BY <1>5 DEF Scale
<1>6. CASE SelectContext
  BY <1>6 DEF SelectContext
<1>7. CASE CheckErrors
  BY <1>7 DEF CheckErrors
<1> QED BY <1>1, <1>2, <1>3, <1>4, <1>5, <1>6, <1>7 DEF Watch

LEMMA LoopHull == IInv /\ Watch => FieldsInForce' /\ DrawnInForce'
<1> SUFFICES ASSUME IInv, Watch PROVE FieldsInForce' /\ DrawnInForce'
  OBVIOUS
<1> USE DEF IInv, TypeOK, FieldsInForce, DrawnInForce, fields, past
<1>1. CASE UNCHANGED <<conf, wanted, setting, inForce>> /\ pc' \notin {"min", "scale"}
  BY <1>1
<1>2. CASE SelectTimer
  BY <1>2 DEF SelectTimer
<1>3. CASE Draw
  <2>1. PICK b \in inForce : conf.max = b.max
    OBVIOUS
  <2>2. /\ replicas' <= b.max /\ pc' = "min"
        /\ UNCHANGED <<conf, wanted, setting, inForce>>
    BY <1>3, <2>1 DEF Draw
  <2> QED BY <2>2
<1>4. CASE AtLeastMin
  <2>1. PICK a \in inForce : conf.min = a.min
    OBVIOUS
  <2>2. PICK b \in inForce : replicas <= b.max
    BY <1>4 DEF AtLeastMin
  <2>3. /\ a.min \in Nat /\ a.max \in Nat /\ a.min <= a.max
        /\ b.max \in Nat
    OBVIOUS
  <2>4. /\ a.min <= replicas'
        /\ replicas' <= a.max \/ replicas' <= b.max
        /\ UNCHANGED <<conf, wanted, setting, inForce>>
    BY <1>4, <2>1, <2>2, <2>3 DEF AtLeastMin
  <2> QED BY <2>4
<1> QED BY <1>1, <1>2, <1>3, <1>4
        DEF Watch, Begin, LoopAgain, EnterSelect, Scale, SelectContext, CheckErrors, BailOut

LEMMA LoopCounts == IInv /\ Watch => CountIsExact' /\ Settled'
<1> SUFFICES ASSUME IInv, Watch PROVE CountIsExact' /\ Settled'
  OBVIOUS
<1> USE DEF IInv, TypeOK, CountIsExact, Settled, Unwanted, Ticking, fields, past
<1>1. CASE Begin
  BY <1>1 DEF Begin
<1>2. CASE LoopAgain
  BY <1>2 DEF LoopAgain
<1>3. CASE EnterSelect
  BY <1>3 DEF EnterSelect
<1>4. CASE SelectTimer
  BY <1>4 DEF SelectTimer
<1>5. CASE Draw
  BY <1>5 DEF Draw
<1>6. CASE AtLeastMin
  BY <1>6 DEF AtLeastMin
<1>7. CASE Scale
  BY <1>7 DEF Scale
<1>8. CASE SelectContext
  BY <1>8 DEF SelectContext
<1>9. CASE CheckErrors
  BY <1>9 DEF CheckErrors
<1>10. CASE BailOut
  BY <1>10 DEF BailOut
<1> QED BY <1>1, <1>2, <1>3, <1>4, <1>5, <1>6, <1>7, <1>8, <1>9, <1>10 DEF Watch

-----------------------------------------------------------------------------
(* The CRD watcher. *)

LEMMA SettersIInv ==
  ASSUME IInv, (\E c \in Configs : SetEnabled(c)) \/ SetMinReplicas \/ SetMaxReplicas
  PROVE  IInv'
<1> USE DEF IInv, fields, loop, past
<1>1. ASSUME NEW c \in Configs, SetEnabled(c) PROVE IInv'
  <2>1. TypeOK'
    BY <1>1 DEF SetEnabled, TypeOK
  <2>2. FieldsInForce'
    BY <1>1 DEF SetEnabled, TypeOK, FieldsInForce
  <2>3. DrawnInForce'
    BY <1>1 DEF SetEnabled, TypeOK, DrawnInForce, Ticking
  <2>4. CountIsExact' /\ Settled'
    BY <1>1 DEF SetEnabled, TypeOK, CountIsExact, Settled, Unwanted, Ticking
  <2> QED BY <2>1, <2>2, <2>3, <2>4
<1>2. CASE SetMinReplicas
  <2>1. TypeOK' /\ FieldsInForce'
    BY <1>2 DEF SetMinReplicas, TypeOK, FieldsInForce
  <2>2. DrawnInForce' /\ CountIsExact' /\ Settled'
    BY <1>2 DEF SetMinReplicas, TypeOK, DrawnInForce, CountIsExact, Settled, Unwanted, Ticking
  <2> QED BY <2>1, <2>2
<1>3. CASE SetMaxReplicas
  <2>1. TypeOK' /\ FieldsInForce'
    BY <1>3 DEF SetMaxReplicas, TypeOK, FieldsInForce
  <2>2. DrawnInForce' /\ CountIsExact' /\ Settled'
    BY <1>3 DEF SetMaxReplicas, TypeOK, DrawnInForce, CountIsExact, Settled, Unwanted, Ticking
  <2> QED BY <2>1, <2>2
<1> QED BY <1>1, <1>2, <1>3

LEMMA StopIInv == IInv /\ (Stop \/ Cancel) => IInv'
<1> SUFFICES ASSUME IInv, Stop \/ Cancel PROVE IInv'
  OBVIOUS
<1> USE DEF IInv, fields, loop, past, TypeOK, FieldsInForce, DrawnInForce, CountIsExact,
            Settled, Unwanted, Ticking
<1>1. CASE Stop
  BY <1>1 DEF Stop
<1>2. CASE Cancel
  BY <1>2 DEF Cancel
<1> QED BY <1>1, <1>2

LEMMA NextIInv == IInv /\ [Next]_vars => IInv'
<1>1. IInv /\ UNCHANGED vars => IInv'
  BY DEF IInv, TypeOK, FieldsInForce, DrawnInForce, CountIsExact, Settled, Unwanted,
         Ticking, vars, fields, loop, past
<1>2. IInv /\ Watch => IInv'
  BY LoopType, LoopHull, LoopCounts DEF IInv
<1> QED BY <1>1, <1>2, SettersIInv, StopIInv DEF Next

-----------------------------------------------------------------------------

(* IInv holds in every reachable state. *)
THEOREM Invariance == Spec => []IInv
  BY InitIInv, NextIInv, PTL DEF Spec

(* Every variable keeps its type; the count of errors never exceeds five. *)
THEOREM TypeCorrect == Spec => []TypeOK
<1>1. IInv => TypeOK
  BY DEF IInv
<1> QED BY <1>1, Invariance, PTL

(* However the setters of a modification interleave with the reads of a     *)
(* tick, the replicas are within the hull of the bounds in force.          *)
THEOREM ScalesWithinHull == Spec => []ScaleWithinHull
<1>1. IInv => ScaleWithinHull
  BY DEF IInv, DrawnInForce, ScaleWithinHull
<1> QED BY <1>1, Invariance, PTL

(* A watcher that was disabled, or stopped after its loop began, scales at  *)
(* most once more.                                                         *)
THEOREM OneLateScaleAtMost == Spec => []AtMostOneLateScale
<1>1. IInv => AtMostOneLateScale
  BY DEF IInv, Settled, AtMostOneLateScale
<1> QED BY <1>1, Invariance, PTL

(* It gives up on the fifth refused scaling in a row, and on no other. *)
THEOREM GivesUpOnFifth == Spec => []BailsOutOnFifth
<1>1. IInv => BailsOutOnFifth
  BY DEF IInv, CountIsExact, TypeOK, BailsOutOnFifth
<1> QED BY <1>1, Invariance, PTL

-----------------------------------------------------------------------------
(* Refinement. *)

LEMMA InitRefines == Init => Abstract!Init
<1>1. Init => conf \in Config
  BY DEF Init
<1> QED BY <1>1 DEF Init, Abstract!Init, Life, Ended

(* A step of the loop is the step of a monkey of which the CRD watcher      *)
(* would say the same, or changes nothing that it can observe.             *)
LEMMA WatchRefines == IInv /\ Watch => [Abstract!Next]_(Abstract!vars)
<1> SUFFICES ASSUME IInv, Watch PROVE Abstract!Next \/ UNCHANGED Abstract!vars
  OBVIOUS
<1> USE DEF IInv, TypeOK, Settled, Life, Ended, fields, Abstract!vars, Abstract!Moves
<1>1. CASE Begin
  BY <1>1 DEF Begin, Abstract!Next, Abstract!Runs
<1>2. CASE LoopAgain
  BY <1>2 DEF LoopAgain, Abstract!Next, Abstract!NoticesStop
<1>3. CASE EnterSelect
  BY <1>3 DEF EnterSelect
<1>4. CASE SelectTimer
  BY <1>4 DEF SelectTimer
<1>5. CASE Draw
  BY <1>5 DEF Draw
<1>6. CASE AtLeastMin
  BY <1>6 DEF AtLeastMin
<1>7. CASE Scale
  BY <1>7 DEF Scale
<1>8. CASE SelectContext
  BY <1>8 DEF SelectContext, Abstract!Next, Abstract!NoticesContext
<1>9. CASE CheckErrors
  BY <1>9 DEF CheckErrors, Abstract!Next, Abstract!GivesUp
<1>10. CASE BailOut
  BY <1>10 DEF BailOut, Abstract!Next, Abstract!NoticesStop
<1> QED BY <1>1, <1>2, <1>3, <1>4, <1>5, <1>6, <1>7, <1>8, <1>9, <1>10 DEF Watch

LEMMA CallerRefines ==
  ASSUME IInv, (\E c \in Configs : SetEnabled(c)) \/ SetMinReplicas \/ SetMaxReplicas
                  \/ Stop \/ Cancel
  PROVE  [Abstract!Next]_(Abstract!vars)
<1> USE DEF IInv, TypeOK, Life, Ended, fields, loop, Abstract!vars, Abstract!Moves
<1>1. ASSUME NEW c \in Configs, SetEnabled(c) PROVE Abstract!Next
  BY <1>1 DEF SetEnabled, Abstract!Next, Abstract!SetEnabled
<1>2. CASE SetMinReplicas \/ SetMaxReplicas
  BY <1>2 DEF SetMinReplicas, SetMaxReplicas
<1>3. CASE Stop
  <2>1. Life' = IF Life = "running" THEN "stopping" ELSE Life
    BY <1>3 DEF Stop
  <2>2. UNCHANGED <<conf, ctxDone>>
    BY <1>3 DEF Stop
  <2> QED BY <2>1, <2>2 DEF Abstract!Next, Abstract!Stop
<1>4. CASE Cancel
  BY <1>4 DEF Cancel, Abstract!Next, Abstract!Cancel
<1> QED BY <1>1, <1>2, <1>3, <1>4

(* To the CRD watcher it is a monkey as the interface ConfigurableWatcher   *)
(* has it (types.go): the safety part of IsMonkey.                         *)
THEOREM ImplementsMonkey == Spec => Abstract!Spec
<1>1. IInv /\ [Next]_vars => [Abstract!Next]_(Abstract!vars)
  <2>1. UNCHANGED vars => UNCHANGED Abstract!vars
    BY DEF vars, fields, loop, Life, Ended, Abstract!vars
  <2> QED BY <2>1, WatchRefines, CallerRefines DEF Next
<1> QED BY <1>1, InitRefines, Invariance, PTL DEF Spec, Abstract!Spec
=============================================================================
