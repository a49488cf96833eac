-------------------------- MODULE CrdWatcher_proofs --------------------------
(***************************************************************************)
(* Proofs about CrdWatcher for every set of CMCs, deployments and slots.   *)
(*                                                                         *)
(* The inductive invariant is Core, about the monkeys, the map and the     *)
(* registry together, plus what two values of pc tell about the monkeys.   *)
(* Core takes its three components as parameters, because the handler of a *)
(* MODIFIED event takes a monkey out and puts one in within one step: the  *)
(* state in between has no name.                                           *)
(***************************************************************************)
EXTENDS CrdWatcher, FiniteSetTheorems, FunctionTheorems, SequenceTheorems, TLAPS

Alive(w) == w.life \in LiveStates

Scaler(w) == Alive(w) /\ w.mode = "randomScale"

Core(ms, map, reg) ==
  /\ ms \in [Monkeys -> Monkey \cup {Blank}]
  /\ map \in [Deployments -> Entry \cup {None}]
  /\ reg \in SUBSET (Modes \X Deployments)
  /\ \A d \in Deployments : map[d] # None =>
       /\ ms[map[d].monkey] # Blank
       /\ ms[map[d].monkey].told = "no"
       /\ ms[map[d].monkey].dep = d
       /\ ms[map[d].monkey].mode = map[d].mode
  /\ \A m \in Monkeys : ms[m] # Blank /\ ms[m].told = "no" =>
       /\ map[ms[m].dep] # None
       /\ map[ms[m].dep].monkey = m
  /\ \A m, n \in Monkeys : Scaler(ms[m]) /\ Scaler(ms[n]) /\ ms[m].dep = ms[n].dep
       => m = n
  /\ \A m \in Monkeys : Scaler(ms[m]) => <<"randomScale", ms[m].dep>> \in reg

IInv ==
  /\ TypeOK
  /\ Core(monkey, dw, registry)
  /\ pc \in {"new", "done"} => WaitGroup = {}

-----------------------------------------------------------------------------
(* Facts about single watchers. *)

(* An empty slot holds no watcher, and none that is alive. *)
LEMMA BlankFacts ==
  /\ Blank \notin Monkey
  /\ ~Alive(Blank)
BY DEF Blank, Monkey, LiveStates, Alive

(* Stop changes what a watcher was told and how it lives, never whether it  *)
(* is alive, what it scales or which metrics are its own.                  *)
LEMMA StopFacts ==
  ASSUME NEW w \in Monkey
  PROVE  /\ Stop(w) \in Monkey
         /\ Stop(w).dep = w.dep
         /\ Stop(w).mode = w.mode
         /\ Stop(w).told = "stop"
         /\ Alive(Stop(w)) <=> Alive(w)
         /\ Stop(w).life = "done" <=> w.life = "done"
BY DEF Stop, Monkey, LiveStates, Alive

(* A stopped or swept watcher leaves a record that is still alive, and told,*)
(* or a free slot.                                                         *)
Gone(old, new) ==
  \/ new = Blank
  \/ /\ new \in Monkey
     /\ new.told # "no"
     /\ new.dep = old.dep
     /\ new.mode = old.mode
     /\ Alive(new) /\ Alive(old)

(* A watcher that was told to leave is gone once the map forgets it: its    *)
(* slot is empty if it has returned.                                       *)
LEMMA ForgottenIsGone ==
  ASSUME NEW w \in Monkey, NEW v \in Monkey,
         v.told # "no", v.dep = w.dep, v.mode = w.mode,
         Alive(v) <=> Alive(w)
  PROVE  Gone(w, Forget(v))
<1>1. Alive(v) \/ v.life = "done"
  BY DEF Monkey, Alive
<1> QED
  BY <1>1 DEF Gone, Forget

(* deleteWatcher, modifyWatcher and restartWatch: stopped and forgotten.    *)
LEMMA StoppedIsGone ==
  ASSUME NEW w \in Monkey
  PROVE  Gone(w, Forget(Stop(w)))
<1>1. Stop(w).told # "no"
  BY StopFacts
<1> QED
  BY <1>1, StopFacts, ForgottenIsGone

(* cleanUp: forgotten without a Stop. *)
LEMMA SweptIsGone ==
  ASSUME NEW w \in Monkey
  PROVE  Gone(w, Forget([w EXCEPT !.told = "swept"]))
<1>1. [w EXCEPT !.told = "swept"] \in Monkey
  BY DEF Monkey
<1>2. /\ [w EXCEPT !.told = "swept"].told # "no"
      /\ [w EXCEPT !.told = "swept"].dep = w.dep
      /\ [w EXCEPT !.told = "swept"].mode = w.mode
      /\ [w EXCEPT !.told = "swept"].life = w.life
  BY DEF Monkey
<1> QED
  BY <1>1, <1>2, ForgottenIsGone DEF Alive

-----------------------------------------------------------------------------
(* Facts about Core. *)

(* Taking watchers out of the map. *)
LEMMA RemovalKeepsCore ==
  ASSUME NEW ms, NEW map, NEW reg, Core(ms, map, reg),
         NEW ms2, NEW map2, NEW reg2, NEW D \in SUBSET Deployments,
         \A d \in D : map[d] # None,
         map2 = [d \in Deployments |-> IF d \in D THEN None ELSE map[d]],
         ms2 \in [Monkeys -> Monkey \cup {Blank}],
         \A d \in D : Gone(ms[map[d].monkey], ms2[map[d].monkey]),
         \A m \in Monkeys : (\A d \in D : m # map[d].monkey) => ms2[m] = ms[m],
         reg2 \in SUBSET reg,
         \A d \in Deployments : <<"randomScale", d>> \in reg => <<"randomScale", d>> \in reg2
  PROVE  Core(ms2, map2, reg2)
<1> USE DEF Entry
<1>1. map2 \in [Deployments -> Entry \cup {None}] /\ reg2 \in SUBSET (Modes \X Deployments)
  BY DEF Core
<1>2. \A m \in Monkeys : \/ ms2[m] = ms[m]
                         \/ Gone(ms[m], ms2[m])
  OBVIOUS
<1>3. \A d \in Deployments : map2[d] # None =>
        /\ d \notin D
        /\ map2[d] = map[d]
        /\ ms2[map[d].monkey] = ms[map[d].monkey]
  BY DEF Core
<1>4. \A d \in Deployments : map2[d] # None =>
       /\ ms2[map2[d].monkey] # Blank
       /\ ms2[map2[d].monkey].told = "no"
       /\ ms2[map2[d].monkey].dep = d
       /\ ms2[map2[d].monkey].mode = map2[d].mode
  BY <1>3 DEF Core
<1>5. ASSUME NEW m \in Monkeys, ms2[m] # Blank, ms2[m].told = "no"
      PROVE  map2[ms2[m].dep] # None /\ map2[ms2[m].dep].monkey = m
  <2>1. ms2[m] = ms[m] /\ ~Gone(ms[m], ms2[m])
    BY <1>2, <1>5 DEF Gone
  <2>2. ms[m].dep \in Deployments /\ map[ms[m].dep] # None /\ map[ms[m].dep].monkey = m
    BY <2>1, <1>5 DEF Core, Monkey
  <2>3. ms[m].dep \notin D
    BY <2>1, <2>2
  <2> QED
    BY <2>1, <2>2, <2>3
<1>6. \A m \in Monkeys : Scaler(ms2[m]) =>
        Scaler(ms[m]) /\ ms2[m].dep = ms[m].dep /\ ms[m].dep \in Deployments
  BY <1>2, BlankFacts DEF Gone, Scaler, Core, Monkey
<1>7. \A m, n \in Monkeys : Scaler(ms2[m]) /\ Scaler(ms2[n]) /\ ms2[m].dep = ms2[n].dep
        => m = n
  BY <1>6 DEF Core
<1>8. \A m \in Monkeys : Scaler(ms2[m]) => <<"randomScale", ms2[m].dep>> \in reg2
  BY <1>6 DEF Core
<1> HIDE DEF Entry
<1> QED
  BY <1>1, <1>4, <1>5, <1>7, <1>8 DEF Core

(* Putting a new watcher in a free slot, an unused map entry and the        *)
(* registry.                                                               *)
LEMMA LaunchKeepsCore ==
  ASSUME NEW ms, NEW map, NEW reg, Core(ms, map, reg),
         NEW m \in Monkeys, ms[m] = Blank,
         NEW w \in Monkey, w.told = "no",
         NEW e \in Entry, e.monkey = m, e.mode = w.mode,
         map[w.dep] = None, <<w.mode, w.dep>> \notin reg
  PROVE  Core([ms EXCEPT ![m] = w], [map EXCEPT ![w.dep] = e], reg \cup {<<w.mode, w.dep>>})
<1> DEFINE ms2  == [ms EXCEPT ![m] = w]
           map2 == [map EXCEPT ![w.dep] = e]
           reg2 == reg \cup {<<w.mode, w.dep>>}
<1>1. w.dep \in Deployments /\ w.mode \in Modes
  BY DEF Monkey
<1>2. /\ ms2 \in [Monkeys -> Monkey \cup {Blank}]
      /\ map2 \in [Deployments -> Entry \cup {None}]
      /\ reg2 \in SUBSET (Modes \X Deployments)
  BY <1>1 DEF Core
<1>3. /\ ms2[m] = w
      /\ \A n \in Monkeys : n # m => ms2[n] = ms[n]
      /\ map2[w.dep] = e
      /\ \A d \in Deployments : d # w.dep => map2[d] = map[d]
  BY <1>1 DEF Core
<1>4. e # None /\ w # Blank
  BY BlankFacts, CrdAssumption
<1>5. \A d \in Deployments : map[d] # None => map[d].monkey \in Monkeys /\ map[d].monkey # m
  BY DEF Core, Entry
<1> HIDE DEF ms2, map2, reg2
<1>6. \A d \in Deployments : map2[d] # None =>
       /\ ms2[map2[d].monkey] # Blank
       /\ ms2[map2[d].monkey].told = "no"
       /\ ms2[map2[d].monkey].dep = d
       /\ ms2[map2[d].monkey].mode = map2[d].mode
  BY <1>3, <1>4, <1>5 DEF Core
<1>7. \A n \in Monkeys : ms2[n] # Blank /\ ms2[n].told = "no" =>
       /\ map2[ms2[n].dep] # None
       /\ map2[ms2[n].dep].monkey = n
  <2> SUFFICES ASSUME NEW n \in Monkeys, ms2[n] # Blank, ms2[n].told = "no"
               PROVE  map2[ms2[n].dep] # None /\ map2[ms2[n].dep].monkey = n
    OBVIOUS
  <2>1. CASE n = m
    BY <2>1, <1>3, <1>4
  <2>2. CASE n # m
    <3>1. ms2[n] = ms[n] /\ map[ms[n].dep] # None /\ map[ms[n].dep].monkey = n
      BY <2>2, <1>3 DEF Core
    <3>2. ms[n].dep \in Deployments /\ ms[n].dep # w.dep
      BY <3>1 DEF Core, Monkey
    <3> QED
      BY <3>1, <3>2, <1>3
  <2> QED
    BY <2>1, <2>2
<1>8. \A n \in Monkeys : Scaler(ms2[n]) => <<"randomScale", ms2[n].dep>> \in reg2
  BY <1>3 DEF Core, Scaler, reg2
<1>9. \A n \in Monkeys : n # m /\ Scaler(ms2[n]) /\ Scaler(w) => ms2[n].dep # w.dep
  BY <1>3 DEF Core, Scaler
<1>10. \A n, k \in Monkeys : Scaler(ms2[n]) /\ Scaler(ms2[k]) /\ ms2[n].dep = ms2[k].dep
         => n = k
  BY <1>3, <1>9 DEF Core
<1>11. Core(ms2, map2, reg2)
  BY <1>2, <1>6, <1>7, <1>8, <1>10 DEF Core
<1> QED
  BY <1>11 DEF ms2, map2, reg2

(* A watcher that changes in its slot, without being told anything. *)
LEMMA ChangeKeepsCore ==
  ASSUME NEW ms, NEW map, NEW reg, Core(ms, map, reg),
         NEW m \in Monkeys, ms[m] # Blank,
         NEW w \in Monkey, w.dep = ms[m].dep, w.mode = ms[m].mode, w.told = ms[m].told,
         Alive(w) => Alive(ms[m])
  PROVE  Core([ms EXCEPT ![m] = w], map, reg)
<1> DEFINE ms2 == [ms EXCEPT ![m] = w]
<1>1. /\ ms2 \in [Monkeys -> Monkey \cup {Blank}]
      /\ ms2[m] = w
      /\ \A n \in Monkeys : n # m => ms2[n] = ms[n]
  BY DEF Core
<1>2. w # Blank
  BY BlankFacts
<1>3. \A d \in Deployments : map[d] # None => map[d].monkey \in Monkeys
  BY DEF Core, Entry
<1> HIDE DEF ms2
<1>4. \A d \in Deployments : map[d] # None =>
       /\ ms2[map[d].monkey] # Blank
       /\ ms2[map[d].monkey].told = "no"
       /\ ms2[map[d].monkey].dep = d
       /\ ms2[map[d].monkey].mode = map[d].mode
  BY <1>1, <1>2, <1>3 DEF Core
<1>5. \A n \in Monkeys : ms2[n] # Blank /\ ms2[n].told = "no" =>
       map[ms2[n].dep] # None /\ map[ms2[n].dep].monkey = n
  BY <1>1 DEF Core
<1>6. \A n \in Monkeys : Scaler(ms2[n]) => Scaler(ms[n]) /\ ms2[n].dep = ms[n].dep
  BY <1>1 DEF Scaler
<1>7. Core(ms2, map, reg)
  BY <1>1, <1>4, <1>5, <1>6 DEF Core
<1> QED
  BY <1>7 DEF ms2

(* A goroutine that returns: its slot is free unless the map holds it, and  *)
(* its metrics may go, for no other scaler has the same.                   *)
LEMMA ReturnKeepsCore ==
  ASSUME NEW ms, NEW map, NEW reg, Core(ms, map, reg),
         NEW m \in Monkeys, Alive(ms[m]),
         NEW w, \/ w = [ms[m] EXCEPT !.life = "done"]
                \/ w = Blank /\ \A d \in Deployments : map[d] # None => map[d].monkey # m,
         NEW reg2 \in SUBSET reg,
         \A k \in reg : k # <<ms[m].mode, ms[m].dep>> => k \in reg2
  PROVE  Core([ms EXCEPT ![m] = w], map, reg2)
<1> DEFINE ms2 == [ms EXCEPT ![m] = w]
<1>1. ms[m] \in Monkey
  BY BlankFacts DEF Core
<1>2. /\ w \in Monkey \cup {Blank}
      /\ ~Alive(w)
      /\ w # Blank => w.dep = ms[m].dep /\ w.mode = ms[m].mode /\ w.told = ms[m].told
  <2>1. CASE w = [ms[m] EXCEPT !.life = "done"]
    BY <1>1, <2>1 DEF Monkey, Alive, LiveStates
  <2>2. CASE w = Blank
    BY <2>2, BlankFacts
  <2> QED
    BY <2>1, <2>2
<1>3. w = [ms[m] EXCEPT !.life = "done"] => w # Blank
  BY <1>1, BlankFacts DEF Monkey, LiveStates
<1>4. /\ ms2 \in [Monkeys -> Monkey \cup {Blank}]
      /\ ms2[m] = w
      /\ \A n \in Monkeys : n # m => ms2[n] = ms[n]
  BY <1>2 DEF Core
<1>5. \A d \in Deployments : map[d] # None =>
         map[d].monkey \in Monkeys /\ (map[d].monkey = m => w # Blank)
  BY <1>3 DEF Core, Entry
<1> HIDE DEF ms2
<1>6. \A d \in Deployments : map[d] # None =>
       /\ ms2[map[d].monkey] # Blank
       /\ ms2[map[d].monkey].told = "no"
       /\ ms2[map[d].monkey].dep = d
       /\ ms2[map[d].monkey].mode = map[d].mode
  BY <1>2, <1>4, <1>5 DEF Core
<1>7. \A n \in Monkeys : ms2[n] # Blank /\ ms2[n].told = "no" =>
       map[ms2[n].dep] # None /\ map[ms2[n].dep].monkey = n
  BY <1>1, <1>2, <1>4, BlankFacts DEF Core
<1>8. \A n \in Monkeys : Scaler(ms2[n]) => n # m /\ Scaler(ms[n]) /\ ms2[n] = ms[n]
  BY <1>2, <1>4 DEF Scaler
<1>9. \A n \in Monkeys : Scaler(ms2[n]) => <<"randomScale", ms2[n].dep>> \in reg2
  <2> SUFFICES ASSUME NEW n \in Monkeys, Scaler(ms2[n])
               PROVE  <<"randomScale", ms2[n].dep>> \in reg2
    OBVIOUS
  <2>1. n # m /\ Scaler(ms[n]) /\ ms2[n] = ms[n] /\ <<"randomScale", ms[n].dep>> \in reg
    BY <1>8 DEF Core
  <2>2. ms[m].mode = "randomScale" => ms[m].dep # ms[n].dep
    BY <2>1 DEF Core, Scaler
  <2> QED
    BY <2>1, <2>2
<1>10. reg2 \in SUBSET (Modes \X Deployments)
  BY DEF Core
<1>11. Core(ms2, map, reg2)
  BY <1>4, <1>6, <1>7, <1>8, <1>9, <1>10 DEF Core
<1> QED
  BY <1>11 DEF ms2

(* Stopping the watchers of the deployments in D and dropping their entries.*)
LEMMA StopKeepsCore ==
  ASSUME Core(monkey, dw, registry),
         NEW D \in SUBSET Deployments, \A d \in D : dw[d] # None,
         NEW S, S = {dw[d].monkey : d \in D}
  PROVE  Core(StopAndForget(monkey, S),
              [d \in Deployments |-> IF d \in D THEN None ELSE dw[d]],
              registry \ UnregisteredByStop(S))
<1> DEFINE ms2  == StopAndForget(monkey, S)
           map2 == [d \in Deployments |-> IF d \in D THEN None ELSE dw[d]]
           reg2 == registry \ UnregisteredByStop(S)
<1>1. \A d \in D : dw[d].monkey \in Monkeys /\ monkey[dw[d].monkey] \in Monkey
  BY DEF Core, Entry
<1>2. \A m \in Monkeys : ms2[m] = IF m \in S THEN Forget(Stop(monkey[m])) ELSE monkey[m]
  BY DEF StopAndForget
<1>3. \A m \in S : m \in Monkeys /\ monkey[m] \in Monkey /\ Gone(monkey[m], Forget(Stop(monkey[m])))
  BY <1>1, StoppedIsGone
<1>4. \A m \in S : Forget(Stop(monkey[m])) \in Monkey \cup {Blank}
  BY <1>3 DEF Gone
<1>5. ms2 \in [Monkeys -> Monkey \cup {Blank}]
  BY <1>4 DEF StopAndForget, Core
<1>6. \A d \in D : Gone(monkey[dw[d].monkey], ms2[dw[d].monkey])
  BY <1>1, <1>2, <1>3
<1>7. \A m \in Monkeys : (\A d \in D : m # dw[d].monkey) => ms2[m] = monkey[m]
  BY <1>2
<1>8. \A d \in Deployments : <<"randomScale", d>> \in registry => <<"randomScale", d>> \in reg2
  BY DEF UnregisteredByStop, Key
<1>9. reg2 \in SUBSET registry
  OBVIOUS
<1> HIDE DEF ms2, map2, reg2
<1>10. map2 = [d \in Deployments |-> IF d \in D THEN None ELSE dw[d]]
  BY DEF map2
<1>11. Core(ms2, map2, reg2)
  BY <1>5, <1>6, <1>7, <1>8, <1>9, <1>10, RemovalKeepsCore
<1> QED
  BY <1>11 DEF ms2, map2, reg2

(* restartWatch and the end of Start stop every watcher. *)
LEMMA StopAllKeepsCore ==
  ASSUME Core(monkey, dw, registry), StopAll
  PROVE  Core(monkey, dw, registry)'
<1> DEFINE D == {d \in Deployments : dw[d] # None}
<1>1. Mapped = {dw[d].monkey : d \in D}
  BY DEF Mapped
<1>2. dw' = [d \in Deployments |-> IF d \in D THEN None ELSE dw[d]]
  BY DEF StopAll
<1>3. D \in SUBSET Deployments /\ \A d \in D : dw[d] # None
  OBVIOUS
<1> HIDE DEF D
<1>4. Core(StopAndForget(monkey, Mapped), dw', registry \ UnregisteredByStop(Mapped))
  BY <1>1, <1>2, <1>3, StopKeepsCore
<1> QED
  BY <1>4 DEF StopAll, Core

(* cleanUp drops the entries of watchers that are not running. *)
LEMMA SweepKeepsCore ==
  ASSUME Core(monkey, dw, registry), SelectCleanUp
  PROVE  Core(monkey, dw, registry)'
<1> DEFINE D == {d \in Deployments : dw[d] # None /\ ~IsRunning(dw[d].monkey)}
           S == {dw[d].monkey : d \in D}
           swept(w) == Forget([w EXCEPT !.told = "swept"])
<1>1. \A d \in D : dw[d].monkey \in Monkeys /\ monkey[dw[d].monkey] \in Monkey
  BY DEF Core, Entry
<1>2. /\ dw' = [d \in Deployments |-> IF d \in D THEN None ELSE dw[d]]
      /\ monkey' = [m \in Monkeys |-> IF m \in S THEN swept(monkey[m]) ELSE monkey[m]]
      /\ registry' = registry
  BY DEF SelectCleanUp
<1>3. \A m \in S : m \in Monkeys /\ Gone(monkey[m], swept(monkey[m]))
  BY <1>1, SweptIsGone
<1> HIDE DEF swept
<1>4. monkey' \in [Monkeys -> Monkey \cup {Blank}]
  BY <1>2, <1>3 DEF Gone, Core
<1>5. \A d \in D : Gone(monkey[dw[d].monkey], monkey'[dw[d].monkey])
  BY <1>1, <1>2, <1>3
<1>6. \A m \in Monkeys : (\A d \in D : m # dw[d].monkey) => monkey'[m] = monkey[m]
  BY <1>2
<1>7. D \in SUBSET Deployments /\ \A d \in D : dw[d] # None
  OBVIOUS
<1>8. /\ registry' \in SUBSET registry
      /\ \A d \in Deployments :
           <<"randomScale", d>> \in registry => <<"randomScale", d>> \in registry'
  BY <1>2
<1>9. dw' = [d \in Deployments |-> IF d \in D THEN None ELSE dw[d]]
  BY <1>2
<1> HIDE DEF D, S
<1>10. Core(monkey', dw', registry')
  BY <1>4, <1>5, <1>6, <1>7, <1>8, <1>9, RemovalKeepsCore
<1> QED
  BY <1>10 DEF Core

(* Launch, from whatever registry, slots and map the handler has reached.   *)
LEMMA LaunchStep ==
  ASSUME NEW c \in Cmcs, NEW spec \in CmcSpec, NEW reg, NEW ms, NEW map,
         Core(ms, map, reg), map[spec.dep] = None, Launch(c, spec, reg, ms, map)
  PROVE  Core(monkey, dw, registry)' /\ pc' \in {"head", "panicked"}
<1>1. CASE <<spec.mode, spec.dep>> \in reg
  BY <1>1 DEF Launch, KeyOf, Core
<1>2. CASE <<spec.mode, spec.dep>> \notin reg
  <2> DEFINE w == [life |-> "starting", dep |-> spec.dep, mode |-> spec.mode,
                   enabled |-> spec.enabled, told |-> "no"]
             e(m) == [monkey |-> m, cmc |-> c, mode |-> spec.mode]
  <2>1. PICK m \in Monkeys : /\ ms[m] = Blank
                             /\ monkey' = [ms EXCEPT ![m] = w]
                             /\ dw' = [map EXCEPT ![spec.dep] = e(m)]
                             /\ registry' = reg \cup {<<spec.mode, spec.dep>>}
                             /\ pc' = "head"
    BY <1>2 DEF Launch, KeyOf, NewMonkey
  <2>2. /\ w \in Monkey /\ w.told = "no" /\ w.dep = spec.dep /\ w.mode = spec.mode
        /\ e(m) \in Entry /\ e(m).monkey = m /\ e(m).mode = spec.mode
    BY DEF Monkey, CmcSpec, Entry, LiveStates
  <2> HIDE DEF w, e
  <2>3. Core([ms EXCEPT ![m] = w], [map EXCEPT ![w.dep] = e(m)], reg \cup {<<w.mode, w.dep>>})
    BY <1>2, <2>1, <2>2, LaunchKeepsCore
  <2>4. Core(monkey', dw', registry')
    BY <2>1, <2>2, <2>3
  <2> QED
    BY <2>1, <2>4 DEF Core
<1> QED
  BY <1>1, <1>2

-----------------------------------------------------------------------------
(* The invariant, action by action. *)

(* A new CRD watcher (NewCrdWatcher) satisfies the invariant. *)
LEMMA InitIInv == Init => IInv
<1> SUFFICES ASSUME Init PROVE IInv
  OBVIOUS
<1>1. TypeOK
  <2>1. queue \in Seq(Event)
    BY EmptySeq DEF Init
  <2>2. registry \in SUBSET (Modes \X Deployments)
    BY DEF Init
  <2> QED
    BY <2>1, <2>2 DEF Init, TypeOK
<1>2. Core(monkey, dw, registry)
  BY BlankFacts DEF Init, Core, Scaler
<1>3. WaitGroup = {}
  BY DEF Init, WaitGroup, Blank, LiveStates
<1> QED
  BY <1>1, <1>2, <1>3 DEF IInv

(* The events a new watch begins with are events. *)
LEMMA ListingType ==
  ASSUME TypeOK
  PROVE  Listing \subseteq Seq(Event)
<1> DEFINE existing == {c \in Cmcs : cmcs[c] # None}
           n == Cardinality(existing)
<1>1. n \in Nat
  BY FS_Subset, FS_CardinalityType, CrdAssumption
<1> HIDE DEF n
<1>2. ASSUME NEW o \in [1 .. n -> existing]
      PROVE  [i \in DOMAIN o |-> [type |-> "ADDED", cmc |-> o[i], spec |-> cmcs[o[i]]]]
               \in Seq(Event)
  <2>1. \A i \in 1 .. n : o[i] \in Cmcs /\ cmcs[o[i]] \in CmcSpec
    BY DEF TypeOK
  <2>2. \A i \in 1 .. n : [type |-> "ADDED", cmc |-> o[i], spec |-> cmcs[o[i]]] \in Event
    BY <2>1 DEF Event
  <2>3. DOMAIN o = 1 .. n
    OBVIOUS
  <2>4. [i \in DOMAIN o |-> [type |-> "ADDED", cmc |-> o[i], spec |-> cmcs[o[i]]]]
          \in [1 .. n -> Event]
    BY <2>2, <2>3
  <2> QED
    BY <1>1, <2>4, SeqDef
<1> QED
  BY <1>2 DEF Listing, n

(* The state of the monkeys and the loop does not change. *)
LEMMA ApiIInv ==
  ASSUME IInv, Api
  PROVE  IInv'
<1> DEFINE Reported == /\ UNCHANGED <<ctxDone, pc, running, forceClosed, dw, monkey, registry>>
                       /\ cmcs' \in [Cmcs -> CmcSpec \cup {None}]
                       /\ queue' \in Seq(Event)
                       /\ watch' \in {"none", "open", "closed"}
<1>1. Reported
  <2>1. ASSUME NEW c \in Cmcs, NEW spec \in Desired[c] \cup {None}, ApiChange(c, spec)
        PROVE  Reported
    <3>1. spec \in CmcSpec \cup {None}
      BY CrdAssumption
    <3>2. cmcs' = [cmcs EXCEPT ![c] = spec] /\ cmcs[c] # spec
          /\ UNCHANGED <<watch, ctxDone, pc, running, forceClosed, dw, monkey, registry>>
      BY <2>1 DEF ApiChange, loop, kids
    <3>3. queue' \in Seq(Event)
      <4> DEFINE type == IF cmcs[c] = None THEN "ADDED"
                         ELSE IF spec = None THEN "DELETED" ELSE "MODIFIED"
                 carried == IF spec = None THEN cmcs[c] ELSE spec
                 e == [type |-> type, cmc |-> c, spec |-> carried]
      <4>1. carried \in CmcSpec
        BY <3>1, <3>2 DEF IInv, TypeOK
      <4>2. type \in {"ADDED", "MODIFIED", "DELETED"}
        OBVIOUS
      <4>3. queue' = queue \/ queue' = Append(queue, e)
        BY <2>1 DEF ApiChange
      <4> HIDE DEF type, carried
      <4>4. e \in Event
        BY <4>1, <4>2 DEF Event
      <4> HIDE DEF e
      <4> QED
        BY <4>3, <4>4 DEF IInv, TypeOK
    <3> QED
      BY <3>1, <3>2, <3>3 DEF IInv, TypeOK
  <2>2. CASE ApiClosesWatch
    BY <2>2 DEF ApiClosesWatch, loop, kids, IInv, TypeOK
  <2> QED
    BY <2>1, <2>2 DEF Api
<1> QED
  BY <1>1 DEF IInv, TypeOK, Core, WaitGroup

(* A step of a monkey leaves everything but its slot and the registry alone.*)
LEMMA MonkeyIInv ==
  ASSUME IInv, NEW m \in Monkeys, MonkeyStep(m)
  PROVE  IInv'
<1>1. Alive(monkey[m]) /\ monkey[m] \in Monkey
  <2>1. Alive(monkey[m])
    BY DEF MonkeyStep, MonkeyRuns, MonkeyNoticesStop, MonkeyNoticesContext, MonkeyGivesUp,
           MonkeyFailsToStart, MonkeyLosesTimer, MonkeyFallsAsleep, Alive, LiveStates
  <2> QED
    BY <2>1, BlankFacts DEF IInv, TypeOK
<1>2. /\ UNCHANGED <<cmcs, queue, watch, ctxDone, pc, running, forceClosed, dw>>
      /\ pc \notin {"new", "done"}
  <2>1. WaitGroup # {}
    BY <1>1 DEF WaitGroup, Alive
  <2> QED
    BY <2>1 DEF MonkeyStep, MonkeyRuns, MonkeyNoticesStop, MonkeyNoticesContext, MonkeyGivesUp,
           MonkeyFailsToStart, MonkeyLosesTimer, MonkeyFallsAsleep, MonkeyReturns, MonkeyMoves, api, loop, IInv
<1>3. Core(monkey', dw', registry')
  <2>1. ASSUME NEW l \in LiveStates, MonkeyMoves(m, l) PROVE Core(monkey', dw', registry')
    <3>1. monkey' = [monkey EXCEPT ![m] = [monkey[m] EXCEPT !.life = l]]
      BY <2>1 DEF MonkeyMoves
    <3>2. registry' = registry
      BY <2>1 DEF MonkeyMoves
    <3> DEFINE w == [monkey[m] EXCEPT !.life = l]
    <3>3. w \in Monkey /\ w.dep = monkey[m].dep /\ w.mode = monkey[m].mode
          /\ w.told = monkey[m].told
      BY <1>1 DEF Monkey
    <3> HIDE DEF w
    <3>4. Core([monkey EXCEPT ![m] = w], dw, registry)
      BY <1>1, <3>3, BlankFacts, ChangeKeepsCore DEF IInv
    <3> QED
      BY <1>2, <3>1, <3>2, <3>4 DEF w
  <2>2. CASE MonkeyReturns(m)
    <3> DEFINE w == IF m \in Mapped THEN [monkey[m] EXCEPT !.life = "done"] ELSE Blank
    <3>1. monkey' = [monkey EXCEPT ![m] = w]
      BY <2>2 DEF MonkeyReturns
    <3>2. \/ w = [monkey[m] EXCEPT !.life = "done"]
          \/ w = Blank /\ \A d \in Deployments : dw[d] # None => dw[d].monkey # m
      BY DEF Mapped
    <3>3. /\ registry' \in SUBSET registry
          /\ \A k \in registry : k # <<monkey[m].mode, monkey[m].dep>> => k \in registry'
      BY <2>2 DEF MonkeyReturns, Key
    <3> HIDE DEF w
    <3>4. Core([monkey EXCEPT ![m] = w], dw, registry')
      BY <1>1, <3>2, <3>3, ReturnKeepsCore DEF IInv
    <3> QED
      BY <1>2, <3>1, <3>4
  <2> QED
    BY <2>1, <2>2 DEF MonkeyStep, MonkeyRuns, MonkeyNoticesStop, MonkeyNoticesContext,
         MonkeyGivesUp, MonkeyFailsToStart, MonkeyLosesTimer, MonkeyFallsAsleep, LiveStates
<1> QED
  BY <1>2, <1>3 DEF IInv, TypeOK, Core

(* Handling an ADDED, MODIFIED or DELETED event preserves the invariant.    *)
LEMMA EventIInv ==
  ASSUME IInv, SelectEvent
  PROVE  IInv'
<1> DEFINE e == Head(queue)
<1>1. e \in Event /\ Tail(queue) \in Seq(Event)
  BY HeadTailProperties DEF SelectEvent, IInv, TypeOK
<1>2. /\ queue' = Tail(queue)
      /\ UNCHANGED <<cmcs, watch, ctxDone, running, forceClosed>>
      /\ \/ HandleAdded(e.cmc, e.spec)
         \/ HandleModified(e.cmc, e.spec)
         \/ HandleDeleted(e.cmc, e.spec)
  BY <1>1 DEF SelectEvent, Event
<1>3. e.cmc \in Cmcs /\ e.spec \in CmcSpec
  BY <1>1 DEF Event
<1> HIDE DEF e
<1>4. ASSUME NEW c \in Cmcs, NEW spec \in CmcSpec,
             \/ HandleAdded(c, spec)
             \/ HandleModified(c, spec)
             \/ HandleDeleted(c, spec)
      PROVE  Core(monkey, dw, registry)' /\ pc' \in {"head", "panicked"}
  <2> DEFINE d   == spec.dep
             m   == dw[d].monkey
             ms  == StopAndForget(monkey, {m})
             reg == registry \ UnregisteredByStop({m})
             map == [dw EXCEPT ![d] = None]
  <2>1. d \in Deployments
    BY DEF CmcSpec
  <2>2. Core(monkey, dw, registry)
    BY DEF IInv
  <2>3. dw[d] # None => Core(ms, map, reg) /\ map[d] = None
    <3> SUFFICES ASSUME dw[d] # None PROVE Core(ms, map, reg) /\ map[d] = None
      OBVIOUS
    <3>1. map = [f \in Deployments |-> IF f \in {d} THEN None ELSE dw[f]] /\ map[d] = None
      BY <2>1, <2>2 DEF Core
    <3>2. {m} = {dw[f].monkey : f \in {d}} /\ {d} \in SUBSET Deployments
          /\ \A f \in {d} : dw[f] # None
      BY <2>1
    <3> HIDE DEF d, m, map
    <3> QED
      BY <2>2, <3>1, <3>2, StopKeepsCore
  <2>4. CASE UNCHANGED <<dw, monkey, registry>> /\ pc' = "head"
    BY <2>2, <2>4 DEF Core
  <2>5. CASE /\ dw[d] # None
             /\ monkey' = [monkey EXCEPT ![m].enabled = spec.enabled]
             /\ UNCHANGED <<dw, registry>>
             /\ pc' = "head"
    <3> DEFINE w == [monkey[m] EXCEPT !.enabled = spec.enabled]
    <3>1. m \in Monkeys /\ monkey[m] # Blank /\ monkey[m] \in Monkey
      BY <2>1, <2>2, <2>5 DEF Core, Entry
    <3>2. w \in Monkey /\ w.dep = monkey[m].dep /\ w.mode = monkey[m].mode
          /\ w.told = monkey[m].told /\ w.life = monkey[m].life
      BY <3>1 DEF Monkey, CmcSpec
    <3>3. monkey' = [monkey EXCEPT ![m] = w]
      BY <2>5
    <3> HIDE DEF w, m, d
    <3>4. Core([monkey EXCEPT ![m] = w], dw, registry)
      BY <2>2, <3>1, <3>2, ChangeKeepsCore DEF Alive
    <3> QED
      BY <2>5, <3>3, <3>4 DEF Core
  <2>6. CASE dw[d] # None /\ monkey' = ms /\ registry' = reg /\ dw' = map /\ pc' = "head"
    BY <2>3, <2>6 DEF Core
  <2>7. CASE dw[d] # None /\ Launch(c, spec, reg, ms, map)
    <3> HIDE DEF ms, reg, map
    <3> QED
      BY <2>3, <2>7, LaunchStep
  <2>8. CASE dw[d] = None /\ Launch(c, spec, registry, monkey, dw)
    BY <2>2, <2>8, LaunchStep
  <2>9. \/ UNCHANGED <<dw, monkey, registry>> /\ pc' = "head"
        \/ /\ dw[d] # None
           /\ monkey' = [monkey EXCEPT ![m].enabled = spec.enabled]
           /\ UNCHANGED <<dw, registry>>
           /\ pc' = "head"
        \/ dw[d] # None /\ monkey' = ms /\ registry' = reg /\ dw' = map /\ pc' = "head"
        \/ dw[d] # None /\ Launch(c, spec, reg, ms, map)
        \/ dw[d] = None /\ Launch(c, spec, registry, monkey, dw)
    BY <1>4 DEF HandleAdded, HandleModified, HandleDeleted, kids
  <2> QED
    BY <2>4, <2>5, <2>6, <2>7, <2>8, <2>9
<1>5. Core(monkey, dw, registry)' /\ pc' \in {"head", "panicked"}
  BY <1>2, <1>3, <1>4
<1> QED
  BY <1>1, <1>2, <1>5 DEF IInv, TypeOK, Core

(* The steps of the loop other than the handling of an event. *)
LEMMA LoopIInv ==
  ASSUME IInv, Loop \/ SelectErrorEvent, ~SelectEvent
  PROVE  IInv'
<1> USE DEF api, kids
<1>1. CASE StartWatches \/ RestartWatches
  <2>1. queue' \in Seq(Event)
    BY <1>1, ListingType DEF StartWatches, RestartWatches, IInv
  <2>2. /\ watch' = "open" /\ pc' = "head" /\ running' \in BOOLEAN
        /\ UNCHANGED <<cmcs, ctxDone, forceClosed, dw, monkey, registry>>
    BY <1>1 DEF StartWatches, RestartWatches, IInv, TypeOK
  <2>3. TypeOK'
    BY <2>1, <2>2 DEF IInv, TypeOK
  <2> QED
    BY <2>2, <2>3 DEF IInv, Core
<1>2. CASE StartFails
  BY <1>2 DEF StartFails, IInv, TypeOK, Core, WaitGroup
<1>3. CASE LoopAgain
  BY <1>3 DEF LoopAgain, IInv, TypeOK, Core
<1>4. CASE LoopEnds
  <2>1. Core(monkey, dw, registry)'
    BY <1>4, StopAllKeepsCore DEF LoopEnds, IInv
  <2> QED
    BY <1>4, <2>1 DEF LoopEnds, IInv, TypeOK, Core
<1>5. CASE AllHome
  BY <1>5 DEF AllHome, IInv, TypeOK, Core, WaitGroup
<1>6. CASE RestartFails
  BY <1>6 DEF RestartFails, IInv, TypeOK, Core
<1>7. CASE SelectErrorEvent
  BY <1>7 DEF SelectErrorEvent, IInv, TypeOK, Core
<1>8. CASE SelectClosed
  <2>1. Core(monkey, dw, registry)'
    BY <1>8, StopAllKeepsCore DEF SelectClosed, IInv
  <2> QED
    BY <1>8, <2>1 DEF SelectClosed, IInv, TypeOK, Core
<1>9. CASE SelectContext \/ SelectForceStop
  BY <1>9 DEF SelectContext, SelectForceStop, IInv, TypeOK, Core
<1>10. CASE SelectCleanUp
  <2>1. Core(monkey, dw, registry)'
    BY <1>10, SweepKeepsCore DEF IInv
  <2>2. pc' = "head" /\ UNCHANGED <<cmcs, queue, watch, ctxDone, running, forceClosed>>
    BY <1>10 DEF SelectCleanUp
  <2> QED
    BY <2>1, <2>2 DEF IInv, TypeOK, Core
<1> QED
  BY <1>1, <1>2, <1>3, <1>4, <1>5, <1>6, <1>7, <1>8, <1>9, <1>10 DEF Loop, Select

(* Every step preserves the invariant. *)
LEMMA NextIInv == IInv /\ [Next]_vars => IInv'
<1> SUFFICES ASSUME IInv, [Next]_vars PROVE IInv'
  OBVIOUS
<1>1. CASE Api
  BY <1>1, ApiIInv
<1>2. ASSUME NEW m \in Monkeys, MonkeyStep(m) PROVE IInv'
  BY <1>2, MonkeyIInv
<1>3. CASE SelectEvent
  BY <1>3, EventIInv
<1>4. CASE (Loop \/ SelectErrorEvent) /\ ~SelectEvent
  BY <1>4, LoopIInv
<1>5. CASE ForceStop
  BY <1>5 DEF ForceStop, api, kids, IInv, TypeOK, Core, WaitGroup
<1>6. CASE Cancel
  BY <1>6 DEF Cancel, api, loop, kids, IInv, TypeOK, Core, WaitGroup
<1>7. CASE UNCHANGED vars
  BY <1>7 DEF vars, IInv, TypeOK, Core, WaitGroup
<1> QED
  BY <1>1, <1>2, <1>3, <1>4, <1>5, <1>6, <1>7 DEF Next

-----------------------------------------------------------------------------
(* The theorems. *)

(* The invariant gives the properties the runs check. *)
LEMMA IInvImplies ==
  IInv => /\ MappedIffUntold
          /\ MapIsFaithful
          /\ SingleScaler
          /\ ReturnedMeansHome
<1> SUFFICES ASSUME IInv
             PROVE  MappedIffUntold /\ MapIsFaithful /\ SingleScaler /\ ReturnedMeansHome
  OBVIOUS
<1>1. MappedIffUntold
  <2>1. \A m \in Monkeys : monkey[m] # Blank => monkey[m].dep \in Deployments
    BY DEF IInv, TypeOK, Monkey
  <2> QED
    BY <2>1 DEF IInv, Core, MappedIffUntold, Mapped
<1>2. MapIsFaithful
  BY DEF IInv, Core, MapIsFaithful
<1>3. SingleScaler
  BY DEF IInv, Core, SingleScaler, WaitGroup, Key, Scaler, Alive
<1>4. ReturnedMeansHome
  BY DEF IInv, ReturnedMeansHome
<1> QED
  BY <1>1, <1>2, <1>3, <1>4

(* IInv holds in every reachable state. *)
THEOREM Invariance == Spec => []IInv
  BY InitIInv, NextIInv, PTL DEF Spec

(* Every variable keeps its type. *)
THEOREM TypeCorrect == Spec => []TypeOK
<1>1. IInv => TypeOK
  BY DEF IInv
<1> QED
  BY <1>1, Invariance, PTL

(* The map holds exactly the monkeys that nobody told to stop (crd.go): no  *)
(* handler drops a goroutine silently, none keeps a stopped one.           *)
THEOREM NobodyDropped == Spec => []MappedIffUntold
  BY Invariance, IInvImplies, PTL

(* Each entry of the map describes the goroutine that it points to.         *)
THEOREM MapMatchesGoroutines == Spec => []MapIsFaithful
  BY Invariance, IInvImplies, PTL

(* Two DeploymentWatchers never scale one deployment at the same time,      *)
(* whatever the order of events, stops and returns.                        *)
THEOREM ScalersExclude == Spec => []SingleScaler
  BY Invariance, IInvImplies, PTL

(* When Start returns normally no monkey is left. *)
THEOREM StartLeavesNobody == Spec => []ReturnedMeansHome
  BY Invariance, IInvImplies, PTL

-----------------------------------------------------------------------------
(* Refinement. *)

(* A new watcher has not been stopped. *)
LEMMA InitRefines == Init => Abstract!Init
<1>1. Init => Life = "starting"
  BY DEF Init, Life, Ended, Panicked
<1>2. Init => (IF forceClosed THEN 1 ELSE 0) = 0
  BY DEF Init
<1>3. Init => running = FALSE /\ ctxDone = FALSE
  BY DEF Init
<1> QED
  BY <1>1, <1>2, <1>3 DEF Abstract!Init

(* The changes of the CMCs and the steps of the monkeys are nothing the     *)
(* namespace watcher sees.                                                 *)
LEMMA AroundRefines ==
  ASSUME Api \/ \E m \in Monkeys : MonkeyStep(m)
  PROVE  UNCHANGED Abstract!vars
<1>1. UNCHANGED <<ctxDone, pc, running, forceClosed>>
  BY DEF Api, ApiChange, ApiClosesWatch, MonkeyStep, MonkeyRuns, MonkeyNoticesStop,
         MonkeyNoticesContext, MonkeyGivesUp, MonkeyFailsToStart, MonkeyLosesTimer,
         MonkeyFallsAsleep, MonkeyReturns, MonkeyMoves, loop
<1> QED
  BY <1>1 DEF Abstract!vars, Life, Ended, Panicked

(* Handling an event does not end the loop, unless promauto panics.         *)
LEMMA EventRefines == IInv /\ SelectEvent => [Abstract!Next]_(Abstract!vars)
<1> SUFFICES ASSUME IInv, SelectEvent PROVE Abstract!Next \/ UNCHANGED Abstract!vars
  OBVIOUS
<1>1. Head(queue) \in Event
  BY HeadTailProperties DEF SelectEvent, IInv, TypeOK
<1>2. pc' \in {"head", "panicked"}
  BY <1>1 DEF SelectEvent, Event, HandleAdded, HandleModified, HandleDeleted, Launch
<1>3. pc = "select" /\ UNCHANGED <<ctxDone, running, forceClosed>>
  BY DEF SelectEvent
<1>4. CASE pc' = "head"
  BY <1>3, <1>4 DEF Abstract!vars, Life
<1>5. CASE pc' = "panicked"
  BY <1>3, <1>5 DEF Life, Ended, Panicked, Abstract!Next, Abstract!Panics, Abstract!Moves
<1> QED
  BY <1>2, <1>4, <1>5

(* The other steps of the loop, each a step of the interface or none.       *)
LEMMA LoopRefines ==
  IInv /\ (Loop \/ SelectErrorEvent) /\ ~SelectEvent => [Abstract!Next]_(Abstract!vars)
<1> SUFFICES ASSUME IInv, Loop \/ SelectErrorEvent, ~SelectEvent
             PROVE  Abstract!Next \/ UNCHANGED Abstract!vars
  OBVIOUS
<1> USE DEF IInv, TypeOK, Life, Ended, Panicked, Abstract!vars, Abstract!Moves
<1>1. CASE StartWatches
  BY <1>1 DEF StartWatches, Abstract!Next, Abstract!Runs
<1>2. CASE StartFails
  BY <1>2 DEF StartFails, Abstract!Next, Abstract!Fails
<1>3. CASE LoopAgain
  BY <1>3 DEF LoopAgain
<1>4. CASE LoopEnds
  BY <1>4 DEF LoopEnds, Abstract!Next, Abstract!Leaves
<1>5. CASE AllHome
  BY <1>5 DEF AllHome, Abstract!Next, Abstract!Returns
<1>6. CASE RestartWatches
  BY <1>6 DEF RestartWatches, Abstract!Next, Abstract!Restarted
<1>7. CASE RestartFails
  BY <1>7 DEF RestartFails, Abstract!Next, Abstract!Restarted
<1>8. CASE SelectErrorEvent
  BY <1>8 DEF SelectErrorEvent, Abstract!Next, Abstract!Fails
<1>9. CASE SelectClosed
  BY <1>9 DEF SelectClosed, Abstract!Next, Abstract!Restarts
<1>10. CASE SelectContext
  BY <1>10 DEF SelectContext, Abstract!Next, Abstract!Notices
<1>11. CASE SelectForceStop
  <2>1. /\ Life = "looping" /\ Life' = "looping" /\ running' = FALSE
        /\ UNCHANGED <<forceClosed, ctxDone>> /\ running \in BOOLEAN
    BY <1>11 DEF SelectForceStop
  <2>2. (IF forceClosed THEN 1 ELSE 0) > 0
    BY <1>11 DEF SelectForceStop
  <2>3. CASE running
    <3>1. Abstract!Notices
      BY <2>1, <2>2, <2>3 DEF Abstract!Notices
    <3> QED
      BY <3>1 DEF Abstract!Next
  <2>4. CASE ~running
    BY <2>1, <2>4
  <2> QED
    BY <2>3, <2>4
<1>12. CASE SelectCleanUp
  BY <1>12 DEF SelectCleanUp
<1> QED
  BY <1>1, <1>2, <1>3, <1>4, <1>5, <1>6, <1>7, <1>8, <1>9, <1>10, <1>11, <1>12
     DEF Loop, Select

(* To the namespace watcher it is a watcher as the interface of module Crd  *)
(* has it (types.go, and the Mutex of crd.go): the safety part of IsCrd.    *)
THEOREM ImplementsCrd == Spec => Abstract!Spec
<1>1. IInv /\ [Next]_vars => [Abstract!Next]_(Abstract!vars)
  <2> SUFFICES ASSUME IInv, [Next]_vars PROVE Abstract!Next \/ UNCHANGED Abstract!vars
    OBVIOUS
  <2>1. CASE ForceStop
    BY <2>1 DEF ForceStop, Life, Ended, Panicked, IInv, TypeOK,
                Abstract!Next, Abstract!Stop
  <2>2. CASE Cancel
    BY <2>2 DEF Cancel, loop, Life, Ended, Panicked, IInv, TypeOK,
                Abstract!Next, Abstract!Cancel
  <2>3. CASE UNCHANGED vars
    BY <2>3 DEF vars, Life, Ended, Panicked, Abstract!vars
  <2> QED
    BY <2>1, <2>2, <2>3, AroundRefines, EventRefines, LoopRefines DEF Next
<1> QED
  BY <1>1, InitRefines, Invariance, PTL DEF Spec, Abstract!Spec

-----------------------------------------------------------------------------
(* The map and the API server.                                             *)
(*                                                                         *)
(* That the map never contradicts the API server is an invariant of the    *)
(* events under way, so the inductive invariant is about the stream: its   *)
(* last event of a CMC tells how the CMC is now, and an ADDED event finds  *)
(* no watcher, because it is the first of its CMC since the map was empty  *)
(* or follows a DELETED.                                                   *)

(* What the CMC of an event was after the change it reports. *)
Told(e) == IF e.type = "DELETED" THEN None ELSE e.spec

Last(q, i, c) ==
  /\ q[i].cmc = c
  /\ \A j \in DOMAIN q : i < j => q[j].cmc # c

First(q, j) == \A i \in DOMAIN q : i < j => q[i].cmc # q[j].cmc

(* The i-th event is the DELETED that the j-th follows. *)
Renews(q, i, j) ==
  /\ i < j /\ q[i].cmc = q[j].cmc /\ q[i].type = "DELETED"
  /\ \A k \in DOMAIN q : i < k /\ k < j => q[k].cmc # q[j].cmc

Wished == \A c \in Cmcs : cmcs[c] \in Desired[c] \cup {None}

Stream(cs, q) ==
  /\ \A i \in DOMAIN q : q[i].spec \in Desired[q[i].cmc]
  /\ \A c \in Cmcs : \/ \A i \in DOMAIN q : q[i].cmc # c
                     \/ \E i \in DOMAIN q : Last(q, i, c) /\ cs[c] = Told(q[i])

Fresh(q, map) ==
  \A j \in DOMAIN q : q[j].type = "ADDED" =>
    \/ First(q, j) /\ map[q[j].spec.dep] = None
    \/ \E i \in DOMAIN q : Renews(q, i, j)

Aims(map) ==
  \A d \in Deployments : map[d] # None => \E t \in Desired[map[d].cmc] : t.dep = d

(* MapReflectsApi, of any map and slots. *)
Reflects(cs, q, map, ms) ==
  \A d \in Deployments : map[d] # None =>
    \/ \E i \in DOMAIN q : q[i].cmc = map[d].cmc
    \/ cs[map[d].cmc] = [dep |-> d, mode |-> ms[map[d].monkey].mode,
                         enabled |-> ms[map[d].monkey].enabled]

Following == watch = "open" /\ pc \in {"head", "select"}

FollowInv ==
  /\ Wished
  /\ pc \in {"new", "restarting"} => /\ watch = "none"
                                     /\ \A d \in Deployments : dw[d] = None
  /\ Exclusive /\ Following => /\ Stream(cmcs, queue)
                               /\ Fresh(queue, dw)
                               /\ Aims(dw)
                               /\ Reflects(cmcs, queue, dw, monkey)

(* A user's change is the last event of its CMC, and it is an ADDED one     *)
(* only if the last one before it was a DELETED, or if the watcher of the  *)
(* CMC was removed long ago.                                               *)
LEMMA ChangeFollows ==
  ASSUME IInv, FollowInv, Exclusive, Following,
         NEW c \in Cmcs, NEW spec \in Desired[c] \cup {None}, ApiChange(c, spec)
  PROVE  /\ Stream(cmcs', queue')
         /\ Fresh(queue', dw)
         /\ Reflects(cmcs', queue', dw, monkey)
<1> DEFINE n == Len(queue)
           type == IF cmcs[c] = None THEN "ADDED"
                   ELSE IF spec = None THEN "DELETED" ELSE "MODIFIED"
           carried == IF spec = None THEN cmcs[c] ELSE spec
           e == [type |-> type, cmc |-> c, spec |-> carried]
<1>1. /\ queue \in Seq(Event) /\ n \in Nat /\ DOMAIN queue = 1 .. n
      /\ \A i \in 1 .. n : queue[i] \in Event
  BY DEF IInv, TypeOK
<1>2. queue' = Append(queue, e) /\ cmcs' = [cmcs EXCEPT ![c] = spec] /\ cmcs[c] # spec
  BY DEF ApiChange, Following
<1>3. cmcs[c] \in Desired[c] \cup {None} /\ carried \in Desired[c]
  BY <1>2 DEF FollowInv, Wished
<1>4. /\ e.cmc = c /\ e.spec = carried /\ e.type = type
      /\ Told(e) = spec
      /\ e.type = "ADDED" <=> cmcs[c] = None
  BY <1>2 DEF Told
<1> HIDE DEF n, type, carried, e
<1>5. /\ DOMAIN queue' = 1 .. n + 1
      /\ queue'[n + 1] = e
      /\ \A i \in 1 .. n : queue'[i] = queue[i]
  BY <1>1, <1>2 DEF n
<1>6. /\ cmcs'[c] = spec
      /\ \A b \in Cmcs : b # c => cmcs'[b] = cmcs[b]
  BY <1>2 DEF IInv, TypeOK
<1>7. Stream(cmcs, queue) /\ Fresh(queue, dw) /\ Aims(dw) /\ Reflects(cmcs, queue, dw, monkey)
  BY DEF FollowInv
<1>8. Stream(cmcs', queue')
  <2>1. \A i \in 1 .. n + 1 : queue'[i].spec \in Desired[queue'[i].cmc]
    <3>1. \A i \in 1 .. n + 1 : i \in 1 .. n \/ i = n + 1
      BY <1>1
    <3> QED
      BY <3>1, <1>1, <1>3, <1>4, <1>5, <1>7 DEF Stream
  <2>2. ASSUME NEW b \in Cmcs
        PROVE  \/ \A i \in 1 .. n + 1 : queue'[i].cmc # b
               \/ \E i \in 1 .. n + 1 : Last(queue', i, b) /\ cmcs'[b] = Told(queue'[i])
    <3>1. CASE b = c
      <4>1. Last(queue', n + 1, b)
        BY <3>1, <1>1, <1>4, <1>5 DEF Last
      <4> QED
        BY <3>1, <4>1, <1>1, <1>4, <1>5, <1>6
    <3>2. CASE b # c /\ \A i \in 1 .. n : queue[i].cmc # b
      <4>1. \A i \in 1 .. n + 1 : i \in 1 .. n \/ i = n + 1
        BY <1>1
      <4> QED
        BY <3>2, <4>1, <1>4, <1>5
    <3>3. CASE b # c /\ \E i \in 1 .. n : Last(queue, i, b) /\ cmcs[b] = Told(queue[i])
      <4>1. PICK i \in 1 .. n : Last(queue, i, b) /\ cmcs[b] = Told(queue[i])
        BY <3>3
      <4>2. Last(queue', i, b)
        BY <3>3, <4>1, <1>1, <1>4, <1>5 DEF Last
      <4> QED
        BY <3>3, <4>1, <4>2, <1>1, <1>5, <1>6
    <3> QED
      BY <3>1, <3>2, <3>3, <1>1, <1>7 DEF Stream
  <2> QED
    BY <2>1, <2>2, <1>5 DEF Stream
<1>9. Fresh(queue', dw)
  <2> SUFFICES ASSUME NEW j \in 1 .. n + 1, queue'[j].type = "ADDED"
               PROVE  \/ First(queue', j) /\ dw[queue'[j].spec.dep] = None
                      \/ \E i \in DOMAIN queue' : Renews(queue', i, j)
    BY <1>5 DEF Fresh
  <2>1. CASE j \in 1 .. n
    <3>1. queue'[j] = queue[j]
      BY <2>1, <1>5
    <3>2. First(queue, j) => First(queue', j)
      BY <2>1, <3>1, <1>1, <1>5 DEF First
    <3>3. \A i \in 1 .. n : Renews(queue, i, j) => Renews(queue', i, j)
      BY <2>1, <3>1, <1>1, <1>5 DEF Renews
    <3> QED
      BY <3>1, <3>2, <3>3, <2>1, <1>1, <1>5, <1>7 DEF Fresh
  <2>2. CASE j = n + 1 /\ \A i \in 1 .. n : queue[i].cmc # c
    <3>1. First(queue', j)
      BY <2>2, <1>1, <1>4, <1>5 DEF First
    <3>2. cmcs[c] = None
      BY <2>2, <1>4, <1>5
    <3>3. e.spec.dep \in Deployments
      BY <1>3, <1>4, CrdAssumption DEF CmcSpec
    <3>4. ASSUME dw[e.spec.dep] # None PROVE FALSE
      <4>1. dw[e.spec.dep].cmc \in Cmcs
        BY <3>3, <3>4 DEF IInv, TypeOK, Entry
      <4>2. PICK t \in Desired[dw[e.spec.dep].cmc] : t.dep = e.spec.dep
        BY <3>3, <3>4, <1>7 DEF Aims
      <4>3. dw[e.spec.dep].cmc = c
        BY <4>1, <4>2, <1>3, <1>4 DEF Exclusive
      <4> DEFINE w == monkey[dw[e.spec.dep].monkey]
      <4>4. w \in Monkey
        BY <3>3, <3>4 DEF IInv, Core, Entry
      <4>5. cmcs[c] = [dep |-> e.spec.dep, mode |-> w.mode, enabled |-> w.enabled]
        BY <4>3, <3>3, <3>4, <2>2, <1>1, <1>7 DEF Reflects
      <4>6. [dep |-> e.spec.dep, mode |-> w.mode, enabled |-> w.enabled] \in CmcSpec
        BY <3>3, <4>4 DEF CmcSpec, Monkey
      <4> QED
        BY <4>5, <4>6, <3>2, CrdAssumption
    <3> QED
      BY <2>2, <3>1, <3>4, <1>5
  <2>3. CASE j = n + 1 /\ \E i \in 1 .. n : queue[i].cmc = c
    <3>1. PICK i \in 1 .. n : Last(queue, i, c) /\ cmcs[c] = Told(queue[i])
      BY <2>3, <1>1, <1>7 DEF Stream
    <3>3. queue[i].type = "DELETED"
      <4>1. Told(queue[i]) = None
        BY <3>1, <2>3, <1>4, <1>5
      <4>2. queue[i].spec # None
        BY <3>1, <1>1, CrdAssumption DEF Event
      <4> QED
        BY <4>1, <4>2 DEF Told
    <3>4. Renews(queue', i, j)
      BY <3>1, <3>3, <2>3, <1>1, <1>4, <1>5 DEF Renews, Last
    <3> QED
      BY <3>1, <3>4, <1>1, <1>5
  <2> QED
    BY <2>1, <2>2, <2>3, <1>1
<1>10. Reflects(cmcs', queue', dw, monkey)
  <2> SUFFICES ASSUME NEW d \in Deployments, dw[d] # None
               PROVE  \/ \E i \in DOMAIN queue' : queue'[i].cmc = dw[d].cmc
                      \/ cmcs'[dw[d].cmc] = [dep |-> d, mode |-> monkey[dw[d].monkey].mode,
                                             enabled |-> monkey[dw[d].monkey].enabled]
    BY DEF Reflects
  <2>1. dw[d].cmc \in Cmcs
    BY DEF IInv, TypeOK, Entry
  <2>2. CASE dw[d].cmc = c
    BY <2>2, <1>1, <1>4, <1>5
  <2>3. CASE \E i \in 1 .. n : queue[i].cmc = dw[d].cmc
    BY <2>3, <1>1, <1>5
  <2>4. CASE dw[d].cmc # c /\ \A i \in 1 .. n : queue[i].cmc # dw[d].cmc
    BY <2>1, <2>4, <1>1, <1>6, <1>7 DEF Reflects
  <2> QED
    BY <2>2, <2>3, <2>4
<1> QED
  BY <1>8, <1>9, <1>10

(* A new watch tells of every CMC once, and finds an empty map. *)
LEMMA ListingFollows ==
  ASSUME IInv, Wished, \A d \in Deployments : dw[d] = None, NEW q \in Listing
  PROVE  Stream(cmcs, q) /\ Fresh(q, dw) /\ Aims(dw) /\ Reflects(cmcs, q, dw, monkey)
<1>0. PICK existing \in SUBSET Cmcs : existing = {c \in Cmcs : cmcs[c] # None}
  OBVIOUS
<1>1. PICK n \in Nat : n = Cardinality(existing) /\ IsFiniteSet(existing)
  BY FS_Subset, FS_CardinalityType, CrdAssumption
<1>2. PICK o \in [1 .. n -> existing] :
        /\ \A i, j \in DOMAIN o : o[i] = o[j] => i = j
        /\ q = [i \in DOMAIN o |-> [type |-> "ADDED", cmc |-> o[i], spec |-> cmcs[o[i]]]]
  BY <1>0, <1>1 DEF Listing
<1>3. \A c \in existing : \E i \in 1 .. n : o[i] = c
  <2>1. o \in Injection(1 .. n, existing)
    BY <1>2, Fun_IsInj
  <2>2. Cardinality(1 .. n) = n
    BY FS_Interval
  <2>3. o \in Surjection(1 .. n, existing)
    BY <1>1, <2>1, <2>2, FS_Injection
  <2> QED
    BY <2>3, Fun_SurjectionProperties
<1>4. /\ DOMAIN q = 1 .. n
      /\ \A i \in 1 .. n : /\ o[i] \in Cmcs /\ cmcs[o[i]] # None
                           /\ q[i].type = "ADDED" /\ q[i].cmc = o[i] /\ q[i].spec = cmcs[o[i]]
  BY <1>0, <1>2
<1>5. Stream(cmcs, q)
  <2>1. \A i \in 1 .. n : q[i].spec \in Desired[q[i].cmc]
    BY <1>4 DEF Wished
  <2>2. ASSUME NEW c \in Cmcs, NEW i \in 1 .. n, q[i].cmc = c
        PROVE  Last(q, i, c) /\ cmcs[c] = Told(q[i])
    BY <2>2, <1>1, <1>2, <1>4 DEF Last, Told
  <2> QED
    BY <2>1, <2>2, <1>4 DEF Stream
<1>6. Fresh(q, dw)
  <2>1. ASSUME NEW j \in 1 .. n PROVE First(q, j) /\ dw[q[j].spec.dep] = None
    <3>1. First(q, j)
      BY <1>1, <1>2, <1>4 DEF First
    <3>2. q[j].spec.dep \in Deployments
      BY <1>4, CrdAssumption DEF Wished, CmcSpec
    <3> QED
      BY <3>1, <3>2
  <2> QED
    BY <2>1, <1>4 DEF Fresh
<1> QED
  BY <1>5, <1>6 DEF Aims, Reflects

(* Entries have left the map, and what the others point to is the same in   *)
(* mode and flag.                                                          *)
Shrunk(map, ms, map2, ms2) ==
  \A d \in Deployments :
    \/ map2[d] = None
    \/ /\ map2[d] = map[d]
       /\ ms2[map[d].monkey].mode = ms[map[d].monkey].mode
       /\ ms2[map[d].monkey].enabled = ms[map[d].monkey].enabled

LEMMA ShrinkFollows ==
  ASSUME NEW cs, NEW q, NEW map, NEW ms, NEW map2, NEW ms2,
         Stream(cs, q), Fresh(q, map), Aims(map), Reflects(cs, q, map, ms),
         \A i \in DOMAIN q : q[i].spec.dep \in Deployments,
         Shrunk(map, ms, map2, ms2)
  PROVE  Stream(cs, q) /\ Fresh(q, map2) /\ Aims(map2) /\ Reflects(cs, q, map2, ms2)
<1>1. Fresh(q, map2)
  <2>1. \A j \in DOMAIN q : map[q[j].spec.dep] = None => map2[q[j].spec.dep] = None
    BY DEF Shrunk
  <2> QED
    BY <2>1 DEF Fresh
<1>2. Aims(map2)
  BY DEF Aims, Shrunk
<1>3. Reflects(cs, q, map2, ms2)
  <2> SUFFICES ASSUME NEW d \in Deployments, map2[d] # None
               PROVE  \/ \E i \in DOMAIN q : q[i].cmc = map2[d].cmc
                      \/ cs[map2[d].cmc] = [dep |-> d, mode |-> ms2[map2[d].monkey].mode,
                                            enabled |-> ms2[map2[d].monkey].enabled]
    BY DEF Reflects
  <2>1. /\ map2[d] = map[d] /\ map[d] # None
        /\ ms2[map[d].monkey].mode = ms[map[d].monkey].mode
        /\ ms2[map[d].monkey].enabled = ms[map[d].monkey].enabled
    BY DEF Shrunk
  <2> QED
    BY <2>1 DEF Reflects
<1> QED
  BY <1>1, <1>2, <1>3

(* Two entries never point to one monkey, and every entry to a watcher. *)
LEMMA EntryFacts ==
  ASSUME Core(monkey, dw, registry), NEW d \in Deployments, dw[d] # None
  PROVE  /\ dw[d] \in Entry
         /\ dw[d].monkey \in Monkeys
         /\ monkey[dw[d].monkey] \in Monkey
         /\ monkey[dw[d].monkey].mode = dw[d].mode
         /\ dw[d].monkey \in Mapped
         /\ \A f \in Deployments : dw[f] # None /\ f # d => dw[f].monkey # dw[d].monkey
<1>1. dw[d] \in Entry /\ dw[d].monkey \in Monkeys
  BY DEF Core, Entry
<1> QED
  BY <1>1 DEF Core, Mapped

(* What handling the event e does to the map and to the watchers in it: the *)
(* entry of e's deployment is gone or made as e says, all others stay.      *)
Handled(e) ==
  LET d == e.spec.dep IN
  /\ \A f \in Deployments : f # d =>
       /\ dw'[f] = dw[f]
       /\ dw[f] # None => monkey'[dw[f].monkey] = monkey[dw[f].monkey]
  /\ dw'[d] # None => /\ e.type # "DELETED"
                      /\ dw'[d].cmc = e.cmc
                      /\ monkey'[dw'[d].monkey].mode = e.spec.mode
                      /\ monkey'[dw'[d].monkey].enabled = e.spec.enabled

(* Launch makes an entry as the event says, and leaves the others alone.    *)
LEMMA LaunchHandles ==
  ASSUME NEW e \in Event, e.type # "DELETED", NEW ms, NEW reg, NEW map,
         Core(monkey, dw, registry),
         ms \in [Monkeys -> Monkey \cup {Blank}], map \in [Deployments -> Entry \cup {None}],
         \A f \in Deployments : f # e.spec.dep =>
           /\ map[f] = dw[f]
           /\ dw[f] # None => ms[dw[f].monkey] = monkey[dw[f].monkey],
         Launch(e.cmc, e.spec, reg, ms, map), pc' = "head"
  PROVE  Handled(e)
<1> DEFINE d == e.spec.dep
           entry(m) == [monkey |-> m, cmc |-> e.cmc, mode |-> e.spec.mode]
<1>1. d \in Deployments
  BY DEF Event, CmcSpec
<1>2. PICK m \in Monkeys : /\ ms[m] = Blank
                           /\ monkey' = [ms EXCEPT ![m] = NewMonkey(e.spec)]
                           /\ dw' = [map EXCEPT ![d] = entry(m)]
  BY DEF Launch
<1>3. dw'[d] = entry(m) /\ monkey'[m] = NewMonkey(e.spec)
  BY <1>1, <1>2
<1>4. ASSUME NEW f \in Deployments, f # d
      PROVE  /\ dw'[f] = dw[f]
             /\ dw[f] # None => monkey'[dw[f].monkey] = monkey[dw[f].monkey]
  <2>1. dw'[f] = dw[f]
    BY <1>2, <1>4
  <2>2. ASSUME dw[f] # None PROVE monkey'[dw[f].monkey] = monkey[dw[f].monkey]
    <3>1. ms[dw[f].monkey] = monkey[dw[f].monkey] /\ monkey[dw[f].monkey] # Blank
          /\ dw[f].monkey \in Monkeys
      BY <1>4, <2>2, EntryFacts, BlankFacts
    <3> QED
      BY <3>1, <1>2
  <2> QED
    BY <2>1, <2>2
<1> QED
  BY <1>3, <1>4 DEF Handled, NewMonkey

LEMMA EventHandles ==
  ASSUME IInv, NEW e \in Event, pc' = "head",
         dw[e.spec.dep] # None => e.type # "ADDED" /\ dw[e.spec.dep].cmc = e.cmc,
         \/ e.type = "ADDED" /\ HandleAdded(e.cmc, e.spec)
         \/ e.type = "MODIFIED" /\ HandleModified(e.cmc, e.spec)
         \/ e.type = "DELETED" /\ HandleDeleted(e.cmc, e.spec)
  PROVE  Handled(e)
<1> DEFINE d   == e.spec.dep
           m   == dw[d].monkey
           ms  == StopAndForget(monkey, {m})
           reg == registry \ UnregisteredByStop({m})
           map == [dw EXCEPT ![d] = None]
<1>1. d \in Deployments /\ Core(monkey, dw, registry)
  BY DEF Event, CmcSpec, IInv
<1>2. \A f \in Deployments : dw[f] # None => dw[f].monkey \in Monkeys
  BY <1>1, EntryFacts
<1>3. CASE UNCHANGED <<dw, monkey>> /\ dw[d] = None
  BY <1>3 DEF Handled
<1>4. CASE dw[d] = None /\ e.type = "ADDED" /\ Launch(e.cmc, e.spec, registry, monkey, dw)
  BY <1>1, <1>4, LaunchHandles DEF Core
<1>5. CASE /\ dw[d] # None /\ e.type = "MODIFIED" /\ dw[d].mode = e.spec.mode
           /\ monkey' = [monkey EXCEPT ![m].enabled = e.spec.enabled]
           /\ dw' = dw
  <2>1. m \in Monkeys /\ monkey[m] \in Monkey /\ monkey[m].mode = e.spec.mode
    BY <1>1, <1>5, EntryFacts
  <2>2. monkey'[m].mode = e.spec.mode /\ monkey'[m].enabled = e.spec.enabled
    BY <1>1, <1>5, <2>1 DEF Core, Monkey
  <2>3. \A f \in Deployments : f # d /\ dw[f] # None => dw[f].monkey # m
    BY <1>1, <1>5, EntryFacts
  <2> QED
    BY <1>2, <1>5, <2>2, <2>3 DEF Handled, IInv, TypeOK
<1>6. CASE dw[d] # None /\ e.type # "ADDED"
  <2>1. \A f \in Deployments : f # d /\ dw[f] # None => dw[f].monkey # m
    BY <1>1, <1>6, EntryFacts
  <2>2. \A f \in Deployments : f # d =>
          /\ map[f] = dw[f]
          /\ dw[f] # None => ms[dw[f].monkey] = monkey[dw[f].monkey]
    BY <1>1, <1>2, <2>1 DEF StopAndForget, Core
  <2>3. map[d] = None
    BY <1>1 DEF Core
  <2>4. CASE dw' = map /\ monkey' = ms
    BY <2>2, <2>3, <2>4 DEF Handled
  <2>5. CASE e.type # "DELETED" /\ Launch(e.cmc, e.spec, reg, ms, map)
    <3>1. ms \in [Monkeys -> Monkey \cup {Blank}]
      <4>1. m \in Monkeys /\ monkey[m] \in Monkey
        BY <1>1, <1>6, EntryFacts
      <4>2. Forget(Stop(monkey[m])) \in Monkey \cup {Blank}
        BY <4>1, StoppedIsGone DEF Gone
      <4> QED
        BY <1>1, <4>1, <4>2 DEF StopAndForget, Core
    <3>2. map \in [Deployments -> Entry \cup {None}]
      BY <1>1 DEF Core
    <3> HIDE DEF ms, reg, map
    <3> QED
      BY <1>1, <2>2, <2>5, <3>1, <3>2, LaunchHandles
  <2>6. CASE /\ e.type = "MODIFIED" /\ dw[d].mode = e.spec.mode
             /\ monkey' = [monkey EXCEPT ![m].enabled = e.spec.enabled]
             /\ dw' = dw
    BY <1>5, <1>6, <2>6
  <2> QED
    BY <1>6, <2>4, <2>5, <2>6 DEF HandleModified, HandleDeleted
<1> QED
  BY <1>3, <1>4, <1>6 DEF HandleAdded, HandleModified, HandleDeleted, kids

(* Once its first event is handled, a stream that is faithful goes on being *)
(* so, and the entry the event left is as the API server has the CMC if    *)
(* nothing more is reported about it.                                      *)
LEMMA HandledFollows ==
  ASSUME IInv, Exclusive, queue # <<>>, Handled(Head(queue)),
         Stream(cmcs, queue), Fresh(queue, dw), Aims(dw), Reflects(cmcs, queue, dw, monkey)
  PROVE  /\ Stream(cmcs, Tail(queue))
         /\ Fresh(Tail(queue), dw')
         /\ Aims(dw')
         /\ Reflects(cmcs, Tail(queue), dw', monkey')
<1> DEFINE q == Tail(queue)
           e == Head(queue)
           d == e.spec.dep
<1>1. PICK n \in Nat : n = Len(queue) /\ n > 0 /\ DOMAIN queue = 1 .. n
  BY EmptySeq, LenProperties DEF IInv, TypeOK
<1>2. /\ \A i \in 1 .. n : queue[i] \in Event
      /\ DOMAIN q = 1 .. n - 1
      /\ \A i \in 1 .. n - 1 : q[i] = queue[i + 1]
      /\ e = queue[1]
  BY <1>1 DEF IInv, TypeOK
<1>3. \A i \in 1 .. n : /\ queue[i].cmc \in Cmcs
                        /\ queue[i].spec \in Desired[queue[i].cmc]
                        /\ queue[i].spec \in CmcSpec
                        /\ queue[i].spec.dep \in Deployments
  BY <1>1, <1>2 DEF Stream, Event, CmcSpec
<1>4. \A i \in 1 .. n : queue[i].spec.dep = d <=> queue[i].cmc = e.cmc
  BY <1>1, <1>2, <1>3 DEF Exclusive
<1>5. /\ d \in Deployments
      /\ \A f \in Deployments : f # d =>
           /\ dw'[f] = dw[f]
           /\ dw[f] # None => monkey'[dw[f].monkey] = monkey[dw[f].monkey]
      /\ dw'[d] # None => /\ e.type # "DELETED"
                          /\ dw'[d].cmc = e.cmc
                          /\ monkey'[dw'[d].monkey].mode = e.spec.mode
                          /\ monkey'[dw'[d].monkey].enabled = e.spec.enabled
  BY <1>1, <1>2, <1>3 DEF Handled
<1> HIDE DEF q, e, d
<1>6. \A i \in 1 .. n - 1 : i + 1 \in 1 .. n
  BY <1>1
<1>7. \A i \in 1 .. n : i # 1 => i - 1 \in 1 .. n - 1 /\ q[i - 1] = queue[i]
  BY <1>1, <1>2
<1>8. Stream(cmcs, q)
  <2>1. \A i \in 1 .. n - 1 : q[i].spec \in Desired[q[i].cmc]
    BY <1>2, <1>3, <1>6
  <2>2. ASSUME NEW c \in Cmcs, NEW k \in 1 .. n - 1, q[k].cmc = c
        PROVE  \E i \in 1 .. n - 1 : Last(q, i, c) /\ cmcs[c] = Told(q[i])
    <3>1. queue[k + 1].cmc = c /\ k + 1 \in 1 .. n /\ k + 1 > 1
      BY <2>2, <1>1, <1>2, <1>6
    <3>2. PICK i \in 1 .. n : Last(queue, i, c) /\ cmcs[c] = Told(queue[i])
      BY <3>1, <1>1 DEF Stream
    <3>3. i # 1
      BY <3>1, <3>2, <1>1 DEF Last
    <3>4. Last(q, i - 1, c)
      <4>1. q[i - 1].cmc = c
        BY <3>2, <3>3, <1>7 DEF Last
      <4>2. ASSUME NEW j \in 1 .. n - 1, i - 1 < j PROVE q[j].cmc # c
        <5>1. j + 1 \in 1 .. n /\ i < j + 1 /\ q[j] = queue[j + 1]
          BY <4>2, <1>1, <1>2
        <5> QED
          BY <5>1, <3>2, <1>1 DEF Last
      <4> QED
        BY <4>1, <4>2, <1>2 DEF Last
    <3> QED
      BY <3>2, <3>3, <3>4, <1>7
  <2> QED
    BY <2>1, <2>2, <1>2 DEF Stream
<1>9. Fresh(q, dw')
  <2> SUFFICES ASSUME NEW j \in 1 .. n - 1, q[j].type = "ADDED"
               PROVE  \/ First(q, j) /\ dw'[q[j].spec.dep] = None
                      \/ \E i \in 1 .. n - 1 : Renews(q, i, j)
    BY <1>2 DEF Fresh
  <2>1. j + 1 \in 1 .. n /\ queue[j + 1] = q[j]
    BY <1>2, <1>6
  <2>2. CASE First(queue, j + 1) /\ dw[q[j].spec.dep] = None
    <3>1. First(q, j)
      <4>1. ASSUME NEW i \in 1 .. n - 1, i < j PROVE q[i].cmc # q[j].cmc
        <5>1. i + 1 \in 1 .. n /\ i + 1 < j + 1 /\ q[i] = queue[i + 1]
          BY <4>1, <1>1, <1>2
        <5> QED
          BY <5>1, <2>1, <2>2, <1>1 DEF First
      <4> QED
        BY <4>1, <1>2 DEF First
    <3>2. q[j].cmc # e.cmc
      BY <2>1, <2>2, <1>1, <1>2 DEF First
    <3>3. q[j].spec.dep # d
      BY <2>1, <3>2, <1>4
    <3> QED
      BY <2>1, <2>2, <3>1, <3>3, <1>3, <1>5
  <2>3. CASE Renews(queue, 1, j + 1)
    <3>1. First(q, j)
      BY <2>1, <2>3, <1>1, <1>2, <1>6 DEF First, Renews
    <3>2. q[j].spec.dep = d /\ e.type = "DELETED"
      BY <2>1, <2>3, <1>2, <1>4 DEF Renews
    <3> QED
      BY <3>1, <3>2, <1>5
  <2>4. ASSUME NEW i \in 1 .. n, i # 1, Renews(queue, i, j + 1)
        PROVE  Renews(q, i - 1, j)
    <3>1. i - 1 \in 1 .. n - 1 /\ q[i - 1] = queue[i] /\ i - 1 < j
      BY <2>1, <2>4, <1>1, <1>7 DEF Renews
    <3>2. ASSUME NEW k \in 1 .. n - 1, i - 1 < k, k < j PROVE q[k].cmc # q[j].cmc
      <4>1. k + 1 \in 1 .. n /\ i < k + 1 /\ k + 1 < j + 1 /\ q[k] = queue[k + 1]
        BY <3>2, <1>1, <1>2
      <4> QED
        BY <4>1, <2>1, <2>4, <1>1 DEF Renews
    <3> QED
      BY <3>1, <3>2, <2>1, <2>4, <1>2 DEF Renews
  <2>5. \A i \in 1 .. n : Renews(queue, i, j + 1) => i = 1 \/ \E k \in 1 .. n - 1 : Renews(q, k, j)
    BY <2>4, <1>7
  <2> QED
    BY <2>1, <2>2, <2>3, <2>5, <1>1 DEF Fresh
<1>10. Aims(dw')
  <2> SUFFICES ASSUME NEW f \in Deployments, dw'[f] # None
               PROVE  \E t \in Desired[dw'[f].cmc] : t.dep = f
    BY DEF Aims
  <2>1. CASE f # d
    BY <2>1, <1>5 DEF Aims
  <2>2. CASE f = d
    BY <2>2, <1>1, <1>2, <1>3, <1>5 DEF d
  <2> QED
    BY <2>1, <2>2
<1>11. Reflects(cmcs, q, dw', monkey')
  <2> SUFFICES ASSUME NEW f \in Deployments, dw'[f] # None,
                      \A i \in 1 .. n - 1 : q[i].cmc # dw'[f].cmc
               PROVE  cmcs[dw'[f].cmc] = [dep |-> f, mode |-> monkey'[dw'[f].monkey].mode,
                                          enabled |-> monkey'[dw'[f].monkey].enabled]
    BY <1>2 DEF Reflects
  <2>1. CASE f # d
    <3>1. /\ dw'[f] = dw[f]
          /\ monkey'[dw[f].monkey] = monkey[dw[f].monkey]
          /\ dw[f].cmc \in Cmcs
      BY <2>1, <1>5 DEF IInv, TypeOK, Entry
    <3>2. dw[f].cmc # e.cmc
      <4>1. PICK t \in Desired[dw[f].cmc] : t.dep = f
        BY <3>1 DEF Aims
      <4> QED
        BY <2>1, <3>1, <4>1, <1>1, <1>2, <1>3 DEF Exclusive, d
    <3>3. \A i \in 1 .. n : queue[i].cmc # dw[f].cmc
      BY <3>1, <3>2, <1>2, <1>7
    <3> QED
      BY <3>1, <3>3, <1>1 DEF Reflects
  <2>2. CASE f = d
    <3>1. \A i \in 1 .. n : i # 1 => queue[i].cmc # e.cmc
      BY <2>2, <1>5, <1>7
    <3>2. cmcs[e.cmc] = Told(e)
      BY <3>1, <1>1, <1>2, <1>3 DEF Stream, Last
    <3>3. e.spec \in CmcSpec /\ Told(e) = e.spec
      BY <2>2, <1>1, <1>2, <1>3, <1>5 DEF Told
    <3>4. e.spec = [dep |-> d, mode |-> e.spec.mode, enabled |-> e.spec.enabled]
      BY <3>3 DEF CmcSpec, d
    <3> QED
      BY <2>2, <3>2, <3>3, <3>4, <1>5
  <2> QED
    BY <2>1, <2>2
<1> QED
  BY <1>8, <1>9, <1>10, <1>11 DEF q

LEMMA EventFollows ==
  ASSUME IInv, FollowInv, SelectEvent
  PROVE  FollowInv'
<1>1. pc = "select" /\ queue # <<>> /\ queue' = Tail(queue) /\ UNCHANGED <<cmcs, watch>>
  BY DEF SelectEvent
<1>2. Wished'
  BY <1>1 DEF FollowInv, Wished
<1> DEFINE e == Head(queue)
<1>3. PICK n \in Nat : n = Len(queue) /\ n > 0 /\ DOMAIN queue = 1 .. n
  BY <1>1, EmptySeq, LenProperties DEF IInv, TypeOK
<1>4. e = queue[1] /\ e \in Event /\ 1 \in DOMAIN queue
  BY <1>3 DEF IInv, TypeOK
<1>5. pc' \in {"head", "panicked"}
  BY <1>4 DEF SelectEvent, Event, HandleAdded, HandleModified, HandleDeleted, Launch
<1>6. ASSUME Exclusive, watch = "open", pc' = "head"
      PROVE  Handled(e) /\ Stream(cmcs, queue) /\ Fresh(queue, dw) /\ Aims(dw)
             /\ Reflects(cmcs, queue, dw, monkey)
  <2>1. Stream(cmcs, queue) /\ Fresh(queue, dw) /\ Aims(dw)
        /\ Reflects(cmcs, queue, dw, monkey)
    BY <1>1, <1>6 DEF FollowInv, Following
  <2>2. e.cmc \in Cmcs /\ e.spec \in Desired[e.cmc] /\ e.spec.dep \in Deployments
    BY <2>1, <1>4 DEF Stream, Event, CmcSpec
  <2>3. dw[e.spec.dep] # None => dw[e.spec.dep].cmc = e.cmc
    <3>1. dw[e.spec.dep] # None => dw[e.spec.dep].cmc \in Cmcs
      BY <2>2 DEF IInv, TypeOK, Entry
    <3> QED
      BY <1>6, <2>1, <2>2, <3>1 DEF Aims, Exclusive
  <2>4. dw[e.spec.dep] # None => e.type # "ADDED"
    <3>1. \A i \in DOMAIN queue : ~Renews(queue, i, 1)
      BY <1>3 DEF Renews
    <3> QED
      BY <2>1, <3>1, <1>4 DEF Fresh
  <2>5. \/ e.type = "ADDED" /\ HandleAdded(e.cmc, e.spec)
        \/ e.type = "MODIFIED" /\ HandleModified(e.cmc, e.spec)
        \/ e.type = "DELETED" /\ HandleDeleted(e.cmc, e.spec)
    BY <1>4 DEF SelectEvent, Event
  <2> HIDE DEF e
  <2>6. Handled(e)
    BY <1>4, <1>6, <2>3, <2>4, <2>5, EventHandles
  <2> QED
    BY <2>1, <2>6
<1>7. ASSUME Exclusive, watch = "open", pc' = "head"
      PROVE  Stream(cmcs', queue') /\ Fresh(queue', dw') /\ Aims(dw')
             /\ Reflects(cmcs', queue', dw', monkey')
  BY <1>1, <1>6, <1>7, HandledFollows
<1> QED
  BY <1>1, <1>2, <1>5, <1>7
     DEF FollowInv, Following, Stream, Fresh, Aims, Reflects, Exclusive, Last, First, Renews, Told

LEMMA MonkeyFollows ==
  ASSUME IInv, FollowInv, NEW m \in Monkeys, MonkeyStep(m)
  PROVE  FollowInv'
<1>1. UNCHANGED <<cmcs, queue, watch, pc, dw>>
  BY DEF MonkeyStep, MonkeyRuns, MonkeyNoticesStop, MonkeyNoticesContext, MonkeyGivesUp,
         MonkeyFailsToStart, MonkeyLosesTimer, MonkeyFallsAsleep, MonkeyReturns, MonkeyMoves, api, loop
<1>2. ASSUME NEW k \in Mapped
      PROVE  monkey'[k].mode = monkey[k].mode /\ monkey'[k].enabled = monkey[k].enabled
  <2>1. /\ k \in Monkeys /\ monkey[k] \in Monkey
        /\ monkey \in [Monkeys -> Monkey \cup {Blank}]
    BY <1>2, EntryFacts DEF Mapped, IInv, TypeOK
  <2>2. ASSUME NEW l, MonkeyMoves(m, l)
        PROVE  monkey'[k].mode = monkey[k].mode /\ monkey'[k].enabled = monkey[k].enabled
    BY <2>1, <2>2 DEF MonkeyMoves, Monkey
  <2>3. CASE MonkeyReturns(m)
    BY <1>2, <2>1, <2>3 DEF MonkeyReturns, Monkey
  <2> QED
    BY <2>2, <2>3 DEF MonkeyStep, MonkeyRuns, MonkeyNoticesStop, MonkeyNoticesContext,
         MonkeyGivesUp, MonkeyFailsToStart, MonkeyLosesTimer, MonkeyFallsAsleep
<1>3. \A d \in Deployments : dw[d] # None => dw[d].monkey \in Mapped
  BY DEF Mapped
<1>4. Reflects(cmcs, queue, dw, monkey) => Reflects(cmcs, queue, dw, monkey')
  BY <1>2, <1>3 DEF Reflects
<1> QED
  BY <1>1, <1>4
     DEF FollowInv, Following, Wished, Stream, Fresh, Aims, Reflects, Exclusive, Last, First,
         Renews, Told

(* The other steps of the loop open a new watch, end the old one, or at     *)
(* most take entries out of the map.                                       *)
LEMMA LoopFollows ==
  ASSUME IInv, FollowInv, Loop \/ SelectErrorEvent, ~SelectEvent
  PROVE  FollowInv'
<1> USE DEF api, kids, loop
<1>1. UNCHANGED cmcs /\ Wished'
  <2>1. UNCHANGED cmcs
    BY DEF Loop, Select, StartWatches, StartFails, LoopAgain, LoopEnds, AllHome, SelectErrorEvent,
         SelectClosed, SelectContext, SelectCleanUp, SelectForceStop, RestartWatches, RestartFails
  <2> QED
    BY <2>1 DEF FollowInv, Wished
<1>2. CASE StartWatches \/ RestartWatches
  <2>1. /\ UNCHANGED <<cmcs, dw, monkey>> /\ queue' \in Listing /\ pc' = "head"
        /\ \A d \in Deployments : dw[d] = None
    BY <1>2 DEF StartWatches, RestartWatches, FollowInv
  <2>2. /\ Stream(cmcs, queue') /\ Fresh(queue', dw) /\ Aims(dw)
        /\ Reflects(cmcs, queue', dw, monkey)
    BY <2>1, ListingFollows DEF FollowInv
  <2> QED
    BY <1>1, <2>1, <2>2
       DEF FollowInv, Following, Stream, Fresh, Aims, Reflects, Last, First, Renews, Told
<1>3. CASE SelectClosed
  BY <1>1, <1>3 DEF SelectClosed, StopAll, FollowInv, Following
<1>4. CASE StartFails \/ LoopEnds \/ AllHome \/ SelectErrorEvent
  BY <1>1, <1>4 DEF StartFails, LoopEnds, AllHome, SelectErrorEvent, FollowInv, Following
<1>5. CASE RestartFails
  BY <1>1, <1>5 DEF RestartFails, FollowInv, Following
<1>6. CASE LoopAgain \/ SelectContext \/ SelectForceStop
  <2>1. UNCHANGED <<queue, watch, dw, monkey>> /\ pc \in {"head", "select"}
        /\ pc' \in {"head", "select"}
    BY <1>6 DEF LoopAgain, SelectContext, SelectForceStop
  <2> QED
    BY <1>1, <2>1
       DEF FollowInv, Following, Stream, Fresh, Aims, Reflects, Last, First, Renews, Told
<1>7. CASE SelectCleanUp
  <2> DEFINE dead  == {d \in Deployments : dw[d] # None /\ ~IsRunning(dw[d].monkey)}
             swept == {dw[d].monkey : d \in dead}
  <2>1. /\ UNCHANGED <<queue, watch>> /\ pc = "select" /\ pc' = "head"
        /\ dw' = [d \in Deployments |-> IF d \in dead THEN None ELSE dw[d]]
        /\ \A m \in Monkeys : m \notin swept => monkey'[m] = monkey[m]
    BY <1>7 DEF SelectCleanUp
  <2>2. ASSUME NEW d \in Deployments, dw'[d] # None
        PROVE  dw'[d] = dw[d] /\ monkey'[dw[d].monkey] = monkey[dw[d].monkey]
    <3>1. d \notin dead /\ dw'[d] = dw[d]
      BY <2>1, <2>2
    <3>2. dw[d].monkey \in Monkeys /\ dw[d].monkey \notin swept
      BY <2>2, <3>1, EntryFacts DEF IInv
    <3> QED
      BY <2>1, <3>1, <3>2
  <2>3. \A i \in DOMAIN queue : queue[i].spec.dep \in Deployments
    <3>1. \A i \in DOMAIN queue : queue[i] \in Event
      BY LenProperties DEF IInv, TypeOK
    <3> QED
      BY <3>1 DEF Event, CmcSpec
  <2>4. ASSUME Stream(cmcs, queue), Fresh(queue, dw), Aims(dw),
               Reflects(cmcs, queue, dw, monkey)
        PROVE  /\ Stream(cmcs, queue) /\ Fresh(queue, dw') /\ Aims(dw')
               /\ Reflects(cmcs, queue, dw', monkey')
    <3> HIDE DEF dead, swept
    <3>1. Shrunk(dw, monkey, dw', monkey')
      BY <2>2 DEF Shrunk
    <3> QED
      BY <2>3, <2>4, <3>1, ShrinkFollows
  <2> QED
    BY <1>1, <2>1, <2>4
       DEF FollowInv, Following, Stream, Fresh, Aims, Reflects, Last, First, Renews, Told
<1> QED
  BY <1>2, <1>3, <1>4, <1>5, <1>6, <1>7 DEF Loop, Select

LEMMA NextFollows == IInv /\ FollowInv /\ [Next]_vars => FollowInv'
<1> SUFFICES ASSUME IInv, FollowInv, [Next]_vars PROVE FollowInv'
  OBVIOUS
<1> USE DEF FollowInv, Following, Wished
<1>1. ASSUME NEW c \in Cmcs, NEW spec \in Desired[c] \cup {None}, ApiChange(c, spec)
      PROVE  FollowInv'
  <2>1. UNCHANGED <<watch, pc, dw, monkey>> /\ cmcs' = [cmcs EXCEPT ![c] = spec]
    BY <1>1 DEF ApiChange, loop, kids
  <2>2. Wished'
    BY <2>1 DEF IInv, TypeOK
  <2>3. Exclusive /\ Following => /\ Stream(cmcs', queue') /\ Fresh(queue', dw)
                                  /\ Aims(dw) /\ Reflects(cmcs', queue', dw, monkey)
    <3> HIDE DEF Following, Wished
    <3> QED
      BY <1>1, ChangeFollows
  <2> QED
    BY <2>1, <2>2, <2>3 DEF Stream, Fresh, Aims, Reflects, Last, First, Renews, Told
<1>2. CASE ApiClosesWatch
  BY <1>2 DEF ApiClosesWatch, loop, kids
<1>3. ASSUME NEW m \in Monkeys, MonkeyStep(m) PROVE FollowInv'
  BY <1>3, MonkeyFollows
<1>4. CASE SelectEvent
  BY <1>4, EventFollows
<1>5. CASE (Loop \/ SelectErrorEvent) /\ ~SelectEvent
  BY <1>5, LoopFollows
<1>6. CASE ForceStop \/ Cancel \/ UNCHANGED vars
  <2>1. UNCHANGED <<cmcs, queue, watch, pc, dw, monkey>>
    BY <1>6 DEF ForceStop, Cancel, vars, api, loop, kids
  <2> QED
    BY <2>1 DEF Stream, Fresh, Aims, Reflects, Last, First, Renews, Told
<1> QED
  BY <1>1, <1>2, <1>3, <1>4, <1>5, <1>6 DEF Next, Api

LEMMA InitFollows == Init => FollowInv
  BY DEF Init, FollowInv, Following, Wished

(* A watcher whose CMC has no event under way works as that CMC, which      *)
(* exists, says, provided that no two CMCs target one deployment.           *)
THEOREM MapFollowsApi == Spec => []MapReflectsApi
<1>1. FollowInv => MapReflectsApi
  BY DEF FollowInv, Following, Reflects, MapReflectsApi
<1> QED
  BY <1>1, InitFollows, NextFollows, Invariance, PTL DEF Spec

-----------------------------------------------------------------------------
(* The monkeys in the slots are those of module Monkey, the interface that  *)
(* DeploymentWatcher, PodWatcher and AntiHPAWatcher are proved to implement.*)

MonkeyOf(m, mode) ==
  INSTANCE Monkey WITH Mode <- mode, life <- monkey[m].life, enabled <- monkey[m].enabled

(* An empty slot, or that of a returned monkey, may take a new one. *)
Vacant(m) == monkey[m].life \in {"none", "done"}

(* What a step may do with the slot m. *)
SlotStep(m) ==
  \/ Vacant(m) /\ (Vacant(m)' \/ monkey'[m].life = "starting")
  \/ /\ \/ monkey[m].life = "stopping"
        \/ monkey[m].life = "starting" /\ monkey[m].mode = "killPod"
     /\ monkey'[m] = Blank
  \/ /\ monkey[m] # Blank /\ monkey'[m] # Blank
     /\ monkey'[m].dep = monkey[m].dep /\ monkey'[m].mode = monkey[m].mode
     /\ \E mode \in Modes : /\ mode = monkey[m].mode
                            /\ [MonkeyOf(m, mode)!Next]_(MonkeyOf(m, mode)!vars)

(* A watcher that is stopped, swept or configured in its slot makes the     *)
(* step of the interface, and one that has returned leaves a vacant slot.   *)
LEMMA ToldStep ==
  ASSUME NEW m \in Monkeys, monkey[m] \in Monkey, ctxDone' = ctxDone,
         \/ monkey'[m] = monkey[m]
         \/ monkey'[m] = Forget(Stop(monkey[m]))
         \/ monkey'[m] = Forget([monkey[m] EXCEPT !.told = "swept"])
         \/ \E v \in BOOLEAN : monkey'[m] = [monkey[m] EXCEPT !.enabled = v]
  PROVE  SlotStep(m)
<1> DEFINE w == monkey[m]
<1>1. w # Blank /\ w.mode \in Modes /\ w.enabled \in BOOLEAN
  BY BlankFacts DEF Monkey
<1>2. CASE monkey'[m] = w
  BY <1>1, <1>2 DEF SlotStep, MonkeyOf!vars
<1>3. CASE w.life = "done" /\ ~\E v \in BOOLEAN : monkey'[m] = [w EXCEPT !.enabled = v]
  <2>1. monkey'[m] = Blank \/ monkey'[m] = w
    BY <1>3, StopFacts DEF Forget, Monkey
  <2> QED
    BY <1>3, <2>1 DEF SlotStep, Vacant, Blank
<1>4. CASE w.life # "done" /\ monkey'[m] = Forget(Stop(w))
  <2>1. monkey'[m] = Stop(w) /\ Stop(w) \in Monkey
    BY <1>4, StopFacts DEF Forget
  <2>2. /\ Stop(w).dep = w.dep /\ Stop(w).mode = w.mode /\ Stop(w).enabled = w.enabled
        /\ \/ w.life \in {"running", "dozing"} /\ Stop(w).life = "stopping"
           \/ w.life = "asleep" /\ Stop(w).life = "stuck"
           \/ Stop(w).life = w.life
    BY DEF Stop, Monkey
  <2> QED
    BY <1>1, <2>1, <2>2, BlankFacts
       DEF SlotStep, MonkeyOf!vars, MonkeyOf!Next, MonkeyOf!Stop, MonkeyOf!Moves
<1>5. CASE w.life # "done" /\ monkey'[m] = Forget([w EXCEPT !.told = "swept"])
  <2>1. /\ monkey'[m] \in Monkey /\ monkey'[m].dep = w.dep /\ monkey'[m].mode = w.mode
        /\ monkey'[m].life = w.life /\ monkey'[m].enabled = w.enabled
    BY <1>5 DEF Forget, Monkey
  <2> QED
    BY <1>1, <2>1, BlankFacts DEF SlotStep, MonkeyOf!vars
<1>6. ASSUME NEW v \in BOOLEAN, monkey'[m] = [w EXCEPT !.enabled = v]
      PROVE  SlotStep(m)
  <2>1. /\ monkey'[m] \in Monkey /\ monkey'[m].dep = w.dep /\ monkey'[m].mode = w.mode
        /\ monkey'[m].life = w.life /\ monkey'[m].enabled = v
    BY <1>6 DEF Monkey
  <2> QED
    BY <1>1, <2>1, BlankFacts
       DEF SlotStep, MonkeyOf!vars, MonkeyOf!Next, MonkeyOf!SetEnabled
<1> QED
  BY <1>2, <1>3, <1>4, <1>5, <1>6

(* A slot in which nothing happens. *)
LEMMA IdleStep ==
  ASSUME TypeOK, NEW m \in Monkeys, monkey'[m] = monkey[m], ctxDone' = ctxDone
  PROVE  SlotStep(m)
<1>1. CASE monkey[m] = Blank
  BY <1>1 DEF SlotStep, Vacant, Blank
<1>2. CASE monkey[m] \in Monkey
  BY <1>2, ToldStep
<1> QED
  BY <1>1, <1>2 DEF TypeOK

(* The watchers in S are stopped (and forgotten). *)
LEMMA StopStep ==
  ASSUME TypeOK, NEW m \in Monkeys, NEW S \in SUBSET Monkeys,
         m \in S => monkey[m] # Blank,
         monkey'[m] = StopAndForget(monkey, S)[m], ctxDone' = ctxDone
  PROVE  SlotStep(m)
<1>1. CASE m \in S
  BY <1>1, ToldStep DEF StopAndForget, TypeOK
<1>2. CASE m \notin S
  BY <1>2, IdleStep DEF StopAndForget
<1> QED
  BY <1>1, <1>2

(* A monkey makes the step of the same name, or returns and frees its slot. *)
LEMMA OwnStep ==
  ASSUME IInv, NEW m \in Monkeys, MonkeyStep(m), NEW k \in Monkeys
  PROVE  SlotStep(k)
<1>1. UNCHANGED ctxDone /\ monkey \in [Monkeys -> Monkey \cup {Blank}]
  BY DEF MonkeyStep, MonkeyRuns, MonkeyNoticesStop, MonkeyNoticesContext, MonkeyGivesUp,
         MonkeyFailsToStart, MonkeyLosesTimer, MonkeyFallsAsleep, MonkeyReturns, MonkeyMoves,
         IInv, TypeOK
<1>2. monkey[m] \in Monkey
  BY <1>1, BlankFacts DEF MonkeyStep, MonkeyRuns, MonkeyNoticesStop, MonkeyNoticesContext,
     MonkeyGivesUp, MonkeyFailsToStart, MonkeyLosesTimer, MonkeyFallsAsleep, Blank
<1>3. CASE k # m
  <2>1. monkey'[k] = monkey[k]
    BY <1>1, <1>3 DEF MonkeyStep, MonkeyRuns, MonkeyNoticesStop, MonkeyNoticesContext, MonkeyGivesUp,
         MonkeyFailsToStart, MonkeyLosesTimer, MonkeyFallsAsleep, MonkeyReturns, MonkeyMoves
  <2> QED
    BY <1>1, <2>1, IdleStep DEF IInv
<1>4. ASSUME MonkeyNoticesStop(m) \/ MonkeyFailsToStart(m) PROVE SlotStep(m)
  <2>1. monkey'[m] = Blank \/ monkey'[m] = [monkey[m] EXCEPT !.life = "done"]
    BY <1>1, <1>4 DEF MonkeyNoticesStop, MonkeyFailsToStart, MonkeyReturns
  <2>2. CASE monkey'[m] = Blank
    <3>1. \/ monkey[m].life = "stopping"
          \/ monkey[m].life = "starting" /\ monkey[m].mode = "killPod"
      BY <1>4 DEF MonkeyNoticesStop, MonkeyFailsToStart
    <3> QED
      BY <2>2, <3>1 DEF SlotStep
  <2>3. CASE monkey'[m] = [monkey[m] EXCEPT !.life = "done"]
    <3>1. /\ monkey'[m] \in Monkey /\ monkey'[m].dep = monkey[m].dep
          /\ monkey'[m].mode = monkey[m].mode /\ monkey'[m].enabled = monkey[m].enabled
          /\ monkey'[m].life = "done" /\ monkey[m].mode \in Modes
      BY <1>2, <2>3 DEF Monkey
    <3>2. \/ monkey[m].life = "stopping"
          \/ monkey[m].life = "starting" /\ monkey[m].mode = "killPod"
      BY <1>4 DEF MonkeyNoticesStop, MonkeyFailsToStart
    <3>3. ASSUME NEW mode \in Modes, mode = monkey[m].mode PROVE MonkeyOf(m, mode)!Next
      BY <1>1, <3>1, <3>2, <3>3
         DEF MonkeyOf!Next, MonkeyOf!NoticesStop, MonkeyOf!FailsToStart, MonkeyOf!Moves
    <3> QED
      BY <1>2, <3>1, <3>3, BlankFacts DEF SlotStep
  <2> QED
    BY <2>1, <2>2, <2>3
<1>5. ASSUME \/ MonkeyRuns(m) \/ MonkeyNoticesContext(m) \/ MonkeyGivesUp(m)
             \/ MonkeyLosesTimer(m) \/ MonkeyFallsAsleep(m)
      PROVE  SlotStep(m)
  <2> DEFINE Moved(l) == monkey' = [monkey EXCEPT ![m].life = l]
  <2>1. ASSUME NEW l \in LiveStates, Moved(l)
        PROVE  /\ monkey'[m] \in Monkey /\ monkey'[m].dep = monkey[m].dep
               /\ monkey'[m].mode = monkey[m].mode /\ monkey'[m].enabled = monkey[m].enabled
               /\ monkey'[m].life = l /\ monkey[m].mode \in Modes
    BY <1>1, <1>2, <2>1 DEF Monkey
  <2>2. \/ monkey[m].life = "starting" /\ Moved("running")
        \/ ctxDone /\ monkey[m].life \in {"running", "asleep", "stuck"} /\ Moved("stopping")
        \/ /\ monkey[m].life = "running" /\ monkey[m].mode # "antiPressure"
           /\ Moved("stopping")
        \/ /\ monkey[m].life = "running" /\ monkey[m].mode = "antiPressure"
           /\ ~monkey[m].enabled /\ Moved("dozing")
        \/ monkey[m].life = "dozing" /\ Moved("asleep")
    BY <1>5 DEF MonkeyRuns, MonkeyNoticesContext, MonkeyGivesUp, MonkeyLosesTimer,
                MonkeyFallsAsleep, MonkeyMoves
  <2>3. /\ "running" \in LiveStates /\ "stopping" \in LiveStates
        /\ "dozing" \in LiveStates /\ "asleep" \in LiveStates
    BY DEF LiveStates
  <2> HIDE DEF Moved
  <2> QED
    <3>1. PICK l \in LiveStates : Moved(l)
      BY <2>2, <2>3
    <3>2. ASSUME NEW mode \in Modes, mode = monkey[m].mode PROVE MonkeyOf(m, mode)!Next
      BY <1>1, <2>1, <2>2, <2>3, <3>2
         DEF MonkeyOf!Next, MonkeyOf!Runs, MonkeyOf!NoticesContext, MonkeyOf!GivesUp,
             MonkeyOf!LosesTimer, MonkeyOf!FallsAsleep, MonkeyOf!Moves
    <3> QED
      BY <1>2, <2>1, <3>1, <3>2, BlankFacts DEF SlotStep
<1> QED
  BY <1>3, <1>4, <1>5 DEF MonkeyStep

(* Launch takes a vacant slot. *)
LEMMA LaunchSlotStep ==
  ASSUME IInv, NEW m \in Monkeys, ctxDone' = ctxDone,
         NEW c, NEW spec, NEW reg, NEW map, NEW ms, DOMAIN ms = Monkeys,
         \/ ms[m] = monkey[m]
         \/ monkey[m] \in Monkey /\ ms[m] = Forget(Stop(monkey[m])),
         Launch(c, spec, reg, ms, map)
  PROVE  SlotStep(m)
<1>2. CASE monkey'[m] = ms[m]
  BY <1>2, IdleStep, ToldStep DEF IInv
<1>3. CASE ms[m] = Blank /\ monkey'[m] = NewMonkey(spec)
  <2>1. monkey[m] = Blank \/ monkey[m].life = "done"
    <3>1. CASE ms[m] = monkey[m]
      BY <1>3, <3>1
    <3>2. CASE monkey[m] \in Monkey /\ ms[m] = Forget(Stop(monkey[m]))
      BY <1>3, <3>2, StopFacts, BlankFacts DEF Forget
    <3> QED
      BY <3>1, <3>2
  <2> QED
    BY <1>3, <2>1 DEF SlotStep, Vacant, NewMonkey, Blank
<1>4. \/ monkey' = ms
      \/ \E k \in Monkeys : ms[k] = Blank /\ monkey' = [ms EXCEPT ![k] = NewMonkey(spec)]
  BY DEF Launch
<1>5. CASE monkey' = ms
  BY <1>2, <1>5
<1>6. ASSUME NEW k \in Monkeys, ms[k] = Blank, monkey' = [ms EXCEPT ![k] = NewMonkey(spec)]
      PROVE  SlotStep(m)
  <2>1. CASE k = m
    BY <1>3, <1>6, <2>1
  <2>2. CASE k # m
    BY <1>2, <1>6, <2>2
  <2> QED
    BY <2>1, <2>2
<1> QED
  BY <1>4, <1>5, <1>6

LEMMA EventSlotStep ==
  ASSUME IInv, SelectEvent, NEW m \in Monkeys
  PROVE  SlotStep(m)
<1>1. ctxDone' = ctxDone /\ monkey \in [Monkeys -> Monkey \cup {Blank}]
  BY DEF SelectEvent, IInv, TypeOK
<1>2. Head(queue) \in Event
  BY HeadTailProperties DEF SelectEvent, IInv, TypeOK
<1>3. PICK c \in Cmcs, spec \in CmcSpec :
        HandleAdded(c, spec) \/ HandleModified(c, spec) \/ HandleDeleted(c, spec)
  BY <1>2 DEF SelectEvent, Event
<1> DEFINE d == spec.dep
           k == dw[d].monkey
<1>4. d \in Deployments
  BY DEF CmcSpec
<1>5. CASE monkey' = monkey
  BY <1>1, <1>5, IdleStep DEF IInv
<1>6. CASE Launch(c, spec, registry, monkey, dw)
  <2>1. DOMAIN monkey = Monkeys
    BY <1>1
  <2> QED
    BY <1>1, <1>6, <2>1, LaunchSlotStep
<1>7. CASE dw[d] # None
  <2>1. k \in Monkeys /\ monkey[k] \in Monkey
    BY <1>4, <1>7, EntryFacts DEF IInv
  <2>2. {k} \in SUBSET Monkeys /\ (m \in {k} => monkey[m] # Blank)
    BY <2>1, BlankFacts
  <2>3. CASE monkey' = [monkey EXCEPT ![k].enabled = spec.enabled]
    <3>1. CASE m # k
      BY <1>1, <2>3, <3>1, IdleStep DEF IInv
    <3>2. CASE m = k
      <4>1. spec.enabled \in BOOLEAN /\ monkey'[m] = [monkey[m] EXCEPT !.enabled = spec.enabled]
        BY <1>1, <2>3, <3>2 DEF CmcSpec
      <4> QED
        BY <1>1, <2>1, <3>2, <4>1, ToldStep
    <3> QED
      BY <3>1, <3>2
  <2>4. CASE monkey' = StopAndForget(monkey, {k})
    BY <1>1, <2>2, <2>4, StopStep DEF IInv
  <2> DEFINE ms  == StopAndForget(monkey, {k})
             reg == registry \ UnregisteredByStop({k})
             map == [dw EXCEPT ![d] = None]
  <2>5. CASE Launch(c, spec, reg, ms, map)
    <3>1. /\ DOMAIN ms = Monkeys
          /\ \/ ms[m] = monkey[m]
             \/ monkey[m] \in Monkey /\ ms[m] = Forget(Stop(monkey[m]))
      BY <2>1 DEF StopAndForget
    <3> HIDE DEF ms, reg, map
    <3> QED
      BY <1>1, <2>5, <3>1, LaunchSlotStep
  <2> QED
    BY <1>3, <1>5, <1>6, <1>7, <2>3, <2>4, <2>5
       DEF HandleAdded, HandleModified, HandleDeleted, kids
<1> QED
  BY <1>3, <1>5, <1>6, <1>7 DEF HandleAdded, HandleModified, HandleDeleted, kids

(* The other steps of the loop, and those of the world around it.           *)
LEMMA LoopSlotStep ==
  ASSUME IInv, Loop \/ SelectErrorEvent \/ Api \/ ForceStop \/ Cancel, ~SelectEvent,
         NEW m \in Monkeys
  PROVE  SlotStep(m)
<1>1. CASE UNCHANGED <<monkey, ctxDone>>
  BY <1>1, IdleStep DEF IInv
<1>2. CASE StopAll /\ UNCHANGED ctxDone
  <2>1. Mapped \in SUBSET Monkeys /\ \A k \in Mapped : monkey[k] # Blank
    BY EntryFacts, BlankFacts DEF Mapped, IInv
  <2> QED
    BY <1>2, <2>1, StopStep DEF StopAll, IInv
<1>3. CASE SelectCleanUp
  <2> DEFINE dead  == {d \in Deployments : dw[d] # None /\ ~IsRunning(dw[d].monkey)}
             swept == {dw[d].monkey : d \in dead}
  <2>1. /\ ctxDone' = ctxDone
        /\ monkey'[m] = IF m \in swept THEN Forget([monkey[m] EXCEPT !.told = "swept"])
                        ELSE monkey[m]
    BY <1>3 DEF SelectCleanUp
  <2>2. m \in swept => monkey[m] \in Monkey
    BY EntryFacts DEF IInv
  <2> QED
    BY <2>1, <2>2, ToldStep, IdleStep DEF IInv
<1>4. CASE Cancel
  <2>1. UNCHANGED monkey /\ ctxDone' = TRUE
    BY <1>4 DEF Cancel, kids
  <2>2. CASE monkey[m] = Blank
    BY <2>1, <2>2 DEF SlotStep, Vacant, Blank
  <2>3. CASE monkey[m] \in Monkey
    <3>1. monkey[m].mode \in Modes
      BY <2>3 DEF Monkey
    <3> QED
      BY <2>1, <2>3, <3>1, BlankFacts DEF SlotStep, MonkeyOf!Next, MonkeyOf!Cancel
  <2> QED
    BY <2>2, <2>3 DEF IInv, TypeOK
<1> QED
  BY <1>1, <1>2, <1>3, <1>4
     DEF Loop, Select, StartWatches, StartFails, LoopAgain, LoopEnds, AllHome, SelectErrorEvent,
         SelectClosed, SelectContext, SelectForceStop, RestartWatches, RestartFails, Api,
         ApiChange, ApiClosesWatch, ForceStop, kids

(* Every monkey of the CRD watcher behaves as the interface of module       *)
(* Monkey says, from its launch until it returns, and nothing else ever     *)
(* touches its slot: what the watchers promise is what crd.go relies on.    *)
THEOREM SlotsFollowMonkey == Spec => [][\A m \in Monkeys : SlotStep(m)]_vars
<1>1. IInv /\ [Next]_vars => [\A m \in Monkeys : SlotStep(m)]_vars
  <2> SUFFICES ASSUME IInv, Next, NEW m \in Monkeys PROVE SlotStep(m)
    OBVIOUS
  <2>1. CASE SelectEvent
    BY <2>1, EventSlotStep
  <2>2. ASSUME NEW k \in Monkeys, MonkeyStep(k) PROVE SlotStep(m)
    BY <2>2, OwnStep
  <2> QED
    BY <2>1, <2>2, LoopSlotStep DEF Next
<1> QED
  BY <1>1, Invariance, PTL DEF Spec
=============================================================================
