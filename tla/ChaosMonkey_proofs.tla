------------------------- MODULE ChaosMonkey_proofs -------------------------
(***************************************************************************)
(* Proofs about ChaosMonkey: the invariant of the namespace watcher holds  *)
(* in the whole process, and with it what main and the health endpoint     *)
(* rely on.                                                                *)
(***************************************************************************)
EXTENDS ChaosMonkey, NamespaceWatcher_proofs, FunctionTheorems

(* The shutdown proceeds in order: what has been waited for does not come   *)
(* back, since its server does not answer any more.                        *)
Shutdown ==
  /\ main # "waiting" => Http \in shut
  /\ main \in {"closing https", "cancelling", "joining", "exited"} => walk = Idle /\ Https \in shut
  /\ main \in {"cancelling", "joining", "exited"} => ~converts
  /\ ctxDone => main \in {"joining", "exited"}
  /\ main = "exited" => pc = "done" /\ \A s \in Servers : server[s] = "ended"

(* What is counted and what is still on the stack make up for the          *)
(* namespaces that kept their watcher. While the range goes on these are    *)
(* in the map.                                                             *)
Counts ==
  walk # Idle =>
    /\ IsFiniteSet(walk.stack)
    /\ walk.at = "ranging" => walk.stable \subseteq Watched
    /\ walk.at = "popping" =>
         walk.count + Cardinality(walk.stack) > Cardinality(walk.stable)

PInv == IInv /\ ProcessTypeOK /\ Shutdown /\ Counts

USE ServerAssumption, NamespaceAssumption

-----------------------------------------------------------------------------

LEMMA InitPInv == ProcessInit => PInv
<1> SUFFICES ASSUME ProcessInit PROVE PInv
  OBVIOUS
<1>1. IInv
  BY InitIInv DEF ProcessInit
<1>2. TypeOK
  BY <1>1 DEF IInv
<1>3. /\ main \in {"waiting", "closing http", "closing https", "cancelling", "joining", "exited"}
      /\ server \in [Servers -> {"starting", "serving", "ended"}]
      /\ shut \in SUBSET Servers /\ walk \in Walk \cup {Idle}
  BY DEF ProcessInit
<1>4. signal \in BOOLEAN /\ converts \in BOOLEAN /\ fatal \in BOOLEAN
  BY DEF ProcessInit
<1>5. ProcessTypeOK
  BY <1>2, <1>3, <1>4 DEF ProcessTypeOK
<1>6. Shutdown /\ Counts
  BY DEF ProcessInit, Init, Shutdown, Counts
<1> QED BY <1>1, <1>5, <1>6 DEF PInv

(* A step of the process is one of the namespace watcher, or none of it.    *)
LEMMA StepOfWatcher == ProcessNext => [Next]_vars
<1> SUFFICES ASSUME ProcessNext PROVE [Next]_vars
  OBVIOUS
<1>1. CASE Watch(Api) \/ Watch(Loop) \/ Watch(SelectErrorEvent)
  BY <1>1 DEF Watch, Next
<1>2. ASSUME NEW w \in Crds, Watch(CrdNext(w)) PROVE Next
  BY <1>2 DEF Watch, Next
<1>3. ASSUME NEW s \in Servers, ServerNext(s) PROVE UNCHANGED vars
  BY <1>3 DEF ServerNext, Listens, ListenFails, ServerEnds, ServerStep
<1>4. CASE Conversion \/ Signal
  BY <1>4 DEF Conversion, Signal
<1>5. CASE WalkNext
  BY <1>5 DEF WalkNext, HealthRequest, Push, Ranged, Pop, HealthAnswers, WalkStep
<1>6. CASE MainNext
  BY <1>6 DEF MainNext, MainReceives, HttpClosed, HttpsClosed, MainCancels, MainExits, Next
<1> QED BY <1>1, <1>2, <1>3, <1>4, <1>5, <1>6 DEF ProcessNext

LEMMA WalkFacts ==
  ASSUME ProcessTypeOK, walk # Idle
  PROVE  /\ walk \in Walk /\ walk.at \in {"ranging", "popping"}
         /\ walk.count \in Nat /\ walk.stack \subseteq Crds /\ walk.stable \subseteq Namespaces
         /\ IsFiniteSet(walk.stable)
<1>1. walk \in Walk
  BY DEF ProcessTypeOK
<1>2. walk.stable \subseteq Namespaces
  BY <1>1 DEF Walk
<1>3. IsFiniteSet(walk.stable)
  BY <1>2, FS_Subset
<1>4. walk.at \in {"ranging", "popping"} /\ walk.count \in Nat
  BY <1>1 DEF Walk
<1>5. walk.stack \subseteq Crds
  BY <1>1 DEF Walk
<1> QED BY <1>1, <1>2, <1>3, <1>4, <1>5

LEMMA IdleFacts == Idle \notin Walk /\ Idle.at = "idle"
<1>1. \A r \in Walk : r.at # "idle"
  BY DEF Walk
<1>2. Idle.at = "idle"
  BY DEF Idle
<1> QED BY <1>1, <1>2

-----------------------------------------------------------------------------
(* The watchers. *)

LEMMA ShutdownFrame ==
  ASSUME Shutdown, main # "exited", main' = main, shut' = shut, walk = Idle => walk' = Idle,
         converts' => converts, ctxDone' => ctxDone
  PROVE  Shutdown'
  BY DEF Shutdown

(* The namespaces that keep their watcher in this step. *)
Kept == {n \in walk.stable : crds'[n] = crds[n]}

(* Whatever they do, the namespaces that keep their watcher only get fewer, *)
(* and only main cancels the context.                                      *)
LEMMA WatchPInv ==
  ASSUME PInv, IInv', Alive, fatal' \in BOOLEAN,
         walk = Idle => walk' = Idle,
         walk # Idle => /\ walk' \in Walk /\ walk'.at = walk.at /\ walk'.stack = walk.stack
                        /\ walk'.count = walk.count /\ walk'.stable = Kept,
         UNCHANGED <<process, converts, ctxDone>>
  PROVE  PInv'
<1>1. /\ main' = main /\ signal' = signal /\ server' = server /\ shut' = shut
      /\ converts' = converts /\ ctxDone' = ctxDone
      /\ converts' \in BOOLEAN /\ ctxDone' \in BOOLEAN
  BY DEF process, PInv, ProcessTypeOK, IInv, TypeOK
<1>2. fatal' \in BOOLEAN
  OBVIOUS
<1>3. walk = Idle => walk' = Idle
  OBVIOUS
<1>4. ASSUME walk # Idle
      PROVE  /\ walk' \in Walk /\ walk'.at = walk.at /\ walk'.stack = walk.stack
             /\ walk'.count = walk.count /\ walk'.stable = Kept
  BY <1>4
<1>5. ProcessTypeOK'
  <2>1. TypeOK'
    BY DEF IInv
  <2>2. walk' \in Walk \cup {Idle}
    BY <1>3, <1>4
  <2> QED BY <1>1, <1>2, <2>1, <2>2 DEF PInv, ProcessTypeOK
<1>6. Shutdown'
  <2>1. main # "exited" /\ Shutdown
    BY DEF PInv, Alive
  <2>2. (converts' => converts) /\ (ctxDone' => ctxDone)
    BY <1>1
  <2> QED BY <1>1, <1>3, <2>1, <2>2, ShutdownFrame
<1>7. Counts'
  <2> SUFFICES ASSUME walk' # Idle PROVE Counts'
    BY DEF Counts
  <2>1. walk # Idle
    BY <1>3
  <2>2. /\ IsFiniteSet(walk'.stack)
        /\ walk'.stable \subseteq walk.stable
    BY <1>4, <2>1 DEF PInv, Counts, Kept
  <2>3. walk'.at = "ranging" => walk'.stable \subseteq Watched'
    BY <1>4, <2>1 DEF PInv, Counts, Watched, Kept
  <2>4. walk'.at = "popping" =>
          walk'.count + Cardinality(walk'.stack) > Cardinality(walk'.stable)
    <3>1. Cardinality(walk'.stable) <= Cardinality(walk.stable)
      BY <2>1, <2>2, WalkFacts, FS_Subset DEF PInv
    <3>2. /\ Cardinality(walk.stable) \in Nat /\ Cardinality(walk'.stable) \in Nat
          /\ Cardinality(walk.stack) \in Nat /\ walk.count \in Nat
      BY <2>1, <2>2, WalkFacts, FS_Subset, FS_CardinalityType DEF PInv, Counts
    <3> QED BY <1>4, <2>1, <3>1, <3>2 DEF PInv, Counts
  <2> QED BY <2>2, <2>3, <2>4 DEF Counts
<1> QED BY <1>5, <1>6, <1>7 DEF PInv

LEMMA StableFacts ==
  ASSUME NEW r \in Walk, NEW s \in SUBSET Namespaces
  PROVE  LET q == [r EXCEPT !.stable = s]
         IN  /\ q \in Walk /\ q.at = r.at /\ q.stack = r.stack /\ q.count = r.count
             /\ q.stable = s
<1> DEFINE Stables == SUBSET Namespaces
<1>1. Walk = [at : {"ranging", "popping"}, stack : SUBSET Crds, count : Nat, stable : Stables]
  BY DEF Walk
<1>2. s \in Stables
  OBVIOUS
<1> HIDE DEF Stables
<1> QED BY <1>1, <1>2

LEMMA WatchedWalk ==
  ASSUME PInv, \/ Watch(Api) \/ Watch(Loop) \/ Watch(SelectErrorEvent)
               \/ \E w \in Crds : Watch(CrdNext(w))
  PROVE  /\ walk = Idle => walk' = Idle
         /\ walk # Idle => /\ walk' \in Walk /\ walk'.at = walk.at /\ walk'.stack = walk.stack
                           /\ walk'.count = walk.count /\ walk'.stable = Kept
<1>1. walk' = IF walk = Idle THEN Idle ELSE [walk EXCEPT !.stable = Kept]
  BY DEF Watch, Kept
<1>2. ASSUME walk # Idle
      PROVE  /\ walk' \in Walk /\ walk'.at = walk.at /\ walk'.stack = walk.stack
             /\ walk'.count = walk.count /\ walk'.stable = Kept
  <2>1. walk \in Walk /\ Kept \in SUBSET Namespaces
    BY <1>2, WalkFacts DEF PInv, Kept
  <2>2. walk' = [walk EXCEPT !.stable = Kept]
    BY <1>1, <1>2
  <2> QED BY <2>1, <2>2, StableFacts
<1> QED BY <1>1, <1>2

LEMMA WatcherSteps ==
  ASSUME PInv, \/ Watch(Api) \/ Watch(Loop) \/ Watch(SelectErrorEvent)
               \/ \E w \in Crds : Watch(CrdNext(w))
  PROVE  PInv'
<1>1. IInv'
  BY StepOfWatcher, NextIInv DEF ProcessNext, PInv
<1>2. ctxDone' = ctxDone
  <2>1. Api => ctxDone' = ctxDone
    BY DEF Api, ApiChange, ApiClosesWatch
  <2>2. Loop => ctxDone' = ctxDone
    BY DEF Loop, StartWatches, StartFails, LoopAgain, LoopEnds, Select, SelectEvent, SelectContext,
           SelectClosed, SelectCleanUp, Visit, RemoveOne, SweepOne, StopOne, SweepEnds,
           RestartWatches, RestartFails, AllHome
  <2>3. SelectErrorEvent => ctxDone' = ctxDone
    BY DEF SelectErrorEvent
  <2>4. \A w \in Crds : CrdNext(w) => ctxDone' = ctxDone
    BY DEF CrdNext, CrdRuns, CrdRestarts, CrdRestarted, CrdNotices, CrdLeaves, CrdReturns, CrdFails,
           CrdStep, CrdReturn
  <2> QED BY <2>1, <2>2, <2>3, <2>4 DEF Watch
<1>3. /\ Alive /\ fatal' \in BOOLEAN /\ UNCHANGED <<process, converts>>
  BY DEF Watch
<1> QED BY <1>1, <1>2, <1>3, WatchedWalk, WatchPInv

-----------------------------------------------------------------------------
(* The servers and main. *)

(* What leaves the watchers and the health request alone. *)
LEMMA QuietPInv ==
  ASSUME PInv, vars' = vars \/ Cancel, walk' = walk,
         main' \in {"waiting", "closing http", "closing https", "cancelling", "joining", "exited"},
         server' \in [Servers -> {"starting", "serving", "ended"}], shut' \in SUBSET Servers,
         signal' \in BOOLEAN, converts' \in BOOLEAN, fatal' \in BOOLEAN, Shutdown'
  PROVE  PInv'
<1>1. IInv'
  <2>1. [Next]_vars
    BY DEF Next
  <2> QED BY <2>1, NextIInv DEF PInv
<1>2. ProcessTypeOK'
  <2>1. TypeOK'
    BY <1>1 DEF IInv
  <2> QED BY <2>1 DEF PInv, ProcessTypeOK
<1>3. Watched' = Watched
  BY DEF vars, Cancel, kids, Watched
<1>4. Counts'
  BY <1>3 DEF PInv, Counts
<1> QED BY <1>1, <1>2, <1>4 DEF PInv

LEMMA ServerSteps == ASSUME PInv, NEW s \in Servers, ServerNext(s) PROVE PInv'
<1>1. /\ main # "exited" /\ UNCHANGED <<vars, main, shut, walk>>
      /\ \E to \in {"serving", "ended"} : server' = [server EXCEPT ![s] = to]
  BY DEF ServerNext, Listens, ListenFails, ServerEnds, ServerStep, Alive
<1>2. signal' \in BOOLEAN /\ converts' \in BOOLEAN /\ fatal' \in BOOLEAN
  BY DEF ServerNext, Listens, ListenFails, ServerEnds, ServerStep, PInv, ProcessTypeOK
<1>3. (converts' => converts) /\ (ctxDone' => ctxDone)
  BY DEF ServerNext, Listens, ListenFails, ServerEnds, ServerStep, vars
<1>4. Shutdown'
  BY <1>1, <1>3, ShutdownFrame DEF PInv
<1>5. server' \in [Servers -> {"starting", "serving", "ended"}]
  BY <1>1 DEF PInv, ProcessTypeOK
<1> QED BY <1>1, <1>2, <1>4, <1>5, QuietPInv DEF PInv, ProcessTypeOK

(* No conversion begins once Shutdown was called for its server.           *)
LEMMA ConversionStep == ASSUME PInv, Conversion PROVE PInv'
<1>1. main # "exited" /\ UNCHANGED <<vars, main, server, shut, walk>>
  BY DEF Conversion, process, Alive
<1>2. signal' \in BOOLEAN /\ converts' \in BOOLEAN /\ fatal' \in BOOLEAN
  BY DEF Conversion, process, PInv, ProcessTypeOK
<1>3. ctxDone' => ctxDone
  BY <1>1 DEF vars
<1>4. Https \in shut => (converts' => converts)
  BY DEF Conversion, Answers
<1>5. Shutdown'
  <2>1. CASE Https \in shut
    BY <1>1, <1>3, <1>4, <2>1, ShutdownFrame DEF PInv
  <2>2. CASE Https \notin shut
    <3>1. main \notin {"closing https", "cancelling", "joining", "exited"} /\ ~ctxDone
      BY <2>2 DEF PInv, Shutdown
    <3> QED BY <1>1, <1>3, <3>1 DEF PInv, Shutdown
  <2> QED BY <2>1, <2>2
<1> QED BY <1>1, <1>2, <1>5, QuietPInv DEF PInv, ProcessTypeOK

LEMMA MainSteps == ASSUME PInv, MainNext \/ Signal PROVE PInv'
<1>1. /\ main # "exited" /\ UNCHANGED <<server, walk>>
      /\ vars' = vars \/ Cancel
      /\ main' \in {"waiting", "closing http", "closing https", "cancelling", "joining", "exited"}
      /\ shut' \in SUBSET Servers
  BY DEF MainNext, Signal, MainReceives, HttpClosed, HttpsClosed, MainCancels, MainExits, MainStep,
         Alive, Servers, PInv, ProcessTypeOK
<1>2. converts' \in BOOLEAN /\ fatal' \in BOOLEAN /\ (converts' => converts)
  <2>1. UNCHANGED <<converts, fatal>>
    BY DEF MainNext, Signal, MainReceives, HttpClosed, HttpsClosed, MainCancels, MainExits, MainStep
  <2>2. converts \in BOOLEAN /\ fatal \in BOOLEAN
    BY DEF PInv, ProcessTypeOK
  <2>3. converts' => converts
    BY <2>1
  <2>4. converts' \in BOOLEAN
    BY <2>1, <2>2
  <2>5. fatal' \in BOOLEAN
    BY <2>1, <2>2
  <2> QED BY <2>3, <2>4, <2>5
<1>3. signal' \in BOOLEAN
  BY DEF MainNext, Signal, MainReceives, HttpClosed, HttpsClosed, MainCancels, MainExits, MainStep,
         PInv, ProcessTypeOK
<1>4. Shutdown'
  <2>1. CASE Signal
    <3>1. main' = main /\ shut' = shut /\ walk' = walk /\ (ctxDone' => ctxDone)
      BY <2>1 DEF Signal, vars
    <3> QED BY <1>1, <1>2, <3>1, ShutdownFrame DEF PInv
  <2>2. CASE MainReceives
    <3>1. main = "waiting" /\ main' = "closing http" /\ Http \in shut' /\ (ctxDone' => ctxDone)
      BY <2>2 DEF MainReceives, MainStep, vars
    <3> QED BY <3>1 DEF PInv, Shutdown
  <2>3. CASE HttpClosed
    <3>1. /\ main = "closing http" /\ main' = "closing https" /\ shut' = shut \cup {Https}
          /\ walk = Idle /\ (ctxDone' => ctxDone)
      BY <2>3 DEF HttpClosed, MainStep, vars
    <3> QED BY <1>1, <3>1 DEF PInv, Shutdown
  <2>4. CASE HttpsClosed
    <3>1. /\ main = "closing https" /\ main' = "cancelling" /\ shut' = shut
          /\ ~converts /\ (ctxDone' => ctxDone)
      BY <2>4 DEF HttpsClosed, MainStep, vars
    <3> QED BY <1>1, <1>2, <3>1 DEF PInv, Shutdown
  <2>5. CASE MainCancels
    <3>1. main = "cancelling" /\ main' = "joining" /\ shut' = shut
      BY <2>5 DEF MainCancels, MainStep
    <3> QED BY <1>1, <1>2, <3>1 DEF PInv, Shutdown
  <2>6. CASE MainExits
    <3>1. /\ main = "joining" /\ main' = "exited" /\ shut' = shut
          /\ pc = "done" /\ pc' = pc /\ \A s \in Servers : server[s] = "ended"
      BY <2>6 DEF MainExits, MainStep, vars
    <3> QED BY <1>1, <1>2, <3>1 DEF PInv, Shutdown
  <2> QED BY <2>1, <2>2, <2>3, <2>4, <2>5, <2>6 DEF MainNext
<1> QED BY <1>1, <1>2, <1>3, <1>4, QuietPInv DEF PInv, ProcessTypeOK

-----------------------------------------------------------------------------
(* The health request. *)

LEMMA WalkPInv ==
  ASSUME PInv, Alive, UNCHANGED <<vars, process, converts>>, fatal' \in BOOLEAN,
         walk' \in Walk \cup {Idle}, walk # Idle \/ Http \notin shut, Counts'
  PROVE  PInv'
<1>1. IInv'
  <2>1. [Next]_vars
    OBVIOUS
  <2> QED BY <2>1, NextIInv DEF PInv
<1>2. UNCHANGED <<main, signal, server, shut>>
  BY DEF process
<1>3. signal' \in BOOLEAN
  BY <1>2 DEF PInv, ProcessTypeOK
<1>4. converts' \in BOOLEAN
  BY DEF PInv, ProcessTypeOK
<1>5. ProcessTypeOK'
  BY <1>1, <1>2, <1>3, <1>4 DEF PInv, ProcessTypeOK, IInv
<1>6. (converts' => converts) /\ (ctxDone' => ctxDone)
  BY DEF vars
<1>7. /\ main \notin {"closing https", "cancelling", "joining", "exited"}
      /\ ~ctxDone /\ (main # "waiting" => Http \in shut)
  BY DEF PInv, Shutdown
<1>8. Shutdown'
  BY <1>2, <1>6, <1>7 DEF Shutdown
<1> QED BY <1>1, <1>5, <1>8 DEF PInv

LEMMA StackFacts ==
  ASSUME NEW r \in Walk, NEW s \in SUBSET Crds
  PROVE  LET q == [r EXCEPT !.stack = s]
         IN  q \in Walk /\ q.at = r.at /\ q.stack = s /\ q.count = r.count /\ q.stable = r.stable
<1> DEFINE Stacks == SUBSET Crds
           Stables == SUBSET Namespaces
<1>1. Walk = [at : {"ranging", "popping"}, stack : Stacks, count : Nat, stable : Stables]
  BY DEF Walk
<1>2. s \in Stacks
  OBVIOUS
<1> HIDE DEF Stacks, Stables
<1> QED BY <1>1, <1>2

LEMMA RangedFacts ==
  ASSUME NEW r \in Walk, NEW c \in Nat
  PROVE  LET q == [r EXCEPT !.at = "popping", !.count = c]
         IN  /\ q \in Walk /\ q.at = "popping" /\ q.stack = r.stack /\ q.count = c
             /\ q.stable = r.stable
<1> DEFINE Stacks == SUBSET Crds
           Stables == SUBSET Namespaces
<1>1. Walk = [at : {"ranging", "popping"}, stack : Stacks, count : Nat, stable : Stables]
  BY DEF Walk
<1> HIDE DEF Stacks, Stables
<1> QED BY <1>1

LEMMA RequestStep == ASSUME PInv, HealthRequest PROVE PInv'
<1>1. /\ walk' = [at |-> "ranging", stack |-> {}, count |-> 0, stable |-> Watched]
      /\ Alive /\ Http \notin shut /\ UNCHANGED <<vars, process, converts, fatal>>
  BY DEF HealthRequest, WalkStep, Answers
<1>2. walk' \in Walk
  BY <1>1 DEF Walk, Watched
<1>3. Watched' = Watched
  BY <1>1 DEF vars, Watched
<1>4. Counts'
  BY <1>1, <1>3, FS_EmptySet DEF Counts
<1>5. fatal' \in BOOLEAN
  BY <1>1 DEF PInv, ProcessTypeOK
<1> QED BY <1>1, <1>2, <1>4, <1>5, WalkPInv

LEMMA PushStep ==
  ASSUME PInv, NEW n \in Namespaces, Push(n) PROVE PInv' /\ walk' \in Walk
<1>1. /\ walk.at = "ranging" /\ n \in Watched
      /\ Alive /\ UNCHANGED <<vars, process, converts, fatal>>
  BY DEF Push, WalkStep
<1>2. walk # Idle
  BY <1>1, IdleFacts
<1>3. walk \in Walk /\ walk.stack \cup {crds[n]} \in SUBSET Crds
  BY <1>1, <1>2, WalkFacts DEF PInv, Watched, IInv, TypeOK
<1>4. /\ walk' \in Walk /\ walk'.at = "ranging" /\ walk'.stack = walk.stack \cup {crds[n]}
      /\ walk'.count = walk.count /\ walk'.stable = walk.stable
  <2> DEFINE s == walk.stack \cup {crds[n]}
  <2>1. walk' = [walk EXCEPT !.stack = s]
    BY DEF Push, WalkStep
  <2>2. walk \in Walk /\ s \in SUBSET Crds
    BY <1>3
  <2> HIDE DEF s
  <2>3. /\ walk' \in Walk /\ walk'.at = walk.at /\ walk'.stack = s
        /\ walk'.count = walk.count /\ walk'.stable = walk.stable
    BY <2>1, <2>2, StackFacts
  <2> QED BY <1>1, <2>3 DEF s
<1>5. Watched' = Watched
  BY <1>1 DEF vars, Watched
<1>6. Counts'
  <2>1. IsFiniteSet(walk.stack) /\ walk.stable \subseteq Watched
    BY <1>1, <1>2 DEF PInv, Counts
  <2>2. IsFiniteSet(walk.stack \cup {crds[n]})
    BY <2>1, FS_AddElement
  <2> QED BY <1>4, <1>5, <2>1, <2>2 DEF Counts
<1>7. fatal' \in BOOLEAN
  BY <1>1 DEF PInv, ProcessTypeOK
<1> QED BY <1>1, <1>2, <1>4, <1>6, <1>7, WalkPInv

(* Each of the namespaces has a watcher of its own on the stack.           *)
LEMMA RangedStep == ASSUME PInv, Ranged PROVE PInv' /\ walk' \in Walk
<1>1. /\ walk.at = "ranging" /\ \A n \in walk.stable : crds[n] \in walk.stack
      /\ Alive /\ UNCHANGED <<vars, process, converts, fatal>>
  BY DEF Ranged, WalkStep
<1>2. walk # Idle
  BY <1>1, IdleFacts
<1>3. walk \in Walk /\ walk.count \in Nat
  BY <1>2, WalkFacts DEF PInv
<1>4. /\ walk' \in Walk /\ walk'.at = "popping" /\ walk'.stack = walk.stack
      /\ walk'.count = walk.count + 1 /\ walk'.stable = walk.stable
  <2> DEFINE c == walk.count + 1
  <2>1. walk' = [walk EXCEPT !.at = "popping", !.count = c]
    BY DEF Ranged, WalkStep
  <2>2. walk \in Walk /\ c \in Nat
    BY <1>3
  <2> HIDE DEF c
  <2>3. /\ walk' \in Walk /\ walk'.at = "popping" /\ walk'.stack = walk.stack
        /\ walk'.count = c /\ walk'.stable = walk.stable
    BY <2>1, <2>2, RangedFacts
  <2> QED BY <2>3 DEF c
<1>5. IsFiniteSet(walk.stack) /\ walk.stable \subseteq Watched
  BY <1>1, <1>2 DEF PInv, Counts
<1>6. Cardinality(walk.stable) <= Cardinality(walk.stack)
  <2> DEFINE f == [n \in walk.stable |-> crds[n]]
  <2>1. \A a, b \in walk.stable : crds[a] = crds[b] => a = b
    BY <1>5 DEF PInv, IInv, Core
  <2>2. f \in [walk.stable -> walk.stack]
    BY <1>1
  <2>3. \A a, b \in walk.stable : f[a] = f[b] => a = b
    BY <2>1
  <2> HIDE DEF f
  <2>4. f \in Injection(walk.stable, walk.stack)
    BY <2>2, <2>3, Fun_IsInj
  <2> QED BY <1>5, <2>4, FS_Injection
<1>7. Counts'
  <2>1. Cardinality(walk.stable) \in Nat /\ Cardinality(walk.stack) \in Nat
    BY <1>2, <1>5, WalkFacts, FS_CardinalityType DEF PInv
  <2> QED BY <1>3, <1>4, <1>5, <1>6, <2>1 DEF Counts
<1>8. fatal' \in BOOLEAN
  BY <1>1 DEF PInv, ProcessTypeOK
<1> QED BY <1>1, <1>2, <1>4, <1>7, <1>8, WalkPInv

LEMMA PopStep == ASSUME PInv, NEW w \in Crds, Pop(w) PROVE PInv' /\ walk' \in Walk
<1>1. /\ walk.at = "popping" /\ w \in walk.stack
      /\ Alive /\ UNCHANGED <<vars, process, converts>> /\ fatal' \in BOOLEAN
  BY DEF Pop, WalkStep
<1>2. walk # Idle
  BY <1>1, IdleFacts
<1>3. /\ walk \in Walk /\ walk.count + 1 \in Nat /\ walk.stack \ {w} \in SUBSET Crds
      /\ walk.count \in Nat
  BY <1>2, WalkFacts DEF PInv
<1>4. /\ walk' \in Walk /\ walk'.at = "popping" /\ walk'.stack = walk.stack \ {w}
      /\ walk'.count = walk.count + 1 /\ walk'.stable = walk.stable
  <2> DEFINE s == walk.stack \ {w}
             c == walk.count + 1
  <2>1. walk' = [walk EXCEPT !.stack = s, !.count = c]
    BY DEF Pop, WalkStep
  <2>2. walk \in Walk /\ s \in SUBSET Crds /\ c \in Nat
    BY <1>3
  <2> HIDE DEF s, c
  <2> DEFINE q == [walk EXCEPT !.stack = s, !.count = c]
  <2>3. q \in Walk /\ q.at = walk.at /\ q.stack = s /\ q.count = c /\ q.stable = walk.stable
    <3> DEFINE Stacks == SUBSET Crds
               Stables == SUBSET Namespaces
    <3>1. Walk = [at : {"ranging", "popping"}, stack : Stacks, count : Nat, stable : Stables]
      BY DEF Walk
    <3>2. s \in Stacks
      BY <2>2
    <3> HIDE DEF Stacks, Stables
    <3> QED BY <2>2, <3>1, <3>2
  <2>4. walk' = q
    BY <2>1
  <2> HIDE DEF q
  <2>5. /\ walk' \in Walk /\ walk'.at = walk.at /\ walk'.stack = s
        /\ walk'.count = c /\ walk'.stable = walk.stable
    BY <2>3, <2>4
  <2> QED BY <1>1, <2>5 DEF s, c
<1>5. /\ IsFiniteSet(walk.stack)
      /\ walk.count + Cardinality(walk.stack) > Cardinality(walk.stable)
  BY <1>1, <1>2 DEF PInv, Counts
<1>6. /\ Cardinality(walk.stack \ {w}) = Cardinality(walk.stack) - 1
      /\ IsFiniteSet(walk.stack \ {w})
  BY <1>1, <1>5, FS_RemoveElement
<1>7. Counts'
  <2>1. Cardinality(walk.stable) \in Nat /\ Cardinality(walk.stack) \in Nat
    BY <1>2, <1>5, WalkFacts, FS_CardinalityType DEF PInv
  <2> QED BY <1>3, <1>4, <1>5, <1>6, <2>1 DEF Counts
<1> QED BY <1>1, <1>2, <1>4, <1>7, WalkPInv

LEMMA AnswerStep ==
  ASSUME PInv, HealthAnswers PROVE PInv' /\ walk.count > Cardinality(walk.stable)
<1>1. /\ walk.at = "popping" /\ walk.stack = {} /\ walk' = Idle
      /\ Alive /\ UNCHANGED <<vars, process, converts, fatal>>
  BY DEF HealthAnswers, WalkStep
<1>2. walk # Idle
  BY <1>1, IdleFacts
<1>3. walk.count > Cardinality(walk.stable)
  BY <1>1, <1>2, WalkFacts, FS_EmptySet DEF PInv, Counts
<1>4. Counts'
  BY <1>1 DEF Counts
<1>5. fatal' \in BOOLEAN
  BY <1>1 DEF PInv, ProcessTypeOK
<1> QED BY <1>1, <1>2, <1>3, <1>4, <1>5, WalkPInv

-----------------------------------------------------------------------------

LEMMA NextPInv == PInv /\ [ProcessNext]_all => PInv'
<1> SUFFICES ASSUME PInv, [ProcessNext]_all PROVE PInv'
  OBVIOUS
<1>1. CASE UNCHANGED all
  <2>1. /\ vars' = vars /\ walk' = walk /\ server' = server /\ shut' = shut /\ main' = main
        /\ (converts' => converts) /\ (ctxDone' => ctxDone)
    BY <1>1 DEF all, process, vars
  <2>2. signal' \in BOOLEAN /\ converts' \in BOOLEAN /\ fatal' \in BOOLEAN
    <3>1. signal \in BOOLEAN /\ converts \in BOOLEAN /\ fatal \in BOOLEAN
      BY DEF PInv, ProcessTypeOK
    <3>2. signal' = signal /\ converts' = converts /\ fatal' = fatal
      BY <1>1 DEF all, process
    <3> QED BY <3>1, <3>2
  <2>3. Shutdown'
    <3>1. pc' = pc
      BY <2>1 DEF vars
    <3> QED BY <2>1, <3>1 DEF PInv, Shutdown
  <2> QED BY <2>1, <2>2, <2>3, QuietPInv DEF PInv, ProcessTypeOK
<1>2. CASE WalkNext
  BY <1>2, RequestStep, PushStep, RangedStep, PopStep, AnswerStep DEF WalkNext
<1>3. CASE MainNext \/ Signal
  BY <1>3, MainSteps
<1>4. CASE \/ Watch(Api) \/ Watch(Loop) \/ Watch(SelectErrorEvent)
           \/ \E w \in Crds : Watch(CrdNext(w))
  BY <1>4, WatcherSteps
<1>5. CASE Conversion
  BY <1>5, ConversionStep
<1>6. ASSUME NEW s \in Servers, ServerNext(s) PROVE PInv'
  BY <1>6, ServerSteps
<1> QED BY <1>1, <1>2, <1>3, <1>4, <1>5, <1>6 DEF ProcessNext

(* PInv holds in every reachable state of the process. *)
THEOREM ProcessInvariance == ProcessSpec => []PInv
<1> QED BY InitPInv, NextPInv, PTL DEF ProcessSpec

-----------------------------------------------------------------------------

(* Every variable of the process keeps its type. *)
THEOREM ProcessTypeCorrect == ProcessSpec => []ProcessTypeOK
<1>1. PInv => ProcessTypeOK
  BY DEF PInv
<1> QED BY <1>1, ProcessInvariance, PTL

(* When main returns, no goroutine, request or server of the process is     *)
(* left, for any number of namespaces.                                     *)
THEOREM NobodyOutlivesMain == ProcessSpec => []ExitMeansHome
<1>1. PInv => ExitMeansHome
  BY DEF PInv, Shutdown, IInv, Returned, ExitMeansHome
<1> QED BY <1>1, ProcessInvariance, PTL

(* The order of main keeps the shutdown and the health requests apart.     *)
THEOREM ShutdownIsUnseen == ProcessSpec => []NoWalkAfterCancel
<1>1. PInv => NoWalkAfterCancel
  BY DEF PInv, Shutdown, NoWalkAfterCancel
<1> QED BY <1>1, ProcessInvariance, PTL

(* The loop over the stack, which is also added to while it is emptied,     *)
(* ends with all that were there counted.                                  *)
THEOREM HealthCountsAll == ProcessSpec => CountCoversStable
<1>1. ASSUME PInv, [ProcessNext]_all, walk # Idle, walk' = Idle
      PROVE  walk.count > Cardinality(walk.stable)
  <2>1. CASE HealthAnswers
    BY <1>1, <2>1, AnswerStep
  <2>2. CASE \/ Watch(Api) \/ Watch(Loop) \/ Watch(SelectErrorEvent)
             \/ \E w \in Crds : Watch(CrdNext(w))
    BY <1>1, <2>2, WatchedWalk, IdleFacts
  <2>3. CASE MainNext \/ Signal \/ Conversion \/ \E s \in Servers : ServerNext(s)
    <3>1. walk' = walk
      BY <2>3 DEF MainNext, Signal, MainReceives, HttpClosed, HttpsClosed, MainCancels, MainExits,
                 MainStep, Conversion, ServerNext, Listens, ListenFails, ServerEnds, ServerStep
    <3> QED BY <1>1, <3>1
  <2>4. CASE HealthRequest \/ Ranged \/ (\E n \in Namespaces : Push(n)) \/ \E w \in Crds : Pop(w)
    BY <1>1, <2>4, PushStep, RangedStep, PopStep, IdleFacts DEF HealthRequest
  <2>5. CASE UNCHANGED all
    BY <1>1, <2>5 DEF all
  <2> QED BY <1>1, <2>1, <2>2, <2>3, <2>4, <2>5 DEF ProcessNext, WalkNext
<1>2. PInv /\ [ProcessNext]_all =>
        [walk # Idle /\ walk' = Idle => walk.count > Cardinality(walk.stable)]_all
  BY <1>1
<1> QED BY <1>2, ProcessInvariance, PTL DEF ProcessSpec, CountCoversStable

-----------------------------------------------------------------------------
(* The namespace watcher in the process. *)

(* Whatever main, the servers and the requests do, the namespace watcher    *)
(* and its CRD watchers see nothing of it but the cancelled context:        *)
(* everything proved of their specification holds in the process.           *)
THEOREM ProcessImplementsWatcher == ProcessSpec => Spec
<1>1. ProcessInit => Init
  BY DEF ProcessInit
<1>2. [ProcessNext]_all => [Next]_vars
  BY StepOfWatcher DEF all
<1> QED BY <1>1, <1>2, PTL DEF ProcessSpec, Spec

(* In the process no CRD watcher is stopped twice, no two work on one       *)
(* namespace, the map never contradicts the API server and the gauge never  *)
(* shows too few.                                                          *)
THEOREM ProcessWatchesRightly ==
  ProcessSpec => /\ []StoppedExactlyOnce
                 /\ []SingleWatcher
                 /\ []WatchedIsAllowed
                 /\ []GaugeCovers
BY ProcessImplementsWatcher, StopsExactlyOnce, WatchersExclude, WatchedAreAllowed,
   GaugeIsEnough, PTL

(* In the process, too, every CRD watcher is one of module Crd, which is    *)
(* what CrdWatcher implements.                                             *)
THEOREM ProcessSlotsFollowCrd == ProcessSpec => [][\A w \in Crds : SlotStep(w)]_vars
BY ProcessImplementsWatcher, SlotsFollowCrd
=============================================================================
