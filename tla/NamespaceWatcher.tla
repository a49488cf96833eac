--------------------------- MODULE NamespaceWatcher ---------------------------
(***************************************************************************)
(* The namespace watcher (internal/watcher/namespace.go): the goroutine    *)
(* that follows the namespaces of the cluster and keeps one CRD watcher,   *)
(* a goroutine of its own, per namespace its behaviour allows.             *)
(*                                                                         *)
(* A CRD watcher is reduced to what the namespace watcher can observe of   *)
(* it: whether its goroutine has returned, its Running flag, how often     *)
(* Stop closed its ForceStopChan, and whether it holds its Mutex for a     *)
(* restart. These are the states and steps of module Crd, which CrdWatcher *)
(* implements. It promises very little: it may take for ever to come home  *)
(* after a Stop, because it waits for its monkeys, but it does come home   *)
(* once the context is cancelled.                                          *)
(***************************************************************************)
EXTENDS Naturals, Sequences, FiniteSets

CONSTANTS Namespaces, \* names of the namespaces of the cluster
          Crds,       \* slots for the CRD watchers that exist at one moment
          Labels,     \* values used for the namespace label, NoLabel included
          MaxQueue,   \* bound: events under way in the watch stream
          MaxActive,  \* bound: value of the gauge cmcActive
          None        \* a missing map entry, or a namespace that does not exist

NoLabel == "no label"

Behaviors == {"AllowAll", "DenyAll"}

Event == [type : {"ADDED", "MODIFIED", "DELETED"}, ns : Namespaces, label : Labels]

(* starting   goroutine launched, setRunning(true) not yet executed        *)
(* looping    in its loop                                                  *)
(* busy       in restartWatch: waits for its monkeys with the Mutex held   *)
(* leaving    out of its loop: waits for its monkeys                       *)
(* returned   Start has returned, the map still refers to the watcher      *)
LiveStates == {"starting", "looping", "busy", "leaving"}

Crd == [life : LiveStates \cup {"returned"}, ns : Namespaces,
        running : BOOLEAN, stops : 0 .. 2]

Blank == [life |-> "none"]

ASSUME NamespaceAssumption ==
  /\ IsFiniteSet(Namespaces)
  /\ MaxQueue \in Nat
  /\ MaxActive \in Nat
  /\ None \notin Crds /\ None \notin Labels

VARIABLES
  behavior,  \* n.Behavior, set once from the environment
  nss,       \* API server: the label of each namespace, or None
  queue,     \* events of the current watch not yet received
  watch,     \* "none", "open", or "closed" by the API server
  ctxDone,   \* the context was cancelled
  pc,        \* where Start is; "duplicate" and "assertion" are panics
  running,   \* n.Running
  todo,      \* namespaces the current handler still has to visit
  crds,      \* n.CrdWatchers: the slot of each namespace's watcher, or None
  crd,       \* the CRD watcher in each slot, or Blank
  registry,  \* namespaces whose CRD metrics are registered at Prometheus
  cmcActive  \* the gauge of active CRD watchers

api  == <<nss, queue, watch>>
kids == <<crds, crd, registry>>
vars == <<behavior, nss, queue, watch, ctxDone, pc, running, todo, crds, crd,
          registry, cmcActive>>

TypeOK ==
  /\ behavior \in Behaviors
  /\ nss \in [Namespaces -> Labels \cup {None}]
  /\ queue \in Seq(Event)
  /\ watch \in {"none", "open", "closed"}
  /\ ctxDone \in BOOLEAN
  /\ pc \in {"new", "head", "select", "removing", "sweeping", "restarting", "draining",
             "done", "duplicate", "assertion"}
  /\ running \in BOOLEAN
  /\ todo \in SUBSET Namespaces
  /\ crds \in [Namespaces -> Crds \cup {None}]
  /\ crd \in [Crds -> Crd \cup {Blank}]
  /\ registry \in SUBSET Namespaces
  /\ cmcActive \in 0 .. MaxActive

Init ==
  /\ behavior \in Behaviors
  /\ nss = [n \in Namespaces |-> None]
  /\ queue = <<>>
  /\ watch = "none"
  /\ ctxDone = FALSE
  /\ pc = "new"
  /\ running = FALSE
  /\ todo = {}
  /\ crds = [n \in Namespaces |-> None]
  /\ crd = [w \in Crds |-> Blank]
  /\ registry = {}
  /\ cmcActive = 0

-----------------------------------------------------------------------------
(* Derived state. *)

Watched == {n \in Namespaces : crds[n] # None}

Mapped == {crds[n] : n \in Watched}

WaitGroup == {w \in Crds : crd[w].life \in LiveStates}

Panicked == pc \in {"duplicate", "assertion"}

IsNamespaceAllowed(label) ==
  \/ behavior = "AllowAll" /\ label # "false"
  \/ behavior = "DenyAll" /\ label = "true"

-----------------------------------------------------------------------------
(* The API server. *)

(* A namespace is created, relabelled or deleted.                          *)
ApiChange(n, label) ==
  /\ nss[n] # label
  /\ watch = "open" => Len(queue) < MaxQueue
  /\ nss' = [nss EXCEPT ![n] = label]
  /\ LET type == IF nss[n] = None THEN "ADDED"
                 ELSE IF label = None THEN "DELETED" ELSE "MODIFIED"
         carried == IF label = None THEN nss[n] ELSE label
     IN  queue' = IF watch = "open"
                  THEN Append(queue, [type |-> type, ns |-> n, label |-> carried])
                  ELSE queue
  /\ UNCHANGED <<behavior, watch, ctxDone, pc, running, todo, kids, cmcActive>>

ApiClosesWatch ==
  /\ watch = "open"
  /\ watch' = "closed"
  /\ queue' = <<>>
  /\ UNCHANGED <<behavior, nss, ctxDone, pc, running, todo, kids, cmcActive>>

(* A new watch starts with one synthetic ADDED event per namespace.         *)
Listing ==
  LET existing == {n \in Namespaces : nss[n] # None}
      orders   == {o \in [1 .. Cardinality(existing) -> existing] :
                     \A i, j \in DOMAIN o : o[i] = o[j] => i = j}
  IN  {[i \in DOMAIN o |-> [type |-> "ADDED", ns |-> o[i], label |-> nss[o[i]]]] :
         o \in orders}

-----------------------------------------------------------------------------
(* The CRD watchers. *)

CrdStep(w, record) ==
  /\ ~Panicked
  /\ crd' = [crd EXCEPT ![w] = record]
  /\ UNCHANGED <<behavior, api, ctxDone, pc, running, todo, crds, registry, cmcActive>>

(* The first Watch succeeded: setRunning(true), even after a Stop.          *)
CrdRuns(w) ==
  /\ crd[w].life = "starting"
  /\ CrdStep(w, [crd[w] EXCEPT !.life = "looping", !.running = TRUE])

(* Its own watch ended: restartWatch takes the Mutex.                       *)
CrdRestarts(w) ==
  /\ crd[w].life = "looping"
  /\ CrdStep(w, [crd[w] EXCEPT !.life = "busy"])

(* Its monkeys are home; the new Watch succeeds, or fails and clears        *)
(* Running.                                                                *)
CrdRestarted(w) ==
  /\ crd[w].life = "busy"
  /\ \E r \in {crd[w].running, FALSE} :
       CrdStep(w, [crd[w] EXCEPT !.life = "looping", !.running = r])

(* The select sees the closed ForceStopChan or the cancelled context.       *)
CrdNotices(w) ==
  /\ crd[w].life = "looping" /\ crd[w].running
  /\ crd[w].stops > 0 \/ ctxDone
  /\ CrdStep(w, [crd[w] EXCEPT !.running = FALSE])

(* The loop is over: the monkeys are stopped and waited for.                *)
CrdLeaves(w) ==
  /\ crd[w].life = "looping" /\ ~crd[w].running
  /\ CrdStep(w, [crd[w] EXCEPT !.life = "leaving"])

(* Start returns and its deferred Close unregisters the metrics.            *)
CrdReturn(w, record) ==
  /\ ~Panicked
  /\ crd' = [crd EXCEPT ![w] = IF w \in Mapped THEN record ELSE Blank]
  /\ registry' = registry \ {crd[w].ns}
  /\ UNCHANGED <<behavior, api, ctxDone, pc, running, todo, crds, cmcActive>>

(* All its monkeys are home.                                               *)
CrdReturns(w) ==
  /\ crd[w].life = "leaving"
  /\ CrdReturn(w, [crd[w] EXCEPT !.life = "returned"])

(* The first Watch failed; or an error event ended the loop, which need not *)
(* clear the Running flag.                                                 *)
CrdFails(w) ==
  \/ /\ crd[w].life = "starting"
     /\ CrdReturn(w, [crd[w] EXCEPT !.life = "returned"])
  \/ /\ crd[w].life = "looping"
     /\ \E r \in {crd[w].running, FALSE} :
          CrdReturn(w, [crd[w] EXCEPT !.life = "returned", !.running = r])

-----------------------------------------------------------------------------
(* The loop of Start. *)

(* The first Watch succeeds. *)
StartWatches ==
  /\ pc = "new"
  /\ watch' = "open"
  /\ queue' \in Listing
  /\ running' = TRUE
  /\ pc' = "head"
  /\ UNCHANGED <<behavior, nss, ctxDone, todo, kids, cmcActive>>

StartFails ==
  /\ pc = "new"
  /\ pc' = "done"
  /\ UNCHANGED <<behavior, api, ctxDone, running, todo, kids, cmcActive>>

(* for n.IsRunning(): enter the select, or start to stop what is left.      *)
LoopAgain ==
  /\ pc = "head"
  /\ running
  /\ pc' = "select"
  /\ UNCHANGED <<behavior, api, ctxDone, running, todo, kids, cmcActive>>

LoopEnds ==
  /\ pc = "head"
  /\ ~running
  /\ pc' = "draining"
  /\ todo' = Watched
  /\ UNCHANGED <<behavior, api, ctxDone, running, kids, cmcActive>>

(* addWatcher and startCrdWatcher. The metrics of the new CRD watcher are   *)
(* registered first, and promauto panics if they are registered already.    *)
AddAndStart(n) ==
  IF n \in registry
  THEN /\ pc' = "duplicate"
       /\ UNCHANGED <<kids, cmcActive>>
  ELSE \E w \in Crds :
       /\ crd[w] = Blank
       /\ cmcActive < MaxActive
       /\ crd' = [crd EXCEPT ![w] =
                    [life |-> "starting", ns |-> n, running |-> FALSE, stops |-> 0]]
       /\ crds' = [crds EXCEPT ![n] = w]
       /\ registry' = registry \cup {n}
       /\ cmcActive' = cmcActive + 1
       /\ pc' = "head"

(* ADDED or MODIFIED to a namespace that is allowed: unless it has a        *)
(* watcher already, it gets one.                                           *)
HandleAllowed(n) ==
  /\ IF crds[n] = None
     THEN AddAndStart(n)
     ELSE pc' = "head" /\ UNCHANGED <<kids, cmcActive>>
  /\ UNCHANGED todo

(* ADDED: a namespace that is not allowed is ignored. *)
HandleIgnored ==
  /\ pc' = "head"
  /\ UNCHANGED <<todo, kids, cmcActive>>

(* Mutant: the event is only logged. *)
RemovalLogged(n) ==
  /\ pc' = "head"
  /\ UNCHANGED <<todo, kids, cmcActive>>

(* MODIFIED to one that is not allowed, or DELETED: removeWatcher. *)
HandleRemoved(n) ==
  /\ pc' = IF crds[n] = None THEN "head" ELSE "removing"
  /\ todo' = {n} \cap Watched
  /\ UNCHANGED <<kids, cmcActive>>

SelectEvent ==
  /\ pc = "select"
  /\ queue # <<>>
  /\ queue' = Tail(queue)
  /\ LET e == Head(queue) IN
       \/ /\ e.type \in {"ADDED", "MODIFIED"} /\ IsNamespaceAllowed(e.label)
          /\ HandleAllowed(e.ns)
       \/ /\ e.type = "ADDED" /\ ~IsNamespaceAllowed(e.label)
          /\ HandleIgnored
       \/ /\ e.type = "MODIFIED" /\ ~IsNamespaceAllowed(e.label)
          /\ HandleRemoved(e.ns)
       \/ /\ e.type = "DELETED"
          /\ HandleRemoved(e.ns)
  /\ UNCHANGED <<behavior, nss, watch, ctxDone, running>>

(* An error event carries a Status, which the unchecked type assertion does *)
(* not survive. An event without type, or an error that does carry a        *)
(* namespace, ends the loop.                                               *)
SelectErrorEvent ==
  /\ pc = "select"
  /\ watch = "open" /\ queue = <<>>
  /\ \/ pc' = "assertion" /\ UNCHANGED running
     \/ pc' = "head" /\ running' = FALSE
  /\ UNCHANGED <<behavior, api, ctxDone, todo, kids, cmcActive>>

SelectContext ==
  /\ pc = "select"
  /\ ctxDone
  /\ running' = FALSE
  /\ pc' = "head"
  /\ UNCHANGED <<behavior, api, ctxDone, todo, kids, cmcActive>>

(* The watch timed out: restartWatch stops all the CRD watchers. *)
SelectClosed ==
  /\ pc = "select"
  /\ watch = "closed"
  /\ watch' = "none"
  /\ pc' = "restarting"
  /\ todo' = Watched
  /\ UNCHANGED <<behavior, nss, queue, ctxDone, running, kids, cmcActive>>

(* Every CleanupTimeout: cleanUp goes over the map. *)
SelectCleanUp ==
  /\ pc = "select"
  /\ pc' = "sweeping"
  /\ todo' = Watched
  /\ UNCHANGED <<behavior, api, ctxDone, running, kids, cmcActive>>

-----------------------------------------------------------------------------
(* Visits to the CRD watchers of todo, in the order of a map iteration.     *)
(* Stop and IsRunning need the CRD watcher's Mutex.                         *)

Free(n) == crd[crds[n]].life # "busy"

(* Mutant: stopped, and left in the map. *)
StopOnly(n) ==
  /\ crd' = [crd EXCEPT ![crds[n]].running = FALSE,
                        ![crds[n]].stops = IF @ < 2 THEN @ + 1 ELSE @]
  /\ UNCHANGED <<crds, registry>>

(* Mutant: the metrics are unregistered by Stop already. *)
StopAndUnregister(n) ==
  LET w == crds[n]
      stopped == [crd[w] EXCEPT !.running = FALSE,
                                !.stops = IF @ < 2 THEN @ + 1 ELSE @]
  IN  /\ crd' = [crd EXCEPT ![w] = IF stopped.life = "returned" THEN Blank ELSE stopped]
      /\ crds' = [crds EXCEPT ![n] = None]
      /\ registry' = registry \ {n}

(* w.Stop() and delete(n.CrdWatchers, n): the watcher is told, and its slot *)
(* is free if it has returned already.                                     *)
StopAndForget(n) ==
  LET w == crds[n]
      stopped == [crd[w] EXCEPT !.running = FALSE,
                                !.stops = IF @ < 2 THEN @ + 1 ELSE @]
  IN  /\ crd' = [crd EXCEPT ![w] = IF stopped.life = "returned" THEN Blank ELSE stopped]
      /\ crds' = [crds EXCEPT ![n] = None]
      /\ UNCHANGED registry

(* Mutant: counted down by removeWatcher and by its caller. *)
RemoveOneTwice(n) ==
  /\ pc = "removing" /\ n \in todo
  /\ Free(n)
  /\ StopAndForget(n)
  /\ cmcActive' = cmcActive - 2
  /\ todo' = {}
  /\ pc' = "head"
  /\ UNCHANGED <<behavior, api, ctxDone, running>>

(* removeWatcher *)
RemoveOne(n) ==
  /\ pc = "removing" /\ n \in todo
  /\ Free(n)
  /\ StopAndForget(n)
  /\ cmcActive' = cmcActive - 1
  /\ todo' = {}
  /\ pc' = "head"
  /\ UNCHANGED <<behavior, api, ctxDone, running>>

(* Mutant: each watcher visited is counted down, one that runs too. *)
SweepOneUncounted(n) ==
  /\ pc = "sweeping" /\ n \in todo
  /\ Free(n)
  /\ IF crd[crds[n]].running THEN UNCHANGED kids ELSE StopAndForget(n)
  /\ todo' = todo \ {n}
  /\ cmcActive' = cmcActive - 1
  /\ UNCHANGED <<behavior, api, ctxDone, pc, running>>

(* cleanUp, for one entry of the map: not one that runs. *)
SweepOne(n) ==
  /\ pc = "sweeping" /\ n \in todo
  /\ Free(n)
  /\ IF crd[crds[n]].running THEN UNCHANGED kids ELSE StopAndForget(n)
  /\ todo' = todo \ {n}
  /\ UNCHANGED <<behavior, api, ctxDone, pc, running, cmcActive>>

SweepEnds ==
  /\ pc = "sweeping" /\ todo = {}
  /\ pc' = "head"
  /\ UNCHANGED <<behavior, api, ctxDone, running, todo, kids, cmcActive>>

(* restartWatch and the end of Start, for one entry of the map. *)
StopOne(n) ==
  /\ pc \in {"restarting", "draining"} /\ n \in todo
  /\ Free(n)
  /\ StopAndForget(n)
  /\ todo' = todo \ {n}
  /\ UNCHANGED <<behavior, api, ctxDone, pc, running, cmcActive>>

(* wg.Wait() and a new Watch; the gauge starts again.                      *)
RestartWatches ==
  /\ pc = "restarting" /\ todo = {} /\ WaitGroup = {}
  /\ watch' = "open"
  /\ queue' \in Listing
  /\ cmcActive' = 0
  /\ pc' = "head"
  /\ UNCHANGED <<behavior, nss, ctxDone, running, todo, kids>>

RestartFails ==
  /\ pc = "restarting" /\ todo = {} /\ WaitGroup = {}
  /\ running' = FALSE
  /\ cmcActive' = 0
  /\ pc' = "head"
  /\ UNCHANGED <<behavior, api, ctxDone, todo, kids>>

(* wg.Wait() at the end of Start. *)
AllHome ==
  /\ pc = "draining" /\ todo = {} /\ WaitGroup = {}
  /\ pc' = "done"
  /\ UNCHANGED <<behavior, api, ctxDone, running, todo, kids, cmcActive>>

(* main cancels the context. *)
Cancel ==
  /\ ~ctxDone /\ ~Panicked
  /\ ctxDone' = TRUE
  /\ UNCHANGED <<behavior, api, pc, running, todo, kids, cmcActive>>

-----------------------------------------------------------------------------

Api == \/ \E n \in Namespaces : \E label \in Labels \cup {None} : ApiChange(n, label)
       \/ ApiClosesWatch

CrdNext(w) == \/ CrdRuns(w)
              \/ CrdRestarts(w)
              \/ CrdRestarted(w)
              \/ CrdNotices(w)
              \/ CrdLeaves(w)
              \/ CrdReturns(w)
              \/ CrdFails(w)

Select == \/ SelectEvent
          \/ SelectContext
          \/ SelectClosed
          \/ SelectCleanUp

Visit(n) == RemoveOne(n) \/ SweepOne(n) \/ StopOne(n)

Loop == \/ StartWatches
        \/ StartFails
        \/ LoopAgain
        \/ LoopEnds
        \/ Select
        \/ \E n \in Namespaces : Visit(n)
        \/ SweepEnds
        \/ RestartWatches
        \/ RestartFails
        \/ AllHome

Next == \/ Api
        \/ \E w \in Crds : CrdNext(w)
        \/ Loop
        \/ SelectErrorEvent
        \/ Cancel

(* Calls to the API server return and a Go select does not pass over a case *)
(* that stays ready. Of the CRD watchers only this is assumed: they come    *)
(* home when the context is cancelled (Crd!Fairness).                       *)
Fairness ==
  /\ WF_vars(Loop)
  /\ SF_vars(SelectContext)
  /\ \A w \in Crds : /\ WF_vars(ctxDone /\ CrdRuns(w))
                     /\ WF_vars(ctxDone /\ CrdRestarted(w))
                     /\ SF_vars(ctxDone /\ CrdNotices(w))
                     /\ SF_vars(ctxDone /\ CrdLeaves(w))
                     /\ WF_vars(ctxDone /\ CrdReturns(w))

Spec == Init /\ [][Next]_vars

FairSpec == Spec /\ Fairness

-----------------------------------------------------------------------------
(* Safety. *)

(* CrdWatcher.Stop closes a channel (crd.go:399), and a second call would   *)
(* panic: each CRD watcher is stopped exactly once, in the very step that   *)
(* takes it out of the map, on every path that does.                       *)
StoppedExactlyOnce ==
  \A w \in Crds : crd[w] # Blank =>
    crd[w].stops = IF w \in Mapped THEN 0 ELSE 1

(* Two CRD watchers never work on one namespace at the same time, even      *)
(* while a stopped one is on its way home.                                 *)
SingleWatcher ==
  \A v, w \in WaitGroup : crd[v].ns = crd[w].ns => v = w

(* The map never contradicts the API server: a namespace that has a watcher *)
(* and no event under way exists and is allowed (namespace.go:253-304).     *)
WatchedIsAllowed ==
  watch = "open" /\ pc \in {"head", "select", "removing", "sweeping"} =>
    \A n \in Watched :
      \/ pc = "removing" /\ n \in todo
      \/ \E i \in DOMAIN queue : queue[i].ns = n
      \/ nss[n] # None /\ IsNamespaceAllowed(nss[n])

(* The gauge of active CRD watchers never shows fewer than there are in the *)
(* map, through removals, clean-ups and restarts.                          *)
GaugeCovers == Cardinality(Watched) <= cmcActive

(* When Start returns, all CRD watchers have (namespace.go:320-337).        *)
ReturnedMeansHome == pc = "done" => WaitGroup = {}

-----------------------------------------------------------------------------
(* What the documentation says, and the code does not do. *)

(* namespace.go:62: "Total number of *active* CMCs" (README.md:274). A      *)
(* watcher that cleanUp takes out stays in the gauge.                      *)
GaugeIsExact == pc = "head" => cmcActive = Cardinality(Watched)

(* README.md:26-27: the role of the namespace watcher is to start the CRD   *)
(* watchers for the namespaces. One whose CRD watcher failed is cleaned up  *)
(* and never gets another.                                                 *)
AllowedIsWatched ==
  pc = "head" /\ running /\ watch = "open" /\ queue = <<>> =>
    \A n \in Namespaces :
      nss[n] # None /\ IsNamespaceAllowed(nss[n]) => n \in Watched

(* tests/kubetest.sh:184: "Checking that chaosmonkey did not crash even     *)
(* once". A namespace that is relabelled twice in a row crashes it.        *)
ReAddDoesNotPanic == pc # "duplicate"

(* namespace_test.go:283: "The watcher should be stopped already", of a     *)
(* watcher that receives an error event. The process dies instead.         *)
ErrorEventIsHandled == pc # "assertion"
=============================================================================
