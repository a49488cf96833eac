----------------------------- MODULE CrdWatcher -----------------------------
(***************************************************************************)
(* One CRD watcher (internal/watcher/crd.go): the goroutine that follows   *)
(* the ChaosMonkeyConfigurations (CMCs) of one namespace and keeps one     *)
(* chaos monkey, a goroutine of its own, per targeted deployment.          *)
(*                                                                         *)
(* Around the loop the module has what it interleaves with: the API server *)
(* (the CMCs and the watch stream that reports their changes), the monkeys *)
(* it launched, whose life is reduced to what this component can see of    *)
(* them, the Prometheus registry all of them share, and the namespace      *)
(* watcher, which calls Stop or cancels the context.                       *)
(***************************************************************************)
EXTENDS Naturals, Sequences, FiniteSets

CONSTANTS Cmcs,        \* names of the CMCs users may create in the namespace
          Deployments, \* names of the deployments they may target
          Desired,     \* Desired[c]: the specs users may give to the CMC c
          Monkeys,     \* slots for the monkeys that exist at one moment
          MaxQueue,    \* bound: events under way in the watch stream
          None         \* a missing map entry, or a CMC that does not exist

Modes == {"randomScale", "killPod", "antiPressure"}

(* v1.ChaosMonkeyConfigurationSpec: the replica bounds and the timeout do   *)
(* not influence this component.                                           *)
CmcSpec == [dep : Deployments, mode : Modes, enabled : BOOLEAN]

(* watch.Event with the CMC it carries. *)
Event == [type : {"ADDED", "MODIFIED", "DELETED"}, cmc : Cmcs, spec : CmcSpec]

(* WatcherConfiguration: the monkey, and the Configuration it was made for. *)
Entry == [monkey : Monkeys, cmc : Cmcs, mode : Modes]

(***************************************************************************)
(* What the CRD watcher can observe of a monkey.                           *)
(*   starting  goroutine launched, setRunning(true) not yet executed       *)
(*   running   in its loop                                                 *)
(*   dozing    its timer fired while it was disabled, and nothing will     *)
(*             ever re-arm it (AntiHPAWatcher, antihpa.go:238-241)         *)
(*   asleep    in the select, with that timer                              *)
(*   stopping  Running = FALSE, the loop has not noticed yet               *)
(*   stuck     asleep and Running = FALSE: only the context wakes it       *)
(*   done      Start has returned, the map still refers to the watcher     *)
(* told records how the watcher left the map: by Stop, or swept by cleanUp.*)
(***************************************************************************)
LiveStates == {"starting", "running", "dozing", "asleep", "stopping", "stuck"}

Monkey == [life : LiveStates \cup {"done"}, dep : Deployments, mode : Modes,
           enabled : BOOLEAN, told : {"no", "stop", "swept"}]

Blank == [life |-> "none"]

ASSUME CrdAssumption ==
  /\ IsFiniteSet(Cmcs)
  /\ MaxQueue \in Nat
  /\ Desired \in [Cmcs -> SUBSET CmcSpec]
  /\ None \notin CmcSpec /\ None \notin Entry

VARIABLES
  cmcs,        \* API server: the spec of each CMC, or None
  queue,       \* events of the current watch not yet received
  watch,       \* "none", "open", or "closed" by the API server
  ctxDone,     \* the context was cancelled
  pc,          \* where Start is; "panicked" when the process died in promauto
  running,     \* c.Running
  forceClosed, \* c.ForceStopChan is closed
  dw,          \* c.DeploymentWatchers
  monkey,      \* the monkey in each slot, or Blank
  registry     \* keys registered at Prometheus by the monkeys

api   == <<cmcs, queue, watch>>
loop  == <<pc, running>>
kids  == <<dw, monkey, registry>>
vars  == <<cmcs, queue, watch, ctxDone, pc, running, forceClosed, dw, monkey,
           registry>>

TypeOK ==
  /\ cmcs \in [Cmcs -> CmcSpec \cup {None}]
  /\ queue \in Seq(Event)
  /\ watch \in {"none", "open", "closed"}
  /\ ctxDone \in BOOLEAN
  /\ pc \in {"new", "head", "select", "restarting", "waiting", "done", "failed",
            "panicked"}
  /\ running \in BOOLEAN
  /\ forceClosed \in BOOLEAN
  /\ dw \in [Deployments -> Entry \cup {None}]
  /\ monkey \in [Monkeys -> Monkey \cup {Blank}]
  /\ registry \in SUBSET (Modes \X Deployments)

Init ==
  /\ cmcs = [c \in Cmcs |-> None]
  /\ queue = <<>>
  /\ watch = "none"
  /\ ctxDone = FALSE
  /\ pc = "new"
  /\ running = FALSE
  /\ forceClosed = FALSE
  /\ dw = [d \in Deployments |-> None]
  /\ monkey = [m \in Monkeys |-> Blank]
  /\ registry = {}

-----------------------------------------------------------------------------
(* Derived state. *)

Mapped == {dw[d].monkey : d \in {e \in Deployments : dw[e] # None}}

(* The goroutines counted by wg: wg.Add(1) before go, wg.Done() after Start. *)
WaitGroup == {m \in Monkeys : monkey[m].life \in LiveStates}

IsRunning(m) == monkey[m].life \in {"running", "dozing", "asleep"}

Panicked == pc = "panicked"

Key(m) == <<monkey[m].mode, monkey[m].dep>>

-----------------------------------------------------------------------------
(* The API server. *)

(* A user creates, edits or deletes a CMC. The change is reported on the    *)
(* stream of an open watch, and lost on a closed one.                      *)
ApiChange(c, spec) ==
  /\ cmcs[c] # spec
  /\ watch = "open" => Len(queue) < MaxQueue
  /\ cmcs' = [cmcs EXCEPT ![c] = spec]
  /\ LET type == IF cmcs[c] = None THEN "ADDED"
                 ELSE IF spec = None THEN "DELETED" ELSE "MODIFIED"
         carried == IF spec = None THEN cmcs[c] ELSE spec
     IN  queue' = IF watch = "open"
                  THEN Append(queue, [type |-> type, cmc |-> c, spec |-> carried])
                  ELSE queue
  /\ UNCHANGED <<watch, ctxDone, loop, forceClosed, kids>>

(* The watch ends (TimeoutSeconds, or a lost connection): the events not    *)
(* yet delivered are lost with it.                                         *)
ApiClosesWatch ==
  /\ watch = "open"
  /\ watch' = "closed"
  /\ queue' = <<>>
  /\ UNCHANGED <<cmcs, ctxDone, loop, forceClosed, kids>>

(* A new watch starts with one synthetic ADDED event per existing CMC, in   *)
(* no particular order.                                                    *)
Listing ==
  LET existing == {c \in Cmcs : cmcs[c] # None}
      orders   == {o \in [1 .. Cardinality(existing) -> existing] :
                     \A i, j \in DOMAIN o : o[i] = o[j] => i = j}
  IN  {[i \in DOMAIN o |-> [type |-> "ADDED", cmc |-> o[i], spec |-> cmcs[o[i]]]] :
         o \in orders}

-----------------------------------------------------------------------------
(* The monkeys. *)

(* Start returns: the deferred Close unregisters the metrics, by their      *)
(* description, except for the AntiHPAWatcher whose Close does nothing.     *)
MonkeyReturns(m) ==
  /\ ~Panicked
  /\ monkey' = [monkey EXCEPT ![m] = IF m \in Mapped THEN [@ EXCEPT !.life = "done"]
                                     ELSE Blank]
  /\ registry' = IF monkey[m].mode = "antiPressure" THEN registry
                 ELSE registry \ {Key(m)}
  /\ UNCHANGED <<api, ctxDone, loop, forceClosed, dw>>

(* The loop sees that the Running flag is cleared. *)
MonkeyNoticesStop(m) ==
  /\ monkey[m].life = "stopping"
  /\ MonkeyReturns(m)

MonkeyMoves(m, life) ==
  /\ ~Panicked
  /\ monkey' = [monkey EXCEPT ![m].life = life]
  /\ UNCHANGED <<api, ctxDone, loop, forceClosed, dw, registry>>

(* setRunning(true), whatever Stop wrote before it.                        *)
MonkeyRuns(m) ==
  /\ monkey[m].life = "starting"
  /\ MonkeyMoves(m, "running")

(* The select, the sleeping one too, sees the cancelled context: Running is *)
(* cleared.                                                                *)
MonkeyNoticesContext(m) ==
  /\ ctxDone
  /\ monkey[m].life \in {"running", "asleep", "stuck"}
  /\ MonkeyMoves(m, "stopping")

(* Five failed scalings in a row, a pod watch that ends in an error or      *)
(* cannot be restarted: the monkey clears Running itself.                  *)
MonkeyGivesUp(m) ==
  /\ monkey[m].life = "running"
  /\ monkey[m].mode \in {"randomScale", "killPod"}
  /\ MonkeyMoves(m, "stopping")

(* The first Watch of a PodWatcher fails. *)
MonkeyFailsToStart(m) ==
  /\ monkey[m].life = "starting"
  /\ monkey[m].mode = "killPod"
  /\ MonkeyReturns(m)

(* The timer of a disabled AntiHPAWatcher fires and is not re-armed. *)
MonkeyLosesTimer(m) ==
  /\ monkey[m].life = "running"
  /\ monkey[m].mode = "antiPressure"
  /\ ~monkey[m].enabled
  /\ MonkeyMoves(m, "dozing")

(* It finds Running still set, and enters the select again. *)
MonkeyFallsAsleep(m) ==
  /\ monkey[m].life = "dozing"
  /\ MonkeyMoves(m, "asleep")

-----------------------------------------------------------------------------
(* What the loop does to monkeys: building blocks of its actions, on a      *)
(* monkey record w, on the slots ms or on the registry.                    *)

(* Watcher.Stop: a watcher that has not reached setRunning(true), or has    *)
(* returned, keeps its state; nothing wakes a sleeping AntiHPAWatcher.      *)
Stop(w) ==
  [w EXCEPT !.life = CASE @ \in {"running", "dozing"} -> "stopping"
                       [] @ = "asleep"               -> "stuck"
                       [] OTHER                      -> @,
            !.told = "stop"]

(* Dropping the map's reference frees the slot of a returned watcher. *)
Forget(w) == IF w.life = "done" THEN Blank ELSE w

StopAndForget(ms, S) ==
  [m \in Monkeys |-> IF m \in S THEN Forget(Stop(ms[m])) ELSE ms[m]]

(* Mutant: every Stop unregisters at once. *)
UnregisteredByEveryStop(S) == {Key(m) : m \in S}

(* PodWatcher.Stop unregisters its metrics at once, the others wait for     *)
(* Close.                                                                  *)
UnregisteredByStop(S) == {Key(m) : m \in {n \in S : monkey[n].mode = "killPod"}}

(* Mutant: one set of metrics per deployment, whatever the mode. *)
KeyByName(spec) == spec.dep

(* Under which key the metrics of the monkey for spec are registered. *)
KeyOf(spec) == <<spec.mode, spec.dep>>

(* Mutant: launched with the constructor's default. *)
Unconfigured(spec) ==
  [life |-> "starting", dep |-> spec.dep, mode |-> spec.mode,
   enabled |-> spec.mode # "randomScale", told |-> "no"]

(* A monkey that was created and configured (its Enabled flag, of which the *)
(* constructors have defaults of their own) and whose goroutine is launched.*)
NewMonkey(spec) ==
  [life |-> "starting", dep |-> spec.dep, mode |-> spec.mode,
   enabled |-> spec.enabled, told |-> "no"]

(* The factories register the metrics of a new watcher, and promauto panics *)
(* if they are registered already. Otherwise the watcher is configured,     *)
(* launched and put in the map. reg, ms and map are the registry, slots and *)
(* map the earlier part of the handler left.                               *)
Launch(c, spec, reg, ms, map) ==
  LET key == KeyOf(spec) IN
  IF key \in reg
  THEN /\ pc' = "panicked"
       /\ registry' = reg /\ monkey' = ms /\ dw' = map
  ELSE \E m \in Monkeys :
       /\ ms[m] = Blank
       /\ monkey' = [ms EXCEPT ![m] = NewMonkey(spec)]
       /\ dw' = [map EXCEPT ![spec.dep] = [monkey |-> m, cmc |-> c, mode |-> spec.mode]]
       /\ registry' = reg \cup {key}
       /\ pc' = "head"

(* Stopping every watcher and emptying the map, as restartWatch and the end *)
(* of Start do.                                                            *)
StopAll ==
  /\ monkey' = StopAndForget(monkey, Mapped)
  /\ registry' = registry \ UnregisteredByStop(Mapped)
  /\ dw' = [d \in Deployments |-> None]

-----------------------------------------------------------------------------
(* The loop of Start. *)

(* The first Watch succeeds: setRunning(true), even after a Stop. *)
StartWatches ==
  /\ pc = "new"
  /\ watch' = "open"
  /\ queue' \in Listing
  /\ running' = TRUE
  /\ pc' = "head"
  /\ UNCHANGED <<cmcs, ctxDone, forceClosed, kids>>

(* The first Watch fails: Start returns the error. *)
StartFails ==
  /\ pc = "new"
  /\ pc' = "done"
  /\ UNCHANGED <<api, ctxDone, running, forceClosed, kids>>

(* for c.IsRunning(): enter the select. *)
LoopAgain ==
  /\ pc = "head"
  /\ running
  /\ pc' = "select"
  /\ UNCHANGED <<api, ctxDone, running, forceClosed, kids>>

(* The loop is over: stop all the remaining watchers. *)
LoopEnds ==
  /\ pc = "head"
  /\ ~running
  /\ pc' = "waiting"
  /\ StopAll
  /\ UNCHANGED <<api, ctxDone, running, forceClosed>>

(* Mutant: without wg.Wait(). *)
NobodyWaits ==
  /\ pc = "waiting"
  /\ pc' = "done"
  /\ UNCHANGED <<api, ctxDone, running, forceClosed, kids>>

(* wg.Wait() returns, and Start with it. *)
AllHome ==
  /\ pc = "waiting"
  /\ WaitGroup = {}
  /\ pc' = "done"
  /\ UNCHANGED <<api, ctxDone, running, forceClosed, kids>>

(* ADDED. The deployment may not be found (or have no labels to select its  *)
(* pods with), and it may have a watcher already: both are only logged.     *)
HandleAdded(c, spec) ==
  \/ pc' = "head" /\ UNCHANGED kids
  \/ /\ dw[spec.dep] = None
     /\ Launch(c, spec, registry, monkey, dw)

(* Mutant: a watcher of another mode is taken for one of the new mode. *)
ReconfiguredInPlace(c, spec) ==
  LET d == spec.dep
  IN  /\ IF dw[d] = None
         THEN UNCHANGED <<dw, monkey>>
         ELSE /\ monkey' = [monkey EXCEPT ![dw[d].monkey].enabled = spec.enabled]
              /\ dw' = [dw EXCEPT ![d].mode = spec.mode]
      /\ pc' = "head" /\ UNCHANGED registry

(* MODIFIED. A watcher of another mode is stopped and replaced, unless the  *)
(* deployment cannot be read any more; one of the same mode is configured.  *)
HandleModified(c, spec) ==
  LET d == spec.dep
      m == dw[d].monkey
  IN  \/ /\ dw[d] = None
         /\ pc' = "head" /\ UNCHANGED kids
      \/ /\ dw[d] # None
         /\ dw[d].mode = spec.mode
         /\ monkey' = [monkey EXCEPT ![m].enabled = spec.enabled]
         /\ pc' = "head" /\ UNCHANGED <<dw, registry>>
      \/ /\ dw[d] # None
         /\ dw[d].mode # spec.mode
         /\ LET ms  == StopAndForget(monkey, {m})
                reg == registry \ UnregisteredByStop({m})
                map == [dw EXCEPT ![d] = None]
            IN  \/ pc' = "head" /\ monkey' = ms /\ registry' = reg /\ dw' = map
                \/ Launch(c, spec, reg, ms, map)

(* Mutant: removed from the map without a Stop. *)
DeletedSilently(c, spec) ==
  /\ dw' = [dw EXCEPT ![spec.dep] = None]
  /\ pc' = "head" /\ UNCHANGED <<monkey, registry>>

(* DELETED: the watcher of the deployment is stopped, whoever created it. *)
HandleDeleted(c, spec) ==
  LET d == spec.dep
      m == dw[d].monkey
  IN  /\ IF dw[d] = None
         THEN UNCHANGED kids
         ELSE /\ monkey' = StopAndForget(monkey, {m})
              /\ registry' = registry \ UnregisteredByStop({m})
              /\ dw' = [dw EXCEPT ![d] = None]
      /\ pc' = "head"

SelectEvent ==
  /\ pc = "select"
  /\ queue # <<>>
  /\ queue' = Tail(queue)
  /\ LET e == Head(queue) IN
       CASE e.type = "ADDED"    -> HandleAdded(e.cmc, e.spec)
         [] e.type = "MODIFIED" -> HandleModified(e.cmc, e.spec)
         [] e.type = "DELETED"  -> HandleDeleted(e.cmc, e.spec)
  /\ UNCHANGED <<cmcs, watch, ctxDone, running, forceClosed>>

(* The API server sends an error event, whose object is a Status: not a CMC *)
(* and therefore an unknown object type. Start returns at once. An event    *)
(* without type, or an error that does carry a CMC, clears Running first.   *)
SelectErrorEvent ==
  /\ pc = "select"
  /\ watch = "open" /\ queue = <<>>
  /\ running' \in {running, FALSE}
  /\ pc' = "failed"
  /\ UNCHANGED <<api, ctxDone, forceClosed, kids>>

(* The watch timed out: restartWatch stops every monkey and waits for them, *)
(* with the Mutex held.                                                    *)
SelectClosed ==
  /\ pc = "select"
  /\ watch = "closed"
  /\ watch' = "none"
  /\ pc' = "restarting"
  /\ StopAll
  /\ UNCHANGED <<cmcs, queue, ctxDone, running, forceClosed>>

RestartWatches ==
  /\ pc = "restarting"
  /\ WaitGroup = {}
  /\ watch' = "open"
  /\ queue' \in Listing
  /\ pc' = "head"
  /\ UNCHANGED <<cmcs, ctxDone, running, forceClosed, kids>>

RestartFails ==
  /\ pc = "restarting"
  /\ WaitGroup = {}
  /\ running' = FALSE
  /\ pc' = "head"
  /\ UNCHANGED <<api, ctxDone, forceClosed, kids>>

(* Mutant: the cancellation is only logged. *)
ContextLogged ==
  /\ pc = "select"
  /\ ctxDone
  /\ pc' = "head"
  /\ UNCHANGED <<api, ctxDone, running, forceClosed, kids>>

SelectContext ==
  /\ pc = "select"
  /\ ctxDone
  /\ running' = FALSE
  /\ pc' = "head"
  /\ UNCHANGED <<api, ctxDone, forceClosed, kids>>

(* Every CleanupTimeout: watchers that are not running leave the map. They  *)
(* are not stopped, and one that is still starting is not running.          *)
SelectCleanUp ==
  LET dead  == {d \in Deployments : dw[d] # None /\ ~IsRunning(dw[d].monkey)}
      swept == {dw[d].monkey : d \in dead}
  IN  /\ pc = "select"
      /\ dw' = [d \in Deployments |-> IF d \in dead THEN None ELSE dw[d]]
      /\ monkey' = [m \in Monkeys |->
                      IF m \in swept THEN Forget([monkey[m] EXCEPT !.told = "swept"])
                      ELSE monkey[m]]
      /\ pc' = "head"
      /\ UNCHANGED <<api, ctxDone, running, forceClosed, registry>>

(* Mutant: the select relies on Stop having cleared Running. *)
ForceStopLogged ==
  /\ pc = "select"
  /\ forceClosed
  /\ pc' = "head"
  /\ UNCHANGED <<api, ctxDone, running, forceClosed, kids>>

(* ForceStopChan is closed, hence always ready. *)
SelectForceStop ==
  /\ pc = "select"
  /\ forceClosed
  /\ running' = FALSE
  /\ pc' = "head"
  /\ UNCHANGED <<api, ctxDone, forceClosed, kids>>

-----------------------------------------------------------------------------
(* The namespace watcher and main. *)

(* CrdWatcher.Stop, which needs the Mutex that restartWatch holds. The send *)
(* on ForceStopChan adds nothing to the close that follows it. The caller   *)
(* forgets the watcher, so there is one Stop at most.                       *)
ForceStop ==
  /\ ~forceClosed
  /\ pc \notin {"restarting", "panicked"}
  /\ running' = FALSE
  /\ forceClosed' = TRUE
  /\ UNCHANGED <<api, ctxDone, pc, kids>>

Cancel ==
  /\ ~ctxDone /\ ~Panicked
  /\ ctxDone' = TRUE
  /\ UNCHANGED <<api, loop, forceClosed, kids>>

-----------------------------------------------------------------------------

Api == \/ \E c \in Cmcs : \E spec \in Desired[c] \cup {None} : ApiChange(c, spec)
       \/ ApiClosesWatch

MonkeyStep(m) == \/ MonkeyRuns(m)
                 \/ MonkeyNoticesStop(m)
                 \/ MonkeyNoticesContext(m)
                 \/ MonkeyGivesUp(m)
                 \/ MonkeyFailsToStart(m)
                 \/ MonkeyLosesTimer(m)
                 \/ MonkeyFallsAsleep(m)

Select == \/ SelectEvent
          \/ SelectClosed
          \/ SelectContext
          \/ SelectCleanUp
          \/ SelectForceStop

Loop == \/ StartWatches
        \/ StartFails
        \/ LoopAgain
        \/ LoopEnds
        \/ AllHome
        \/ Select
        \/ RestartWatches
        \/ RestartFails

Next == \/ Api
        \/ \E m \in Monkeys : MonkeyStep(m)
        \/ Loop
        \/ SelectErrorEvent
        \/ ForceStop
        \/ Cancel

(* Calls to the API server return, and a Go select takes every case that    *)
(* stays ready, or becomes ready again and again, sooner or later: it picks *)
(* among the ready ones at random. A monkey's loop is the same kind of loop.*)
Fairness ==
  /\ WF_vars(Loop)
  /\ SF_vars(SelectContext)
  /\ SF_vars(SelectForceStop)
  /\ \A m \in Monkeys : /\ WF_vars(MonkeyRuns(m))
                        /\ WF_vars(MonkeyNoticesStop(m))
                        /\ WF_vars(MonkeyNoticesContext(m))
                        /\ WF_vars(MonkeyFallsAsleep(m))

Spec == Init /\ [][Next]_vars

FairSpec == Spec /\ Fairness

-----------------------------------------------------------------------------
(* Safety. *)

(* A monkey nobody told to stop is in the map, where the loop will find it, *)
(* and a monkey in the map was not told yet: no path of the handlers drops  *)
(* a goroutine without a Stop (or a sweep), or keeps a stopped one.         *)
MappedIffUntold ==
  \A m \in Monkeys :
    m \in Mapped <=> monkey[m] # Blank /\ monkey[m].told = "no"

(* Two entries of the map never share a monkey, and an entry's monkey works *)
(* on the deployment and in the mode the entry is for.                     *)
MapIsFaithful ==
  \A d \in Deployments : dw[d] # None =>
    /\ monkey[dw[d].monkey].dep = d
    /\ monkey[dw[d].monkey].mode = dw[d].mode

(* At most one DeploymentWatcher is alive per deployment, even while the    *)
(* previous one is still on its way home: the scales of two never mix.      *)
(* (crd.go:416-418 guards the map only; it is the registry that excludes a  *)
(* second one.)                                                            *)
SingleScaler ==
  \A m, n \in WaitGroup :
    /\ Key(m) = Key(n)
    /\ monkey[m].mode = "randomScale"
    => m = n

(* When Start returns, other than on an unrecoverable event, all of its     *)
(* monkeys have returned (crd.go:366-377).                                 *)
ReturnedMeansHome == pc = "done" => WaitGroup = {}

(* Each CMC only ever targets a deployment of its own. *)
Exclusive ==
  \A b, c \in Cmcs : \A s \in Desired[b], t \in Desired[c] :
    s.dep = t.dep <=> b = c

(* When every CMC has a deployment of its own, the map never contradicts    *)
(* the API server: a watcher whose CMC has no event under way has a CMC     *)
(* that exists, with the mode and the enabled flag the watcher has.         *)
MapReflectsApi ==
  Exclusive /\ watch = "open" /\ pc \in {"head", "select"} =>
    \A d \in Deployments : dw[d] # None =>
      LET c == dw[d].cmc
          w == monkey[dw[d].monkey]
      IN  \/ \E i \in DOMAIN queue : queue[i].cmc = c
          \/ cmcs[c] = [dep |-> d, mode |-> w.mode, enabled |-> w.enabled]

-----------------------------------------------------------------------------
(* Liveness. *)

Ended == pc \in {"done", "failed"}

(* A monkey that should be gone and that nothing but the context will bring *)
(* back: its Stop came before setRunning(true), found it asleep, or never   *)
(* came because cleanUp took it for dead while it was starting.            *)
Lost(m) == /\ monkey[m] # Blank
           /\ monkey[m].told # "no"
           /\ monkey[m].life \in {"running", "dozing", "asleep", "stuck"}

(* Cancelling the context, as main does on a signal, brings the loop and    *)
(* every monkey home, the orphans of a failed loop included.               *)
CancelBringsAllHome == ctxDone ~> Panicked \/ (Ended /\ WaitGroup = {})

(* A Stop from the namespace watcher ends the loop, unless from some moment *)
(* on there is always a lost monkey to wait for.                           *)
StopWaitsOnlyForLost ==
  ([]<>~(\E m \in Monkeys : Lost(m))) => (forceClosed ~> Ended \/ Panicked)

-----------------------------------------------------------------------------
(* Refinement. *)

(* What the namespace watcher sees of it. *)
Life == CASE pc = "new"                -> "starting"
          [] pc \in {"head", "select"} -> "looping"
          [] pc = "restarting"         -> "busy"
          [] pc = "waiting"            -> "leaving"
          [] Ended                     -> "returned"
          [] Panicked                  -> "panicked"

Abstract == INSTANCE Crd WITH life <- Life, stops <- IF forceClosed THEN 1 ELSE 0

(* The watcher is a Crd: the namespace watcher is right in what it assumes  *)
(* of it, in particular that it comes home when the context is cancelled,   *)
(* also from a restart in which it holds its Mutex.                         *)
IsCrd == Abstract!FairSpec

-----------------------------------------------------------------------------
(* What the documentation says, and the code does not do. *)

(* tests/kubetest.sh:184: "Checking that chaosmonkey did not crash even     *)
(* once". A monkey for a deployment whose previous monkey has not           *)
(* unregistered its metrics yet crashes the process.                       *)
NeverPanics == ~Panicked

(* README.md:32-33: the corresponding goroutine is stopped when a namespace *)
(* is deleted. A lost monkey keeps the loop waiting for ever.              *)
StopReturns == forceClosed ~> Ended \/ Panicked

(* README.md:67-68: the CRD watcher reacts to DELETED by stopping the       *)
(* goroutine. The monkey a CMC had before it was moved to another           *)
(* deployment stays behind.                                                *)
DeletedCmcHasNoMonkey ==
  watch = "open" /\ queue = <<>> /\ pc \in {"head", "select"} =>
    \A d \in Deployments : dw[d] # None => cmcs[dw[d].cmc] # None

(* crd_test.go:291: "The watcher should be stopped already", of a watcher   *)
(* that received an error event. The error events of the API server carry  *)
(* no CMC, and leave Running as it was.                                    *)
FailedIsNotRunning == pc = "failed" => ~running

(* README.md:274-288 lists the metrics of the pod watchers. Those of a      *)
(* running one disappear when its stopped predecessor returns.             *)
MetricsExposed ==
  \A m \in WaitGroup : m \in Mapped => Key(m) \in registry
=============================================================================
