# TLA+ models of chaos-monkey

These modules describe chaos-monkey as state machines: its watchers
(`internal/watcher`), its HTTP endpoints (`internal/endpoints`) with the two
versions of its API (`internal/apis`), and the process around them
(`cmd/chaosmonkey`). TLC checks them on small instances, and TLAPS proves the
safety of each component for instances of any size. `PROJECT.json` lists the
runs, maps each definition to the lines it models, and lists the hazards the
properties are aimed at.

    tlc -workers 2 -config CrdWatcher_safety.cfg CrdWatcherMC.tla
    tlapm CrdWatcher_proofs.tla

## The system

chaos-monkey is one process with a tree of goroutines. Each is a *watcher*: it
has `Start` (the loop), `Stop`, `IsRunning` and `Close`, and belongs to the one
that launched it.

| Component | State | Operations | Interacts with |
|---|---|---|---|
| `main` | context, signal channel, two HTTP servers, a `WaitGroup` | start the namespace watcher and the servers; on a signal shut the servers down, cancel the context and wait | everything, through the context |
| Namespace watcher (`namespace.go`) | `Running`, map `CrdWatchers`, gauge `cmcActive`, a watch stream, a `WaitGroup` | ADDED/MODIFIED/DELETED of namespaces, `cleanUp`, `restartWatch`, drain at the end | launches, stops and polls CRD watchers |
| CRD watcher (`crd.go`), one per namespace | `Running`, `ForceStopChan`, map `DeploymentWatchers`, a watch stream, a `WaitGroup` | ADDED/MODIFIED/DELETED of CMCs, `cleanUp`, `restartWatch`, `Stop` from the namespace watcher | launches, reconfigures, stops and polls monkeys |
| Deployment watcher (`deployment.go`), a monkey | `Running`, `Enabled`, replica bounds, timer, count of errors | on the timer: scale the deployment to a random number of replicas | setters and `Stop` called by the CRD watcher |
| Pod watcher (`pod.go`), a monkey | `Running`, `Enabled`, `PodList`, timer, a watch stream | follow the pods; on the timer: delete one at random | the same |
| Anti-HPA watcher (`antihpa.go`), a monkey | `Running`, `Enabled`, timer | on the timer: delete the pod that uses the most CPU | the same |
| Choice of the most used pod (`antihpa.go`) | a binary tree | insert each container, take the rightmost | called by the anti-HPA watcher |
| Prometheus registry | registered metrics | `promauto` registers and panics on a duplicate, `Unregister` goes by description | shared by all watchers |
| Health endpoint (`health.go`) | a stack of watchers, per request | counts the watchers in the maps | reads the maps without their Mutex |
| Conversion endpoint (`conversion.go`), API types (`v1`, `v1alpha1`) | none | converts CMCs between v1alpha1 and v1 | the API server, on behalf of clients of v1alpha1 |
| Configuration, generated client | none | parsing, serialisation | |

What is hard in it:

* **Stop is a flag and a best-effort wake-up.** It can come before the goroutine
  sets `Running`, between its check of `Running` and its `select`, while it is
  inside a call, or when it has returned already.
* **Metrics belong to goroutines, the map to the loop.** A watcher leaves the
  map when it is stopped, and the registry when its goroutine returns. In
  between its successor may be created.
* **Waiting with the Mutex held.** `restartWatch` of the CRD watcher waits for
  its monkeys with its Mutex locked; the namespace watcher needs that Mutex,
  with its own locked.
* **Watches end.** Events are lost, everything is stopped, waited for, and
  listed again.
* **Polling** (`cleanUp`) confuses a watcher that is starting with a dead one.
* **Timers** are re-armed by other events, or not at all.
* **Health requests walk maps that change**, and must not meet the shutdown.
* **A client of the old API** edits what it read a while ago, through two
  conversions, while others edit the new one; fields may be missing, and a
  timeout has a default in three places.

What makes each component correct: the map and the goroutines agree; nobody is
dropped without being told to stop; two scalers never work on one deployment;
the map follows the API server; a watcher that was disabled or stopped acts at
most once more; cancelling the context ends everything; `Start` returns only
when all children have; a signal ends the process and leaves nobody behind; an
edit through the old API changes what it edits and nothing else.

## Modules

| Module | Models | |
|---|---|---|
| `CrdWatcher` | `crd.go`, with the monkeys as far as it can see them, the registry, the API server and its caller | `CrdWatcherMC`, `CrdWatcher_proofs`; implements `Crd` |
| `Crd` | the interface `Watcher` of a CRD watcher: what `NamespaceWatcher` assumes of one | abstract specification |
| `NamespaceWatcher` | `namespace.go`, with the CRD watchers as far as it can see them, the registry and the API server | `NamespaceWatcherMC`, `NamespaceWatcher_proofs` |
| `ChaosMonkey` | `main.go` and `health.go`, composed with `NamespaceWatcher`, which it extends | `ChaosMonkeyMC`, `ChaosMonkey_proofs` |
| `Monkey` | the interface `ConfigurableWatcher`: what `CrdWatcher` assumes of a monkey | abstract specification |
| `DeploymentWatcher` | `deployment.go` | `DeploymentWatcherMC`, `DeploymentWatcher_proofs`; implements `Monkey` |
| `PodWatcher` | `pod.go` | `PodWatcherMC`, `PodWatcher_proofs`; implements `Monkey` |
| `AntiHPAWatcher` | `antihpa.go`, the loop | `AntiHPAWatcher_proofs`; implements `Monkey` |
| `MostUsedPod` | `antihpa.go`, the choice of the victim | |
| `AntiPressure` | `AntiHPAWatcher`, which it extends, composed with `MostUsedPod` | `AntiPressure_proofs`; implements `AntiHPAWatcher` and `Monkey` |
| `Conversion` | `conversion.go` and the API types, with the API server and its clients | `ConversionMC`, `Conversion_proofs` |

The three monkeys and `CrdWatcher` meet in `Monkey`. It has, for one monkey, the
same states (`starting`, `running`, `dozing`, `asleep`, `stopping`, `stuck`,
`done`) and steps as `CrdWatcher` has for each of its monkeys; the property
`IsMonkey` of each of the three says that it takes no other steps (safety) and
comes home when the model of the CRD watcher says it does (liveness). What is
checked of the CRD watcher therefore does not rest on a guess about its
children. `Crd` plays the same part one level up. It has one CRD watcher's
states (`starting`, `looping`, `busy`, `leaving`, `returned`) and steps as
`NamespaceWatcher` has them for each of its slots; `IsCrd` says that `CrdWatcher`
takes no others, and comes home once the context is cancelled. It need not come
home after a `Stop`.

### State and actions

`pc` says where `Start` is: `new`, at the `head` of the loop (`for
c.IsRunning()`), in the `select`, or inside a handler that is interleaved with
others. A case of the `select` is an action `Select...`; a handler that runs
under the Mutex and does not wait is one action, called `Handle...`. A handler
that waits (for the `WaitGroup`, or for the Mutex of a child) or that makes a
call another goroutine can interleave with is split there:

* `restartWatch` is `SelectClosed`, then in `NamespaceWatcher` a `StopOne` per
  child (each needs the child's Mutex), then `RestartWatches` or `RestartFails`,
  which wait for the `WaitGroup`.
* `removeWatcher`, `cleanUp` and the drain of the namespace watcher visit the
  children in `todo` one at a time, in any order.
* A tick of the deployment watcher is `SelectTimer`, `Draw`, `AtLeastMin`,
  `Scale`, `CheckErrors`: each reads one field under the Mutex. A modification is
  `SetEnabled`, `SetMinReplicas`, `SetMaxReplicas`.
* A health request is `HealthRequest`, a `Push` per entry of the map, `Ranged`, a
  `Pop` per CRD watcher and `HealthAnswers`; the watchers take steps between any
  two of them. A write to a map that is being ranged over may be noticed by the
  Go runtime, which ends the process: `fatal` is then set or not.
* The shutdown is `MainReceives`, `HttpClosed`, `HttpsClosed`, `MainCancels`,
  `MainExits`, one per call of `main` that waits.
* A conversion is one step, `Serve`: the endpoint has no state. Around it a
  request is sent (`OldList`, `OldEdit`, `OldCreate`) and its answer used
  (`ListReturns`, `UpdateReturns`, `CreateReturns`), with writes through v1
  (`V1Write`, `V1Delete`) in between.
* A call of `getMostUsedPod` is a step per visit of a node: `insert` and
  `getMostUsedCpu` call themselves on a child as their last act, so that a call is
  a walk of the pointer `at` over the nodes (`Visit`, `Descend`, `Attach`; `GoRight`,
  `Choose`). A node goes by the position of the container it was made for.
* `LoopAgain` and `EnterSelect` of the deployment and pod watchers are separate:
  a send on `ForceStopChan` in between has no receiver, and `Stop` gives it up.

Creating and launching a child (`Launch`, `AddAndStart`) is one action: the loop
is the only writer of the map, and a child whose goroutine has not been
launched is indistinguishable from one that has not run yet. A panic of
`promauto` or of a type assertion is a value of `pc` from which nothing
continues, as the process is gone.

### Abstractions

* Values the properties do not tell apart: names, log lines, Kubernetes events,
  counters and histograms, and in `CrdWatcher` replica bounds and timeouts.
* A deployment's selector is identified with the deployment. (The code builds
  it by iterating over a map of labels, so that with several labels the order,
  and with it the key of the metrics, may differ from one time to the next.)
* The metrics of one watcher are one element of the registry.
* Time: `select` may take a timer case whenever it is armed. Only `PodWatcher`
  counts ticks, because there it matters what re-arms the timer; its timer is
  that of Go 1.22 (`go.mod`), whose channel keeps a value over a `Reset`.
* The list of pods is a bag, since the victim is drawn at random from it.
* One health request and one conversion at a time stand for all: they share
  nothing. The monkeys the health request also counts are left out, as they have
  no children.
* A timeout is a text of a small set; what `time.ParseDuration` and `String` make
  of it are constants. `TimeoutAssumption` is what is needed of them: parsing what
  `String` wrote gives the same duration.
* Of the metadata the conversions copy, `Conversion` has the name and the
  `resourceVersion`. The API server and the schema's defaults are modelled from
  what the repository relies on: one stored version, optimistic concurrency,
  an answer that must have the same objects in the same order.
* A watch is a queue of events; when it ends the queue is lost. A new one starts
  with an ADDED event per existing object, in any order.
* `DeploymentAssumption`: `minReplicas <= maxReplicas`, which the schema of the
  CRD validates.
* `MostUsedPod` models `Quantity.AsInt64` on quantities in the canonical form
  the API server sends: it converts whole numbers of cores and nothing else.

## What the runs check

| Run | Instance | States | Shows |
|---|---|---|---|
| `CrdWatcher_safety` | 2 CMCs, 1 deployment, 3 modes, 2 slots, queue of 1 | 1.35 M | `MappedIffUntold`, `MapIsFaithful`, `SingleScaler`, `ReturnedMeansHome` |
| `CrdWatcher_live` | 1 CMC, 1 deployment, randomScale and antiPressure, enabled or not, 2 slots | 184 k | `MapReflectsApi`, `CancelBringsAllHome`, `StopWaitsOnlyForLost`, `IsCrd` |
| `NamespaceWatcher_safety` | 2 namespaces, 3 labels, both behaviours, 3 slots | 636 k | `StoppedExactlyOnce`, `SingleWatcher`, `WatchedIsAllowed`, `GaugeCovers` |
| `ChaosMonkey` | 1 namespace, 1 slot, both behaviours, both servers | 133 k | `ExitMeansHome`, `NoWalkAfterCancel`, `CountCoversStable`, `SignalExits` |
| `DeploymentWatcher` | 3 configurations, two of them with disjoint bounds | 11 k | `ScaleWithinHull`, `AtMostOneLateScale`, `BailsOutOnFifth`, `LateStopEnds`, `IsMonkey` |
| `PodWatcher` | 2 pods, timeouts of 1 and 2 ticks, queue of 2 | 151 k | `ListReflectsApi`, `AtMostOneLateKill`, `IsMonkey`, `SettledClusterIsDisturbed` |
| `AntiPressure` | 2 pods, up to 3 containers, 4 usages | 187 k | `AtMostOneLateDelete`, `TreeIsSorted`, `ChoosesLastHighest`, `IsMonkey`, `EnabledRunsRegularly` |
| `Conversion` | 2 objects, 5 specs of each version, up to 3 writes | 430 k | `ViewIsFaithful`, `OldEditDoesJustThat`, `ListIsAllOrNothing`, `NothingHalfConverted` |

The comments of the properties say what each means. Why the bounds are enough:

* *Slots* (`Monkeys`, `Crds`) bound how many goroutines exist at once. A
  hazard here involves a predecessor that is on its way home and its successor,
  hence two; the theorems below hold for any number. `Launch` waits for a slot,
  so that the bound cuts behaviours off and does not create new ones.
* *Queues*: one event under way already separates what the watcher knows from
  what the API server has; the changes a longer queue would hold can follow one
  another. Without an open watch changes are not bounded.
* `MaxActive` bounds the gauge of the namespace watcher, which grows without
  limit as clean-ups and new watchers alternate (see below).
* One CRD watcher in `ChaosMonkey` is enough for a walk to be overtaken by a
  removal and an addition; the theorems hold for any number.
* Three writes in `Conversion` let an object be created, read through v1alpha1,
  replaced through v1, and edited from the stale copy; `ConversionMC` has each
  mode, a timeout that parses, one that is not canonical, one that does not parse
  and one that is missing.
* With its one deployment `CrdWatcher_safety` checks of `MapIsFaithful` the modes
  only, and `ChaosMonkey`, with one namespace, `CountCoversStable` for walks of one
  entry; the theorems `MapMatchesGoroutines` and `HealthCountsAll` have any number.
* Five errors in a row happen: the bound is the code's own.
* Deadlock is checked in `Conversion` only: every watcher, and the process, is
  meant to end.

The symmetries used permute slots, and in the namespace watcher namespaces; no
run with a symmetry checks a liveness property.

What some of the properties leave out, on purpose:

* `ReturnedMeansHome` and `ExitMeansHome` do not speak of the monkeys a CRD watcher
  leaves behind when it fails (`crd.go:345`), nor does any safety property: `Start`
  does return without them. `CancelBringsAllHome` includes them.
* `MappedIffUntold` and `StopWaitsOnlyForLost` accept that a clean-up sweeps a live
  monkey; `Monkey`, and with it `IsMonkey`, has the `Stop` that is lost. That these
  happen is what the runs that end in a violation, and the table below, show.
* `MapIsFaithful` and `MapReflectsApi` speak of the entries the map has. A CMC whose
  monkey could not be replaced (`crd.go:523`) has none, and nothing forbids it.
* `WatchedIsAllowed` and `GaugeCovers` hold in one direction; the other one is
  refuted, as the table says.

The hazards in `PROJECT.json` list the properties that would catch each, and
say in a note where that property is one of the refuted ones or where there is none.

### Fairness

* The loop of a watcher continues: calls to the API server return. (`FairSpec`
  has `WF` of the loop's steps together.)
* A Go `select` chooses at random among the ready cases, so that a case that is
  ready again and again is taken: `SF` of the context, of the closed
  `ForceStopChan` and of the pod watcher's timer.
* `main`, the goroutines of the servers and the handlers of requests continue
  when they can (`WF`). No new request is assumed, nor that a server comes up.
* Goroutines that were launched run. In `NamespaceWatcher` only after the context
  is cancelled, for that is all the CRD watchers promise.
* Nothing is assumed of the API server (events, ends of watches, error events),
  of users, or of calls to `Stop`. `SettledClusterIsDisturbed` has its
  assumption in the formula.

### Where the code departs from what is said of it

Four runs end in a violation on purpose:

* `CrdWatcher_pressure`: `AntiHPAWatcher.Close` does not unregister the metrics
  (`antihpa.go:132`), so the second antiPressure monkey of a deployment panics in
  `promauto` and takes the process down. It takes no more than a watch that
  times out.
* `CrdWatcher_stop`: a `Stop` that comes before `setRunning(true)`
  (`deployment.go:167`, `pod.go:185`, `antihpa.go:233`) is lost. The loop waits
  for that monkey, possibly with its Mutex locked, until the context is
  cancelled. `StopWaitsOnlyForLost` shows that lost monkeys are the only reason.
* `AntiHPAWatcher_reenabled`: the timer of a disabled watcher is not re-armed
  (`antihpa.go:240`); enabling it later has no effect.
* `MostUsedPod_fraction`: usages that are not whole numbers of cores are
  skipped (`antihpa.go:203`).

The modules state further promises of the documentation and the tests, at the
end of each. TLC refutes every one of them when it is put in place of the
properties of the run named; the weaker property that does hold is on the right.

| Formula | Run | What happens | What holds |
|---|---|---|---|
| `NeverPanics` | `CrdWatcher_safety` | in any mode, a successor is created before its predecessor has unregistered (`crd.go:434-443`, `540-548`) | `SingleScaler` |
| `DeletedCmcHasNoMonkey` | `CrdWatcher_safety` with `Desired <- DesiredMoving`, `Cmcs = {c1}`, `Deployments = {d1, d2}` | the monkey of a CMC's previous target is never stopped (`crd.go:508`, `612`) | `MapReflectsApi` |
| `FailedIsNotRunning` | `CrdWatcher_safety` | an error event carries a Status; `Start` returns with `Running` still set (`crd.go:238`) | |
| `MetricsExposed` | `CrdWatcher_safety` | the second `unregister` of a pod watcher hits its successor's metrics (`pod.go:283`, `44`) | `Core` of the proofs, for scalers |
| `GaugeIsExact` | `NamespaceWatcher_safety` | `cleanUp` does not count down (`namespace.go:393`) | `GaugeCovers` |
| `AllowedIsWatched` | `NamespaceWatcher_safety` | a failed CRD watcher is not replaced (`namespace.go:393`) | `WatchedIsAllowed` |
| `ReAddDoesNotPanic` | `NamespaceWatcher_safety` | as `NeverPanics`, one level up (`namespace.go:360`) | `SingleWatcher` |
| `ErrorEventIsHandled` | `NamespaceWatcher_safety`, `PodWatcher` | the type assertion panics before the check for errors (`namespace.go:252`, `pod.go:203`) | |
| `ScaleWithinConfiguration` | `DeploymentWatcher` | old maximum, new minimum (`deployment.go:180`) | `ScaleWithinHull` |
| `KillsRegularly` | `PodWatcher` | every event resets the timer (`pod.go:261`) | `SettledClusterIsDisturbed` |
| `GaugeShowsList` | `PodWatcher` | a restart leaves the gauge (`pod.go:351`) | `ListReflectsApi` |
| `RespectsMinReplicas` | `AntiHPAWatcher_reenabled` | nothing reads `minReplicas` (`antihpa.go:92`) | |
| `HealthNeverCrashes` | `ChaosMonkey` | a health request ranges over a map that a watcher writes (`health.go:79`, `88`) | `CountCoversStable`, `NoWalkAfterCancel` |
| `UpMeansRunning` | `ChaosMonkey` | a namespace watcher whose first watch failed is reported as up (`health.go:138`) | |
| `OneReply` | `Conversion` | a failed conversion to v1 writes a failure and a success (`conversion.go:195-201`) | `NothingHalfConverted` |
| `EditKeepsTheMode` | `Conversion` | antiPressure becomes randomScale (`conversion.go:120`, `156`) | `OldEditDoesJustThat` |
| `ActedOnIsListed` | `Conversion` | a configuration without a timeout has a monkey, but cannot be converted (`v1/types.go:211`) | `ListIsAllOrNothing` |

## What is proved

Eight modules hold proofs, of every safety invariant and every action property
that the runs check, and of the safety part of each refinement. They start from
the named assumptions on the constants alone, and hold for any values of them:

| Module | What is proved of the specification |
|---|---|
| `CrdWatcher_proofs` | `MappedIffUntold`, `MapIsFaithful`, `SingleScaler`, `ReturnedMeansHome`, `MapReflectsApi`; it implements `Crd` (`ImplementsCrd`), and its monkeys follow `Monkey` (`SlotsFollowMonkey`) |
| `NamespaceWatcher_proofs` | `StoppedExactlyOnce`, `SingleWatcher`, `GaugeCovers`, `ReturnedMeansHome`, `WatchedIsAllowed`; its CRD watchers follow `Crd` (`SlotsFollowCrd`) |
| `ChaosMonkey_proofs` | `ExitMeansHome`, `NoWalkAfterCancel`, the action property `CountCoversStable`; it implements `NamespaceWatcher` (`ProcessImplementsWatcher`) |
| `DeploymentWatcher_proofs` | `ScaleWithinHull`, `AtMostOneLateScale`, `BailsOutOnFifth`; it implements `Monkey` (`ImplementsMonkey`) |
| `PodWatcher_proofs` | `AtMostOneLateKill`, `ListReflectsApi`; it implements `Monkey` |
| `AntiHPAWatcher_proofs` | `AtMostOneLateDelete`; it implements `Monkey` |
| `AntiPressure_proofs` | `TreeIsSorted`, `ChoosesLastHighest`; it implements `AntiHPAWatcher` (`TickImplementsWatcher`) |
| `Conversion_proofs` | `ViewIsFaithful`, the action properties `OldEditDoesJustThat`, `NothingHalfConverted` and `ListIsAllOrNothing` |

and the type invariant of each. Two of the theorems have no run of their own:
that the namespace watcher leaves nobody behind (`ReturnedMeansHome`), which the
run `ChaosMonkey` checks as part of `ExitMeansHome`, and the type invariant of the
process (`ProcessTypeOK`).

### How the components fit together

Each level is proved against an abstract specification of the one below, and
that one is proved to implement it:

* The process implements the specification of the namespace watcher
  (`ProcessImplementsWatcher`): main, the servers and the requests touch nothing
  of it but the context. So `ProcessWatchesRightly` and `ProcessSlotsFollowCrd`
  follow from the theorems about `NamespaceWatcher` alone.
* A slot of the namespace watcher holds nothing, or a CRD watcher that takes
  steps of `Crd` (`SlotsFollowCrd`); `CrdWatcher` implements `Crd` (`ImplementsCrd`).
* A slot of the CRD watcher holds nothing, or a monkey that takes steps of
  `Monkey` (`SlotsFollowMonkey`); each of the three implements `Monkey`
  (`ImplementsMonkey`), the anti-HPA watcher with the choice of its victim included
  (`TickWatchesRightly`).

A slot is used again after its tenant has returned. `SlotStep` says so: a step is
one of the abstract specification, with the slot for its variables, or leaves it
alone, or its tenant returns and the slot is empty at once (where nobody could tell
the two apart), or a new tenant, about to start, takes a vacant slot. Because of
the tenants that follow each other these theorems are about steps, and those
about one monkey or CRD watcher about behaviours.

### The CRD watcher

From `CrdAssumption`: the CMCs are finitely many, their specs are specs, `None`
is none of the values it is told apart from. None of the properties is
inductive. That two deployment watchers exclude each
other is not visible in the map, from which the first is long gone: what
excludes them is that a live one keeps its metrics registered, because nothing
but its own return unregisters them. And that is true only because two live
ones never share a key. The invariant `Core` therefore joins, for a state of
the slots, the map and the registry:

1. an entry of the map points to a watcher that was not told to go, for that
   deployment and that mode;
2. a watcher that was not told is the one in the map's entry for its deployment;
3. live deployment watchers of one deployment are equal;
4. the key of a live deployment watcher is registered.

`Core` takes the three as parameters, not as variables: the handler of a
MODIFIED event takes one watcher out and puts another in within one step, and
the lemmas about removal (`RemovalKeepsCore`) and launch (`LaunchKeepsCore`) are
composed at a state that is no state of the behaviour. The other lemmas follow
the actions: what a monkey does in its slot (`ChangeKeepsCore`,
`ReturnKeepsCore`), stops (`StopKeepsCore`, `StopAllKeepsCore`), the clean-up
(`SweepKeepsCore`), then one lemma per group of actions and `NextIInv`.
`StartLeavesNobody` needs besides that nobody launches once the loop is over.

`MapReflectsApi` is about a CMC without an event under way, and needs to know
what those under way mean. `FollowInv` says, while the loop follows a watch, that
the last event about a CMC shows it as it is (`Stream`), that an ADDED is the first
event of a CMC without a monkey, or follows a DELETED (`Fresh`), and that an entry
of the map is for a deployment its CMC may target (`Aims`). When there is no watch
yet, or none any more, the map is empty.

For `ImplementsCrd` the invariant is `IInv`: what the namespace watcher sees of the
loop is a function of `pc`, `running` and the context.

### The namespace watcher and the process

`Core` of `NamespaceWatcher_proofs` is the same argument on namespaces: a live
CRD watcher keeps its namespace registered. `Visits` says that whoever is still
to be visited is in the map, so that each is stopped by the step that takes it
out; `Returned`, that nobody is launched after the loop. `GaugeCovers` is a
cardinality argument on top of them.

`WatchedIsAllowed` needs to know what the events under way mean (`QInv`): the
last one about a namespace shows it as it is (`LastIsTrue`), and an ADDED is about
a namespace that is not watched or is removed first (`AddedIsNew`). Without the
second a relabelled namespace could stay watched because of an ADDED the loop
ignores. `PodWatcher_proofs` has the same two for pods and the list, where
`AddedIsNew` excludes duplicates.

`ChaosMonkey_proofs` adds `Shutdown`, the stages of `main`: what has been waited
for does not come back, because its server was told to shut down before. And
`Counts`: while a health request pops its stack, what it has counted and what is
left on the stack exceed the namespaces that kept their watcher. The step from
the range to the stack needs that different namespaces have different watchers,
which is in `Core`.

### The monkeys

`Settled`, in all three, is why one late action is the most: a watcher that has
acted once too often finds itself disabled, or `Running` cleared, before it acts
again; and `Running` stays cleared because `setRunning(true)` lies behind.
`DeploymentWatcher_proofs` also carries which configuration each of the two
bounds is from (`FieldsInForce`, `DrawnInForce`), and that the count of errors is
the number of refusals in a row (`CountIsExact`).

### The choice of the pod

Nothing in the nodes says why they hang where they do. What does is the order in
which they came: node `j` `Follows` node `i` if all nodes older than `i` send `j` to the
side they send `i` to. `Hanging` says that the left child of a node is the oldest of
the younger ones that follow it and use less, or none if there is none, and the
right child likewise. From this alone a walk that starts at the root keeps
following (`FollowsOn`), and ends at the only node that lacks the child that the
next container has to be (`OneVacancy`), so that insert preserves `Hanging`. The
walk to the right, the same lemma says, leaves behind only nodes that use less,
or as much and are older. `Whole` says that every node hangs from the root. There
is no induction on the tree: each step of the walk is a step of the system, and
`Subtree` is the least set that has the children of its nodes.

### The conversion

First lemmas on one object: what each conversion returns, and that the result
`Describes` what the monkeys are configured with; `RoundTrip` follows. Then an
invariant on the request and the answer under way: what they carry is what is
stored, as long as the `resourceVersion` is the same. From `TimeoutAssumption` and
`ConversionAssumption`.

### Only model-checked

* All liveness: `CancelBringsAllHome`, `StopWaitsOnlyForLost`, `SignalExits`,
  `LateStopEnds`, `SettledClusterIsDisturbed`, `EnabledRunsRegularly`, and the fairness
  that `IsMonkey` and `IsCrd` promise. Fairness and ENABLED are out of the prover's
  reach.

## Not modelled

Reading the configuration from the environment (parsing), what `main` does
before it starts anything, `MarshalJSON` (nothing in the program writes a
configuration through it), the generated client, informers and deep copies,
manifests and scripts: none has state of its own. `SetTimeout` of the deployment
and anti-HPA watchers, whose timers may fire at any time in the models. Of the
metrics, only their registration and the gauges `cmcActive` and `podsActive`.

## What could follow

* Clocks in the deployment and anti-HPA watchers, as in `PodWatcher`.
