----------------------------- MODULE ChaosMonkey -----------------------------
(***************************************************************************)
(* The whole process (cmd/chaosmonkey/main.go): the goroutine of main, the *)
(* namespace watcher with its CRD watchers, the two HTTP servers, and the  *)
(* health endpoint (internal/endpoints/health.go), whose CountWatchers     *)
(* walks from the namespace watcher to its children without their Mutex.   *)
(*                                                                         *)
(* Only main cancels the context, and only after both servers are shut     *)
(* down. Both servers share one mux. One health request on the first and   *)
(* one conversion (module Conversion has what it answers) on the second    *)
(* stand for all requests.                                                 *)
(***************************************************************************)
EXTENDS NamespaceWatcher

CONSTANTS Http, Https \* the servers on ports 9000 and 9443

Servers == {Http, Https}

ASSUME ServerAssumption == Http # Https

VARIABLES
  main,     \* where main is
  signal,   \* the channel s of capacity one holds a signal
  server,   \* the goroutine of each server: "starting", "serving" or "ended"
  shut,     \* servers that Shutdown was called for
  walk,     \* the health request: where CountWatchers is, or Idle
  converts, \* a conversion is under way
  fatal     \* the runtime ended the process for a concurrent use of a map

process == <<main, signal, server, shut>>
all == <<vars, process, walk, converts, fatal>>

(* at     "ranging" over CrdWatchers, or "popping" what was pushed          *)
(* stack  the CRD watchers pushed and not popped                            *)
(* count  watchers counted                                                 *)
(* stable namespaces that have kept their watcher since the walk began      *)
Walk == [at : {"ranging", "popping"}, stack : SUBSET Crds, count : Nat,
         stable : SUBSET Namespaces]

Idle == [at |-> "idle"]

ProcessTypeOK ==
  /\ TypeOK
  /\ main \in {"waiting", "closing http", "closing https", "cancelling", "joining", "exited"}
  /\ signal \in BOOLEAN
  /\ server \in [Servers -> {"starting", "serving", "ended"}]
  /\ shut \in SUBSET Servers
  /\ walk \in Walk \cup {Idle}
  /\ converts \in BOOLEAN
  /\ fatal \in BOOLEAN

ProcessInit ==
  /\ Init
  /\ main = "waiting"
  /\ signal = FALSE
  /\ server = [s \in Servers |-> "starting"]
  /\ shut = {}
  /\ walk = Idle
  /\ converts = FALSE
  /\ fatal = FALSE

Alive == ~fatal /\ ~Panicked /\ main # "exited"

-----------------------------------------------------------------------------
(* The watchers. *)

(* A step of the namespace watcher or of a CRD watcher. A write to the map  *)
(* that CountWatchers is ranging over may be noticed by the runtime.        *)
Watch(step) ==
  /\ Alive
  /\ step
  /\ fatal' \in IF walk.at = "ranging" /\ crds' # crds THEN BOOLEAN ELSE {FALSE}
  /\ walk' = IF walk = Idle THEN Idle
             ELSE [walk EXCEPT !.stable = {n \in @ : crds'[n] = crds[n]}]
  /\ UNCHANGED <<process, converts>>

-----------------------------------------------------------------------------
(* The servers. *)

ServerStep(s, from, to) ==
  /\ Alive
  /\ server[s] = from
  /\ server' = [server EXCEPT ![s] = to]
  /\ UNCHANGED <<vars, main, signal, shut, walk, converts, fatal>>

(* ListenAndServe has its port and its certificate. *)
Listens(s) == s \notin shut /\ ServerStep(s, "starting", "serving")

(* It does not, or Shutdown was called before; the process goes on.         *)
ListenFails(s) == ServerStep(s, "starting", "ended")

(* Shutdown was called: ListenAndServe returns, the handlers go on.         *)
ServerEnds(s) == s \in shut /\ ServerStep(s, "serving", "ended")

Answers(s) == server[s] = "serving" /\ s \notin shut

Conversion ==
  /\ Alive
  /\ converts \/ Answers(Https)
  /\ converts' = ~converts
  /\ UNCHANGED <<vars, process, walk, fatal>>

-----------------------------------------------------------------------------
(* The health endpoint. *)

WalkStep(record) ==
  /\ Alive
  /\ walk' = record
  /\ UNCHANGED <<vars, process, converts>>

(* The namespace watcher is pushed and popped. *)
HealthRequest ==
  /\ walk = Idle /\ Answers(Http)
  /\ WalkStep([at |-> "ranging", stack |-> {}, count |-> 0, stable |-> Watched])
  /\ UNCHANGED fatal

(* The range over CrdWatchers meets an entry. *)
Push(n) ==
  /\ walk.at = "ranging"
  /\ n \in Watched /\ crds[n] \notin walk.stack
  /\ WalkStep([walk EXCEPT !.stack = @ \cup {crds[n]}])
  /\ UNCHANGED fatal

(* It has met all those that were there all along. *)
Ranged ==
  /\ walk.at = "ranging"
  /\ \A n \in walk.stable : crds[n] \in walk.stack
  /\ WalkStep([walk EXCEPT !.at = "popping", !.count = @ + 1])
  /\ UNCHANGED fatal

(* A CRD watcher is popped and its map ranged over, which its goroutine may *)
(* be writing.                                                             *)
Pop(w) ==
  /\ walk.at = "popping" /\ w \in walk.stack
  /\ WalkStep([walk EXCEPT !.stack = @ \ {w}, !.count = @ + 1])
  /\ fatal' \in IF crd[w].life \in LiveStates THEN BOOLEAN ELSE {FALSE}

(* Mutant: the stack counts as empty with one element left. *)
HealthAnswersEarly ==
  /\ walk.at = "popping" /\ Cardinality(walk.stack) <= 1
  /\ WalkStep(Idle)
  /\ UNCHANGED fatal

(* ServeHTTP answers with the count. *)
HealthAnswers ==
  /\ walk.at = "popping" /\ walk.stack = {}
  /\ WalkStep(Idle)
  /\ UNCHANGED fatal

-----------------------------------------------------------------------------
(* The goroutine of main. *)

MainStep(from, to) ==
  /\ Alive
  /\ main = from
  /\ main' = to
  /\ UNCHANGED <<server, walk, converts, fatal>>

(* SIGINT, SIGTERM or SIGABRT: all but the first before main reads it are   *)
(* dropped.                                                                *)
Signal ==
  /\ Alive
  /\ ~signal /\ main = "waiting"
  /\ signal' = TRUE
  /\ UNCHANGED <<vars, main, server, shut, walk, converts, fatal>>

(* <-s, and the first half of httpServer.Shutdown. *)
MainReceives ==
  /\ signal
  /\ MainStep("waiting", "closing http")
  /\ signal' = FALSE
  /\ shut' = shut \cup {Http}
  /\ UNCHANGED vars

(* Mutant: the server is closed without waiting for its requests. *)
HttpClosedAtOnce ==
  /\ MainStep("closing http", "closing https")
  /\ shut' = shut \cup {Https}
  /\ UNCHANGED <<vars, signal>>

(* Mutant: the second server is forgotten. *)
HttpClosedOnly ==
  /\ walk = Idle
  /\ MainStep("closing http", "closing https")
  /\ UNCHANGED <<vars, signal, shut>>

(* httpServer.Shutdown returns when no request is left: it has no deadline. *)
HttpClosed ==
  /\ walk = Idle
  /\ MainStep("closing http", "closing https")
  /\ shut' = shut \cup {Https}
  /\ UNCHANGED <<vars, signal>>

HttpsClosed ==
  /\ ~converts
  /\ MainStep("closing https", "cancelling")
  /\ UNCHANGED <<vars, signal, shut>>

(* cancel() *)
MainCancels ==
  /\ MainStep("cancelling", "joining")
  /\ Cancel
  /\ UNCHANGED <<signal, shut>>

(* Mutant: main does not wait for the namespace watcher. *)
MainLeaves ==
  /\ \A s \in Servers : server[s] = "ended"
  /\ MainStep("joining", "exited")
  /\ UNCHANGED <<vars, signal, shut>>

(* wg.Wait() *)
MainExits ==
  /\ pc = "done" /\ \A s \in Servers : server[s] = "ended"
  /\ MainStep("joining", "exited")
  /\ UNCHANGED <<vars, signal, shut>>

-----------------------------------------------------------------------------

WalkNext == HealthRequest \/ (\E n \in Namespaces : Push(n)) \/ Ranged
            \/ (\E w \in Crds : Pop(w)) \/ HealthAnswers

WalkGoesOn == walk # Idle /\ WalkNext

MainNext == MainReceives \/ HttpClosed \/ HttpsClosed \/ MainCancels \/ MainExits

ServerNext(s) == Listens(s) \/ ListenFails(s) \/ ServerEnds(s)

ProcessNext ==
  \/ Watch(Api) \/ Watch(Loop) \/ Watch(SelectErrorEvent)
  \/ \E w \in Crds : Watch(CrdNext(w))
  \/ \E s \in Servers : ServerNext(s)
  \/ Conversion
  \/ WalkNext
  \/ Signal
  \/ MainNext

(* What NamespaceWatcher assumes of its own steps, and that every goroutine *)
(* of the process that can go on does: main, the servers, the handlers.     *)
ProcessFairness ==
  /\ WF_all(Watch(Loop))
  /\ SF_all(Watch(SelectContext))
  /\ \A w \in Crds : /\ WF_all(ctxDone /\ Watch(CrdRuns(w)))
                     /\ WF_all(ctxDone /\ Watch(CrdRestarted(w)))
                     /\ SF_all(ctxDone /\ Watch(CrdNotices(w)))
                     /\ SF_all(ctxDone /\ Watch(CrdLeaves(w)))
                     /\ WF_all(ctxDone /\ Watch(CrdReturns(w)))
  /\ WF_all(WalkGoesOn)
  /\ WF_all(converts /\ Conversion)
  /\ WF_all(MainNext)
  /\ \A s \in Servers : WF_all(ServerNext(s))

ProcessSpec == ProcessInit /\ [][ProcessNext]_all /\ ProcessFairness

-----------------------------------------------------------------------------
(* Safety. *)

(* The clean end of the process leaves nobody behind: no CRD watcher, no    *)
(* request and no server (main.go:98-115).                                 *)
ExitMeansHome ==
  main = "exited" =>
    WaitGroup = {} /\ walk = Idle /\ ~converts /\ \A s \in Servers : server[s] = "ended"

(* The shutdown, in which all the watchers empty their maps, never overlaps *)
(* a health request: main cancels the context after Shutdown has waited for *)
(* the last one (main.go:101-110).                                         *)
NoWalkAfterCancel == ctxDone => walk = Idle

(* A health request counts every CRD watcher that is in the map from its    *)
(* beginning to its end, whatever else is added and removed in between.     *)
CountCoversStable ==
  [][walk # Idle /\ walk' = Idle => walk.count > Cardinality(walk.stable)]_all

-----------------------------------------------------------------------------
(* Liveness. *)

(* A signal ends the process, also if the namespace watcher has returned,   *)
(* a server never came up or a request is under way.                       *)
SignalExits == signal ~> main = "exited" \/ fatal \/ Panicked

-----------------------------------------------------------------------------
(* What the documentation says, and the code does not do. *)

(* tests/kubetest.sh:184: "Checking that chaosmonkey did not crash even     *)
(* once". A health request ranges over maps that the watchers write.        *)
HealthNeverCrashes == ~fatal

(* README.md:300: "It can be used in Kubernetes for the liveness" probe. It *)
(* answers "up" when the namespace watcher has returned.                   *)
UpMeansRunning == walk # Idle => pc # "done"
=============================================================================
