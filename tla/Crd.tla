--------------------------------- MODULE Crd ---------------------------------
(***************************************************************************)
(* What the namespace watcher relies on: one CRD watcher, as the interface *)
(* Watcher (internal/watcher/types.go) and the Mutex of crd.go show it.    *)
(* CrdWatcher implements this, and NamespaceWatcher has one of it in each  *)
(* of its slots.                                                           *)
(***************************************************************************)
EXTENDS Naturals

VARIABLES life, running, stops, ctxDone

vars == <<life, running, stops, ctxDone>>

Init ==
  /\ life = "starting"
  /\ running = FALSE
  /\ stops = 0
  /\ ctxDone = FALSE

-----------------------------------------------------------------------------

Moves(from, to) ==
  /\ life = from /\ life' = to
  /\ UNCHANGED <<stops, ctxDone>>

(* The first Watch succeeds: setRunning(true), even after a Stop. *)
Runs == Moves("starting", "looping") /\ running' = TRUE

(* restartWatch, which holds the Mutex until it has waited for the monkeys. *)
Restarts == Moves("looping", "busy") /\ UNCHANGED running

Restarted == Moves("busy", "looping") /\ running' \in {running, FALSE}

(* The select sees the closed ForceStopChan or the cancelled context. *)
Notices ==
  /\ running /\ (stops > 0 \/ ctxDone)
  /\ Moves("looping", "looping")
  /\ running' = FALSE

(* The loop is over, and waits for the monkeys. *)
Leaves == ~running /\ Moves("looping", "leaving") /\ UNCHANGED running

Returns == Moves("leaving", "returned") /\ UNCHANGED running

(* The first Watch fails, or an error event ends the loop. *)
Fails ==
  \/ Moves("starting", "returned") /\ UNCHANGED running
  \/ Moves("looping", "returned") /\ running' \in {running, FALSE}

(* promauto panics, and the process is gone. *)
Panics == Moves("looping", "panicked") /\ UNCHANGED running

(* At most once, and not during a restart. *)
Stop ==
  /\ life \notin {"busy", "panicked"}
  /\ stops = 0 /\ stops' = 1
  /\ running' = FALSE
  /\ UNCHANGED <<life, ctxDone>>

Cancel ==
  /\ ~ctxDone /\ life # "panicked"
  /\ ctxDone' = TRUE
  /\ UNCHANGED <<life, running, stops>>

Next == \/ Runs
        \/ Restarts
        \/ Restarted
        \/ Notices
        \/ Leaves
        \/ Returns
        \/ Fails
        \/ Panics
        \/ Stop
        \/ Cancel

(* It comes home once the context is cancelled. *)
Fairness ==
  /\ WF_vars(ctxDone /\ Runs)
  /\ WF_vars(ctxDone /\ Restarted)
  /\ SF_vars(ctxDone /\ Notices)
  /\ SF_vars(ctxDone /\ Leaves)
  /\ WF_vars(ctxDone /\ Returns)

Spec == Init /\ [][Next]_vars

FairSpec == Spec /\ Fairness
=============================================================================
