----------------------- MODULE NamespaceWatcher_proofs -----------------------
(***************************************************************************)
(* Proofs about NamespaceWatcher, for any namespaces, slots and bounds.    *)
(***************************************************************************)
EXTENDS NamespaceWatcher, FiniteSetTheorems, SequenceTheorems, TLAPS

(* The map, the CRD watchers and the registry: an entry of the map is a     *)
(* watcher for its namespace, one that has returned is still in the map,    *)
(* and one that has not is registered. The registry is what excludes two    *)
(* watchers of one namespace: the first is no longer in the map.           *)
Core ==
  /\ \A n \in Watched : crd[crds[n]] # Blank /\ crd[crds[n]].ns = n
  /\ StoppedExactlyOnce
  /\ \A w \in Crds : crd[w] # Blank /\ w \notin Mapped => w \in WaitGroup
  /\ \A w \in WaitGroup : crd[w].ns \in registry
  /\ SingleWatcher

(* The namespaces still to visit are watched, and when all are to be        *)
(* visited, the others are not.                                            *)
Visits ==
  /\ pc \in {"removing", "sweeping", "restarting", "draining"} => todo \subseteq Watched
  /\ pc \in {"restarting", "draining"} => Watched \subseteq todo
  /\ pc = "new" => Watched = {}

Returned == pc \in {"new", "done"} => WaitGroup = {}

IInv == TypeOK /\ Core /\ Visits /\ GaugeCovers /\ Returned

Active == watch = "open" /\ pc \in {"head", "select", "removing", "sweeping"}

(* No event of queue at the positions of S is about n. *)
Silent(n, S) == \A k \in S : queue[k].ns # n

Leaving(n) == n \notin Watched \/ (pc = "removing" /\ n \in todo)

(* The last event about a namespace, if one is under way, shows it as it is. *)
LastIsTrue ==
  \A n \in Namespaces :
    \/ Silent(n, DOMAIN queue)
    \/ \E i \in DOMAIN queue :
         /\ queue[i].ns = n /\ Silent(n, i + 1 .. Len(queue))
         /\ queue[i].type = "DELETED" <=> nss[n] = None
         /\ nss[n] # None => queue[i].label = nss[n]

(* A namespace is reported as new only when it is not watched, or will not  *)
(* be any more after the event before.                                     *)
AddedIsNew ==
  \A i \in DOMAIN queue : queue[i].type = "ADDED" =>
    \/ Silent(queue[i].ns, 1 .. i - 1) /\ Leaving(queue[i].ns)
    \/ \E j \in 1 .. i - 1 :
         /\ queue[j].ns = queue[i].ns /\ queue[j].type = "DELETED"
         /\ Silent(queue[i].ns, j + 1 .. i - 1)

QInv ==
  /\ pc \in {"new", "restarting"} => watch # "open"
  /\ pc = "removing" => \A m, n \in todo : m = n
  /\ Active => LastIsTrue /\ AddedIsNew /\ WatchedIsAllowed

USE NamespaceAssumption

-----------------------------------------------------------------------------
(* The CRD watchers. *)

LEMMA SlotFacts ==
  ASSUME TypeOK, NEW w \in Crds
  PROVE  /\ crd[w] = Blank \/ crd[w] \in Crd
         /\ Blank \notin Crd
         /\ w \in WaitGroup <=> crd[w].life \in LiveStates
         /\ w \in WaitGroup => crd[w] \in Crd /\ crd[w] # Blank
<1>1. crd[w] = Blank \/ crd[w] \in Crd
  BY DEF TypeOK
<1>2. Blank.life = "none" /\ \A r \in Crd : r.life # "none"
  BY DEF Blank, Crd, LiveStates
<1>3. w \in WaitGroup <=> crd[w].life \in LiveStates
  BY DEF WaitGroup
<1>4. "none" \notin LiveStates
  BY DEF LiveStates
<1> QED BY <1>1, <1>2, <1>3, <1>4

(* A watcher goes on: neither its namespace nor the number of its stops     *)
(* changes.                                                                *)
LEMMA MoveKeepsCore ==
  ASSUME TypeOK, Core, NEW w \in Crds, w \in WaitGroup,
         NEW r \in Crd, r.life \in LiveStates,
         r.ns = crd[w].ns, r.stops = crd[w].stops,
         crd' = [crd EXCEPT ![w] = r], UNCHANGED <<crds, registry>>
  PROVE  Core' /\ WaitGroup' = WaitGroup
<1>1. /\ crd'[w] = r /\ crd[w] # Blank /\ r # Blank
      /\ \A v \in Crds : v # w => crd'[v] = crd[v]
  BY SlotFacts DEF TypeOK
<1>2. Mapped' = Mapped /\ Watched' = Watched
  BY DEF Mapped, Watched
<1>3. WaitGroup' = WaitGroup
  BY <1>1 DEF WaitGroup
<1>4. \A v \in Crds : /\ crd'[v] = Blank <=> crd[v] = Blank
                      /\ crd[v] # Blank => crd'[v].ns = crd[v].ns /\ crd'[v].stops = crd[v].stops
  BY <1>1
<1>5. \A n \in Watched : crds[n] \in Crds
  BY DEF TypeOK, Watched
<1>6. \A v \in WaitGroup : v \in Crds /\ crd[v] # Blank
  BY SlotFacts DEF WaitGroup
<1>7. StoppedExactlyOnce' /\ SingleWatcher'
  BY <1>2, <1>3, <1>4, <1>6 DEF Core, StoppedExactlyOnce, SingleWatcher
<1>8. \A n \in Watched : crd'[crds[n]] # Blank /\ crd'[crds[n]].ns = n
  BY <1>4, <1>5 DEF Core
<1>9. \A v \in WaitGroup : crd'[v].ns \in registry
  BY <1>4, <1>6 DEF Core
<1> QED BY <1>2, <1>3, <1>4, <1>7, <1>8, <1>9 DEF Core

(* A watcher returns, and takes its metrics with it: no other was using     *)
(* them.                                                                   *)
LEMMA ReturnKeepsCore ==
  ASSUME TypeOK, Core, NEW w \in Crds, w \in WaitGroup,
         NEW r \in Crd, r.life = "returned",
         r.ns = crd[w].ns, r.stops = crd[w].stops, CrdReturn(w, r)
  PROVE  Core' /\ WaitGroup' = WaitGroup \ {w}
<1> DEFINE new == IF w \in Mapped THEN r ELSE Blank
<1>1. /\ crd'[w] = new /\ crd[w] # Blank /\ r # Blank
      /\ \A v \in Crds : v # w => crd'[v] = crd[v]
      /\ registry' = registry \ {crd[w].ns} /\ crds' = crds
  BY SlotFacts DEF TypeOK, CrdReturn
<1>2. Mapped' = Mapped /\ Watched' = Watched
  BY <1>1 DEF Mapped, Watched
<1>3. new.life \notin LiveStates
  BY DEF LiveStates, Blank
<1>4. WaitGroup' = WaitGroup \ {w}
  BY <1>1, <1>3 DEF WaitGroup
<1>5. \A v \in WaitGroup \ {w} : /\ v \in Crds /\ crd'[v] = crd[v]
                                 /\ crd[v].ns # crd[w].ns
  BY <1>1 DEF WaitGroup, Core, SingleWatcher
<1>6. \A n \in Watched : crds[n] \in Crds /\ crds[n] \in Mapped
  BY DEF TypeOK, Watched, Mapped
<1>7. \A n \in Watched : crd'[crds[n]] # Blank /\ crd'[crds[n]].ns = n
  BY <1>1, <1>6 DEF Core
<1>8. StoppedExactlyOnce'
  BY <1>1, <1>2 DEF Core, StoppedExactlyOnce
<1>9. SingleWatcher' /\ \A v \in WaitGroup' : crd'[v].ns \in registry'
  BY <1>1, <1>4, <1>5 DEF Core, SingleWatcher
<1>10. ASSUME NEW v \in Crds, crd'[v] # Blank, v \notin Mapped PROVE v \in WaitGroup'
  <2>1. v # w
    BY <1>1, <1>10
  <2>2. crd[v] # Blank
    BY <1>1, <1>10, <2>1
  <2> QED BY <1>4, <1>10, <2>1, <2>2 DEF Core
<1> QED BY <1>1, <1>2, <1>4, <1>7, <1>8, <1>9, <1>10 DEF Core

(* A watcher is stopped and leaves the map, in one step: no other entry of  *)
(* the map refers to it.                                                   *)
LEMMA ForgetKeepsCore ==
  ASSUME TypeOK, Core, NEW n \in Watched, StopAndForget(n)
  PROVE  /\ Core' /\ Watched' = Watched \ {n}
         /\ WaitGroup' = WaitGroup
         /\ crds' \in [Namespaces -> Crds \cup {None}]
         /\ crd' \in [Crds -> Crd \cup {Blank}]
         /\ UNCHANGED registry
<1> DEFINE w == crds[n]
           stopped == [crd[w] EXCEPT !.running = FALSE,
                                     !.stops = IF @ < 2 THEN @ + 1 ELSE @]
           new == IF stopped.life = "returned" THEN Blank ELSE stopped
<1>1. n \in Namespaces /\ w \in Crds /\ w # None /\ w \in Mapped
  BY DEF Watched, Mapped, TypeOK
<1>2. crd[w] \in Crd /\ crd[w].ns = n /\ crd[w].stops = 0
  BY <1>1, SlotFacts DEF Core, StoppedExactlyOnce
<1>3. /\ stopped \in Crd /\ stopped.life = crd[w].life
      /\ stopped.ns = n /\ stopped.stops = 1
  <2>1. stopped = [crd[w] EXCEPT !.running = FALSE, !.stops = 1]
    BY <1>2
  <2> HIDE DEF stopped
  <2>2. stopped \in Crd
    <3> DEFINE Stops == 0 .. 2
    <3>1. 1 \in Stops
      OBVIOUS
    <3>2. Crd = [life : LiveStates \cup {"returned"}, ns : Namespaces,
                 running : BOOLEAN, stops : Stops]
      BY DEF Crd
    <3> HIDE DEF Stops
    <3> QED BY <1>2, <2>1, <3>1, <3>2
  <2>3. stopped.life = crd[w].life /\ stopped.ns = crd[w].ns
    BY <1>2, <2>1 DEF Crd
  <2>4. stopped.stops = 1
    BY <1>2, <2>1 DEF Crd
  <2> QED BY <1>2, <2>2, <2>3, <2>4
<1>4. /\ crd' = [crd EXCEPT ![w] = new]
      /\ crds' = [crds EXCEPT ![n] = None]
      /\ registry' = registry
  BY DEF StopAndForget
<1> HIDE DEF stopped
<1>5. /\ crd'[w] = new
      /\ \A v \in Crds : v # w => crd'[v] = crd[v]
      /\ crds'[n] = None
      /\ \A o \in Namespaces : o # n => crds'[o] = crds[o]
  BY <1>1, <1>4 DEF TypeOK
<1>6. /\ crds' \in [Namespaces -> Crds \cup {None}]
      /\ crd' \in [Crds -> Crd \cup {Blank}]
  BY <1>1, <1>3, <1>4 DEF TypeOK
<1>7. Watched' = Watched \ {n}
  BY <1>5 DEF Watched
<1>8. \A o \in Watched : o # n => crds[o] # w /\ crds[o] \in Crds
  BY <1>2 DEF Core, Watched, TypeOK
<1>9. Mapped' = Mapped \ {w}
  <2>1. \A o \in Watched' : crds'[o] = crds[o] /\ crds[o] # w
    BY <1>5, <1>7, <1>8 DEF Watched
  <2>2. \A o \in Watched : crds[o] # w => o \in Watched'
    BY <1>7
  <2> QED BY <2>1, <2>2, <1>7 DEF Mapped
<1>10. new.life \in LiveStates <=> crd[w].life \in LiveStates
  BY <1>3 DEF LiveStates, Blank
<1>11. WaitGroup' = WaitGroup
  BY <1>5, <1>10 DEF WaitGroup
<1>12. new = Blank \/ (new.stops = 1 /\ new.ns = n /\ w \in WaitGroup)
  <2>1. stopped.life # "returned" => w \in WaitGroup
    BY <1>1, <1>2, <1>3 DEF WaitGroup, Crd
  <2> QED BY <2>1, <1>3
<1>13. StoppedExactlyOnce'
  BY <1>5, <1>9, <1>12 DEF Core, StoppedExactlyOnce
<1>14. SingleWatcher' /\ \A v \in WaitGroup : crd'[v].ns \in registry
  <2>1. \A v \in WaitGroup : v \in Crds /\ crd'[v].ns = crd[v].ns
    <3>1. "none" \notin LiveStates
      BY DEF LiveStates
    <3>2. w \in WaitGroup => new.ns = crd[w].ns
      BY <1>2, <1>3, <1>10, <3>1 DEF WaitGroup, Blank
    <3> QED BY <3>2, <1>5 DEF WaitGroup
  <2> QED BY <2>1, <1>11 DEF Core, SingleWatcher
<1>15. \A o \in Watched' : crd'[crds'[o]] # Blank /\ crd'[crds'[o]].ns = o
  <2> SUFFICES ASSUME NEW o \in Watched'
               PROVE  crd'[crds'[o]] # Blank /\ crd'[crds'[o]].ns = o
    OBVIOUS
  <2>1. o \in Watched /\ o # n /\ o \in Namespaces
    BY <1>7 DEF Watched
  <2>2. crds'[o] = crds[o] /\ crd'[crds[o]] = crd[crds[o]]
    BY <2>1, <1>5, <1>8
  <2> QED BY <2>1, <2>2 DEF Core
<1>16. \A v \in Crds : crd'[v] # Blank /\ v \notin Mapped' => v \in WaitGroup'
  BY <1>5, <1>9, <1>11, <1>12 DEF Core
<1> QED BY <1>4, <1>6, <1>7, <1>11, <1>13, <1>14, <1>15, <1>16 DEF Core

(* A watcher is launched for a namespace without metrics: none works on it. *)
LEMMA LaunchKeepsCore ==
  ASSUME TypeOK, Core, NEW n \in Namespaces, crds[n] = None, n \notin registry,
         NEW w \in Crds, crd[w] = Blank,
         crd' = [crd EXCEPT ![w] =
                   [life |-> "starting", ns |-> n, running |-> FALSE, stops |-> 0]],
         crds' = [crds EXCEPT ![n] = w],
         registry' = registry \cup {n}
  PROVE  /\ Core' /\ Watched' = Watched \cup {n}
         /\ crds' \in [Namespaces -> Crds \cup {None}]
         /\ crd' \in [Crds -> Crd \cup {Blank}]
         /\ registry' \in SUBSET Namespaces
<1> DEFINE new == [life |-> "starting", ns |-> n, running |-> FALSE, stops |-> 0]
<1>1. /\ new \in Crd /\ new # Blank /\ new.ns = n /\ new.stops = 0
      /\ new.life \in LiveStates
  BY SlotFacts DEF Crd, LiveStates
<1> HIDE DEF new
<1>2. /\ crd'[w] = new /\ crds'[n] = w
      /\ \A v \in Crds : v # w => crd'[v] = crd[v]
      /\ \A o \in Namespaces : o # n => crds'[o] = crds[o]
  BY DEF TypeOK, new
<1>3. /\ crds' \in [Namespaces -> Crds \cup {None}]
      /\ crd' \in [Crds -> Crd \cup {Blank}]
      /\ registry' \in SUBSET Namespaces
  BY <1>1 DEF TypeOK, new
<1>4. Watched' = Watched \cup {n} /\ n \notin Watched
  BY <1>2 DEF Watched
<1>5. w \notin Mapped /\ w \notin WaitGroup
  BY SlotFacts DEF Mapped, Core
<1>6. Mapped' = Mapped \cup {w}
  <2>1. \A o \in Watched : crds'[o] = crds[o]
    BY <1>2, <1>4 DEF Watched
  <2> QED BY <2>1, <1>2, <1>4 DEF Mapped
<1>7. WaitGroup' = WaitGroup \cup {w}
  BY <1>1, <1>2 DEF WaitGroup
<1>8. \A v \in WaitGroup : /\ v \in Crds /\ v # w /\ crd'[v] = crd[v]
                           /\ crd[v].ns \in registry /\ crd[v].ns # n
  BY <1>2, <1>5 DEF Core, WaitGroup
<1>9. SingleWatcher' /\ \A v \in WaitGroup' : crd'[v].ns \in registry'
  BY <1>1, <1>2, <1>7, <1>8 DEF Core, SingleWatcher
<1>10. StoppedExactlyOnce'
  BY <1>1, <1>2, <1>6 DEF Core, StoppedExactlyOnce
<1>11. \A v \in Crds : crd'[v] # Blank /\ v \notin Mapped' => v \in WaitGroup'
  BY <1>2, <1>6, <1>7 DEF Core
<1>12. ASSUME NEW o \in Watched' PROVE crd'[crds'[o]] # Blank /\ crd'[crds'[o]].ns = o
  <2>1. CASE o = n
    BY <1>1, <1>2, <2>1
  <2>2. CASE o # n
    <3>1. o \in Watched /\ o \in Namespaces /\ crds[o] \in Mapped /\ crds[o] \in Crds
      BY <1>4, <2>2 DEF Watched, Mapped, TypeOK
    <3>2. crds'[o] = crds[o] /\ crd'[crds[o]] = crd[crds[o]]
      BY <1>2, <1>5, <2>2, <3>1
    <3> QED BY <3>1, <3>2 DEF Core
  <2> QED BY <2>1, <2>2
<1> QED BY <1>3, <1>4, <1>9, <1>10, <1>11, <1>12 DEF Core

-----------------------------------------------------------------------------
(* The invariant. *)

LEMMA InitIInv == Init => IInv
<1> SUFFICES ASSUME Init PROVE IInv
  OBVIOUS
<1>1. TypeOK
  <2>1. queue \in Seq(Event)
    BY EmptySeq DEF Init
  <2>2. /\ nss \in [Namespaces -> Labels \cup {None}]
        /\ crds \in [Namespaces -> Crds \cup {None}]
        /\ crd \in [Crds -> Crd \cup {Blank}]
    BY DEF Init
  <2>3. /\ behavior \in Behaviors /\ watch \in {"none", "open", "closed"}
        /\ pc \in {"new", "head", "select", "removing", "sweeping", "restarting",
                   "draining", "done", "duplicate", "assertion"}
        /\ todo \in SUBSET Namespaces /\ registry \in SUBSET Namespaces
    BY DEF Init
  <2>4. ctxDone \in BOOLEAN /\ running \in BOOLEAN
    BY DEF Init
  <2>5. cmcActive \in 0 .. MaxActive
    BY DEF Init
  <2> QED BY <2>1, <2>2, <2>3, <2>4, <2>5 DEF TypeOK
<1>2. Watched = {} /\ WaitGroup = {} /\ \A w \in Crds : crd[w] = Blank
  BY DEF Init, Watched, WaitGroup, Blank, LiveStates
<1>3. Core
  BY <1>2 DEF Core, StoppedExactlyOnce, SingleWatcher
<1>4. Visits /\ Returned /\ GaugeCovers
  BY <1>2, FS_EmptySet DEF Init, Visits, Returned, GaugeCovers
<1> QED BY <1>1, <1>3, <1>4 DEF IInv

(* r is c with another state or another flag. *)
Like(c, r, l) == r \in Crd /\ r.ns = c.ns /\ r.stops = c.stops /\ r.life = l

LEMMA RecordFacts ==
  ASSUME NEW c \in Crd, NEW l \in LiveStates \cup {"returned"}, NEW b \in BOOLEAN
  PROVE  /\ Like(c, [c EXCEPT !.life = l], l)
         /\ Like(c, [c EXCEPT !.running = b], c.life)
         /\ Like(c, [c EXCEPT !.life = l, !.running = b], l)
<1> DEFINE Stops == 0 .. 2
<1>1. Crd = [life : LiveStates \cup {"returned"}, ns : Namespaces,
             running : BOOLEAN, stops : Stops]
  BY DEF Crd
<1> HIDE DEF Stops
<1> QED BY <1>1 DEF Like

(* A step of a CRD watcher is a move of one that has not returned, or its   *)
(* return.                                                                 *)
LEMMA CrdMovesOrReturns ==
  ASSUME IInv, NEW w \in Crds, CrdNext(w)
  PROVE  /\ w \in WaitGroup
         /\ \E r \in Crd :
              /\ r.ns = crd[w].ns /\ r.stops = crd[w].stops
              /\ \/ r.life \in LiveStates /\ CrdStep(w, r)
                 \/ r.life = "returned" /\ CrdReturn(w, r)
<1>1. w \in WaitGroup
  BY DEF CrdNext, CrdRuns, CrdRestarts, CrdRestarted, CrdNotices, CrdLeaves, CrdReturns,
         CrdFails, WaitGroup, LiveStates
<1>2. crd[w] \in Crd /\ crd[w].running \in BOOLEAN /\ crd[w].life \in LiveStates
  BY <1>1, SlotFacts DEF IInv, Crd
<1>3. {"looping", "busy", "leaving"} \subseteq LiveStates
  BY DEF LiveStates
<1> DEFINE Goal == \E r \in Crd :
              /\ r.ns = crd[w].ns /\ r.stops = crd[w].stops
              /\ \/ r.life \in LiveStates /\ CrdStep(w, r)
                 \/ r.life = "returned" /\ CrdReturn(w, r)
<1>4. ASSUME NEW r, NEW l \in LiveStates, Like(crd[w], r, l), CrdStep(w, r) PROVE Goal
  BY <1>4 DEF Like
<1>5. ASSUME NEW r, Like(crd[w], r, "returned"), CrdReturn(w, r) PROVE Goal
  BY <1>5 DEF Like
<1> SUFFICES Goal
  BY <1>1
<1> HIDE DEF Goal
<1>6. CASE CrdRuns(w)
  <2> DEFINE r == [crd[w] EXCEPT !.life = "looping", !.running = TRUE]
  <2>1. Like(crd[w], r, "looping") /\ CrdStep(w, r)
    BY <1>2, <1>3, <1>6, RecordFacts DEF CrdRuns
  <2> HIDE DEF r
  <2> QED BY <1>2, <1>3, <1>4, <2>1
<1>7. CASE CrdRestarts(w)
  <2> DEFINE r == [crd[w] EXCEPT !.life = "busy"]
  <2>1. Like(crd[w], r, "busy") /\ CrdStep(w, r)
    BY <1>2, <1>3, <1>7, RecordFacts DEF CrdRestarts
  <2> HIDE DEF r
  <2> QED BY <1>2, <1>3, <1>4, <2>1
<1>8. CASE CrdRestarted(w)
  <2>1. PICK b \in BOOLEAN : CrdStep(w, [crd[w] EXCEPT !.life = "looping", !.running = b])
    BY <1>2, <1>8 DEF CrdRestarted
  <2>2. Like(crd[w], [crd[w] EXCEPT !.life = "looping", !.running = b], "looping")
    BY <1>2, <1>3, RecordFacts
  <2> QED BY <1>3, <1>4, <2>1, <2>2
<1>9. CASE CrdNotices(w)
  <2> DEFINE r == [crd[w] EXCEPT !.running = FALSE]
  <2>1. Like(crd[w], r, crd[w].life) /\ CrdStep(w, r)
    BY <1>2, <1>3, <1>9, RecordFacts DEF CrdNotices
  <2> HIDE DEF r
  <2> QED BY <1>2, <1>3, <1>4, <2>1
<1>10. CASE CrdLeaves(w)
  <2> DEFINE r == [crd[w] EXCEPT !.life = "leaving"]
  <2>1. Like(crd[w], r, "leaving") /\ CrdStep(w, r)
    BY <1>2, <1>3, <1>10, RecordFacts DEF CrdLeaves
  <2> HIDE DEF r
  <2> QED BY <1>2, <1>3, <1>4, <2>1
<1>11. CASE CrdReturns(w)
  <2> DEFINE r == [crd[w] EXCEPT !.life = "returned"]
  <2>1. Like(crd[w], r, "returned") /\ CrdReturn(w, r)
    BY <1>2, <1>3, <1>11, RecordFacts DEF CrdReturns
  <2> HIDE DEF r
  <2> QED BY <1>2, <1>3, <1>5, <2>1
<1>12. CASE CrdFails(w)
  <2>1. CASE CrdReturn(w, [crd[w] EXCEPT !.life = "returned"])
    <3>1. Like(crd[w], [crd[w] EXCEPT !.life = "returned"], "returned")
      BY <1>2, RecordFacts
    <3> QED BY <1>5, <2>1, <3>1
  <2>2. CASE \E b \in {crd[w].running, FALSE} :
               CrdReturn(w, [crd[w] EXCEPT !.life = "returned", !.running = b])
    <3>1. PICK b \in BOOLEAN : CrdReturn(w, [crd[w] EXCEPT !.life = "returned", !.running = b])
      BY <1>2, <2>2
    <3>2. Like(crd[w], [crd[w] EXCEPT !.life = "returned", !.running = b], "returned")
      BY <1>2, RecordFacts
    <3> QED BY <1>5, <3>1, <3>2
  <2> QED BY <1>12, <2>1, <2>2 DEF CrdFails
<1> QED BY <1>6, <1>7, <1>8, <1>9, <1>10, <1>11, <1>12 DEF CrdNext

LEMMA CrdIInv ==
  ASSUME IInv, NEW w \in Crds, CrdNext(w)
  PROVE  IInv' /\ UNCHANGED <<behavior, api, pc, todo, crds>>
<1>1. w \in WaitGroup
  BY CrdMovesOrReturns
<1>2. PICK r \in Crd :
        /\ r.ns = crd[w].ns /\ r.stops = crd[w].stops
        /\ \/ r.life \in LiveStates /\ CrdStep(w, r)
           \/ r.life = "returned" /\ CrdReturn(w, r)
  BY CrdMovesOrReturns
<1>3. UNCHANGED <<behavior, api, ctxDone, pc, running, todo, crds, cmcActive>>
  BY <1>2 DEF CrdStep, CrdReturn
<1>4. Core' /\ WaitGroup' \subseteq WaitGroup
  <2>1. CASE r.life \in LiveStates /\ CrdStep(w, r)
    BY <1>1, <1>2, <2>1, MoveKeepsCore DEF CrdStep, IInv
  <2>2. CASE r.life = "returned" /\ CrdReturn(w, r)
    BY <1>1, <1>2, <2>2, ReturnKeepsCore DEF IInv
  <2> QED BY <1>2, <2>1, <2>2
<1>5. crd' \in [Crds -> Crd \cup {Blank}] /\ registry' \in SUBSET Namespaces
  BY <1>2 DEF CrdStep, CrdReturn, IInv, TypeOK
<1> QED BY <1>1, <1>3, <1>4, <1>5 DEF IInv, TypeOK, Visits, Returned, GaugeCovers, Watched, api

(* A new watch starts with a finite sequence of events.                    *)
LEMMA ListingType == ASSUME TypeOK, NEW q \in Listing PROVE q \in Seq(Event)
<1> DEFINE existing == {n \in Namespaces : nss[n] # None}
           N == Cardinality(existing)
<1>1. N \in Nat
  <2>1. IsFiniteSet(existing)
    BY FS_Subset, existing \subseteq Namespaces DEF NamespaceAssumption
  <2> QED BY <2>1, FS_CardinalityType
<1>2. PICK o \in [1 .. N -> existing] :
        q = [i \in DOMAIN o |-> [type |-> "ADDED", ns |-> o[i], label |-> nss[o[i]]]]
  BY DEF Listing
<1> HIDE DEF N
<1>3. \A n \in existing : [type |-> "ADDED", ns |-> n, label |-> nss[n]] \in Event
  BY DEF Event, TypeOK
<1>4. q \in [1 .. N -> Event]
  BY <1>2, <1>3
<1> QED BY <1>1, <1>4, SeqDef

(* An action that leaves the CRD watchers alone. *)
LEMMA QuietIInv ==
  ASSUME IInv, UNCHANGED <<kids, cmcActive>>, TypeOK', Visits',
         pc' \in {"new", "done"} => WaitGroup = {}
  PROVE  IInv'
<1>1. Watched' = Watched /\ Mapped' = Mapped /\ WaitGroup' = WaitGroup
  BY DEF kids, Watched, Mapped, WaitGroup
<1>2. Core'
  BY <1>1 DEF kids, IInv, Core, StoppedExactlyOnce, SingleWatcher
<1>3. GaugeCovers'
  BY <1>1 DEF IInv, GaugeCovers
<1> QED BY <1>1, <1>2, <1>3 DEF IInv, Returned

LEMMA ApiIInv == ASSUME IInv, Api PROVE IInv'
<1>1. ASSUME NEW n \in Namespaces, NEW label \in Labels \cup {None}, ApiChange(n, label)
      PROVE  IInv'
  <2>1. UNCHANGED <<behavior, watch, ctxDone, pc, running, todo, kids, cmcActive>>
    BY <1>1 DEF ApiChange
  <2>2. nss' \in [Namespaces -> Labels \cup {None}]
    BY <1>1 DEF ApiChange, IInv, TypeOK
  <2>3. queue' \in Seq(Event)
    <3> DEFINE type == IF nss[n] = None THEN "ADDED"
                       ELSE IF label = None THEN "DELETED" ELSE "MODIFIED"
               carried == IF label = None THEN nss[n] ELSE label
               event == [type |-> type, ns |-> n, label |-> carried]
    <3>1. event \in Event
      BY <1>1 DEF ApiChange, Event, IInv, TypeOK
    <3>2. queue' = IF watch = "open" THEN Append(queue, event) ELSE queue
      BY <1>1 DEF ApiChange
    <3>3. queue \in Seq(Event)
      BY DEF IInv, TypeOK
    <3> HIDE DEF event
    <3> QED BY <3>1, <3>2, <3>3, AppendProperties
  <2>4. TypeOK' /\ Visits'
    BY <2>1, <2>2, <2>3 DEF IInv, TypeOK, Visits, kids, Watched
  <2> QED BY <2>1, <2>4, QuietIInv DEF IInv, Returned
<1>2. CASE ApiClosesWatch
  <2>1. UNCHANGED <<behavior, nss, ctxDone, pc, running, todo, kids, cmcActive>>
    BY <1>2 DEF ApiClosesWatch
  <2>2. watch' \in {"none", "open", "closed"} /\ queue' \in Seq(Event)
    BY <1>2, EmptySeq DEF ApiClosesWatch
  <2>3. TypeOK' /\ Visits'
    BY <2>1, <2>2 DEF IInv, TypeOK, Visits, kids, Watched
  <2> QED BY <2>1, <2>3, QuietIInv DEF IInv, Returned
<1> QED BY <1>1, <1>2 DEF Api

(* The steps of the loop that leave the CRD watchers alone. *)
Quiet == \/ StartWatches \/ StartFails \/ LoopAgain \/ LoopEnds \/ SelectErrorEvent
         \/ SelectContext \/ SelectClosed \/ SelectCleanUp \/ SweepEnds \/ AllHome \/ Cancel

LEMMA QuietSteps == ASSUME IInv, Quiet PROVE IInv'
<1>1. UNCHANGED <<behavior, nss, kids, cmcActive>> /\ Watched' = Watched
  BY DEF Quiet, StartWatches, StartFails, LoopAgain, LoopEnds, SelectErrorEvent, SelectContext,
         SelectClosed, SelectCleanUp, SweepEnds, AllHome, Cancel, api, kids, Watched
<1>2. queue' \in Seq(Event)
  BY ListingType DEF IInv, TypeOK, Quiet, StartWatches, StartFails, LoopAgain, LoopEnds,
         SelectErrorEvent, SelectContext, SelectClosed, SelectCleanUp, SweepEnds, AllHome, Cancel, api
<1>3. /\ watch' \in {"none", "open", "closed"}
      /\ todo' \in SUBSET Namespaces
      /\ pc' \in {"new", "head", "select", "removing", "sweeping", "restarting",
                 "draining", "done", "duplicate", "assertion"}
  BY DEF IInv, TypeOK, Quiet, StartWatches, StartFails, LoopAgain, LoopEnds, SelectErrorEvent,
         SelectContext, SelectClosed, SelectCleanUp, SweepEnds, AllHome, Cancel, api, Watched
<1>4. ctxDone' \in BOOLEAN
  BY DEF IInv, TypeOK, Quiet, StartWatches, StartFails, LoopAgain, LoopEnds, SelectErrorEvent,
         SelectContext, SelectClosed, SelectCleanUp, SweepEnds, AllHome, Cancel
<1>5. running' \in BOOLEAN
  BY DEF IInv, TypeOK, Quiet, StartWatches, StartFails, LoopAgain, LoopEnds, SelectErrorEvent,
         SelectContext, SelectClosed, SelectCleanUp, SweepEnds, AllHome, Cancel
<1>6. TypeOK'
  BY <1>1, <1>2, <1>3, <1>4, <1>5 DEF IInv, TypeOK, kids
<1>7. Visits'
  BY <1>1 DEF IInv, Visits, Quiet, StartWatches, StartFails, LoopAgain, LoopEnds, SelectErrorEvent,
         SelectContext, SelectClosed, SelectCleanUp, SweepEnds, AllHome, Cancel
<1>8. pc' \in {"new", "done"} => WaitGroup = {}
  BY DEF IInv, Returned, Quiet, StartWatches, StartFails, LoopAgain, LoopEnds, SelectErrorEvent,
         SelectContext, SelectClosed, SelectCleanUp, SweepEnds, AllHome, Cancel
<1> QED BY <1>1, <1>6, <1>7, <1>8, QuietIInv

(* The gauge starts again when the map is empty. *)
LEMMA RestartIInv == ASSUME IInv, RestartWatches \/ RestartFails PROVE IInv'
<1>1. /\ UNCHANGED <<behavior, nss, ctxDone, todo, kids>>
      /\ pc = "restarting" /\ pc' = "head" /\ todo = {} /\ cmcActive' = 0
      /\ running' \in {running, FALSE}
      /\ watch' \in {watch, "open"}
  BY DEF RestartWatches, RestartFails, api
<1>2. queue' \in Seq(Event)
  BY ListingType DEF RestartWatches, RestartFails, api, IInv, TypeOK
<1>3. 0 \in 0 .. MaxActive
  BY DEF NamespaceAssumption
<1>4. TypeOK'
  <2>1. running' \in BOOLEAN
    BY <1>1 DEF IInv, TypeOK
  <2> QED BY <1>1, <1>2, <1>3, <2>1 DEF IInv, TypeOK, kids
<1>5. Watched' = {} /\ WaitGroup' = WaitGroup /\ Mapped' = Mapped /\ Watched = {}
  BY <1>1 DEF IInv, Visits, kids, Watched, WaitGroup, Mapped
<1>6. Core'
  BY <1>1, <1>5 DEF kids, IInv, Core, StoppedExactlyOnce, SingleWatcher
<1> QED BY <1>1, <1>4, <1>5, <1>6, FS_EmptySet DEF IInv, Visits, Returned, GaugeCovers

LEMMA WatchedFinite == ASSUME IInv PROVE IsFiniteSet(Watched) /\ Cardinality(Watched) \in Nat
<1>1. Watched \subseteq Namespaces
  BY DEF Watched
<1> QED BY <1>1, FS_Subset, FS_CardinalityType DEF NamespaceAssumption

(* A visit takes at most one watcher out of the map and one off the gauge. *)
LEMMA VisitIInv == ASSUME IInv, NEW n \in Namespaces, Visit(n) PROVE IInv'
<1>1. /\ pc \in {"removing", "sweeping", "restarting", "draining"} /\ n \in todo /\ n \in Watched
      /\ todo' = todo \ {n} \/ (pc = "removing" /\ todo' = {})
      /\ pc' = pc \/ (pc = "removing" /\ pc' = "head")
      /\ UNCHANGED <<behavior, api, ctxDone, running>>
  BY DEF Visit, RemoveOne, SweepOne, StopOne, IInv, Visits
<1>2. CASE SweepOne(n) /\ UNCHANGED kids
  <2>1. pc = "sweeping" /\ pc' = pc /\ cmcActive' = cmcActive
    BY <1>2 DEF SweepOne
  <2>2. TypeOK'
    BY <1>1, <1>2, <2>1 DEF IInv, TypeOK, kids, api
  <2>3. Visits'
    <3>1. Watched' = Watched
      BY <1>2 DEF kids, Watched
    <3> QED BY <1>1, <2>1, <3>1 DEF IInv, Visits
  <2> QED BY <1>2, <2>1, <2>2, <2>3, QuietIInv
<1>3. CASE StopAndForget(n)
  <2>1. /\ Core' /\ Watched' = Watched \ {n}
        /\ WaitGroup' = WaitGroup
        /\ crds' \in [Namespaces -> Crds \cup {None}]
        /\ crd' \in [Crds -> Crd \cup {Blank}]
        /\ registry' = registry
    BY <1>1, <1>3, ForgetKeepsCore DEF IInv
  <2>2. Cardinality(Watched') = Cardinality(Watched) - 1
    BY <1>1, <2>1, WatchedFinite, FS_RemoveElement
  <2>3. Cardinality(Watched) \in Nat /\ Cardinality(Watched') \in Nat
    <3>1. IsFiniteSet(Watched')
      BY <2>1, WatchedFinite, FS_Subset
    <3> QED BY <3>1, WatchedFinite, FS_CardinalityType
  <2>4. cmcActive' \in {cmcActive - 1, cmcActive} /\ cmcActive \in 0 .. MaxActive
    BY DEF Visit, RemoveOne, SweepOne, StopOne, IInv, TypeOK, kids
  <2>5. Cardinality(Watched) <= cmcActive
    BY DEF IInv, GaugeCovers
  <2>6. cmcActive' \in 0 .. MaxActive /\ GaugeCovers'
    BY <2>2, <2>3, <2>4, <2>5 DEF GaugeCovers, NamespaceAssumption
  <2>7. pc' \in {"new", "head", "select", "removing", "sweeping", "restarting", "draining",
               "done", "duplicate", "assertion"} /\ todo' \in SUBSET Namespaces
    BY <1>1 DEF IInv, TypeOK
  <2>8. TypeOK'
    BY <1>1, <2>1, <2>6, <2>7 DEF IInv, TypeOK, api
  <2>9. Visits'
    BY <1>1, <2>1 DEF IInv, Visits
  <2> QED BY <1>1, <2>1, <2>6, <2>8, <2>9 DEF IInv, Returned
<1> QED BY <1>2, <1>3 DEF Visit, RemoveOne, SweepOne, StopOne

(* An event launches at most one watcher, for a namespace that has none.   *)
LEMMA EventIInv == ASSUME IInv, SelectEvent PROVE IInv'
<1> DEFINE e == Head(queue)
<1>1. /\ pc = "select" /\ queue # <<>> /\ queue' = Tail(queue)
      /\ UNCHANGED <<behavior, nss, watch, ctxDone, running>>
  BY DEF SelectEvent
<1>2. queue' \in Seq(Event) /\ e \in Event
  BY <1>1, HeadTailProperties DEF IInv, TypeOK
<1>3. e.ns \in Namespaces
  BY <1>2 DEF Event
<1> HIDE DEF e
<1>4. CASE UNCHANGED <<kids, cmcActive>>
  <2>1. /\ pc' \in {"head", "removing", "duplicate"}
        /\ todo' = todo \/ todo' = {e.ns} \cap Watched
        /\ pc' = "removing" => todo' = {e.ns} \cap Watched
    BY DEF SelectEvent, HandleAllowed, AddAndStart, HandleIgnored, HandleRemoved, e
  <2>2. TypeOK'
    BY <1>1, <1>2, <1>3, <1>4, <2>1 DEF IInv, TypeOK, kids, Watched
  <2>3. Visits'
    <3>1. Watched' = Watched
      BY <1>4 DEF kids, Watched
    <3> QED BY <2>1, <3>1 DEF Visits
  <2> QED BY <1>4, <2>1, <2>2, <2>3, QuietIInv
<1>5. CASE \E w \in Crds :
             /\ crd[w] = Blank /\ cmcActive < MaxActive
             /\ crd' = [crd EXCEPT ![w] =
                    [life |-> "starting", ns |-> e.ns, running |-> FALSE, stops |-> 0]]
             /\ crds' = [crds EXCEPT ![e.ns] = w]
             /\ registry' = registry \cup {e.ns}
             /\ crds[e.ns] = None /\ e.ns \notin registry
             /\ cmcActive' = cmcActive + 1
             /\ pc' = "head" /\ todo' = todo
  <2>1. /\ Core' /\ Watched' = Watched \cup {e.ns}
        /\ crds' \in [Namespaces -> Crds \cup {None}]
        /\ crd' \in [Crds -> Crd \cup {Blank}]
        /\ registry' \in SUBSET Namespaces
    BY <1>3, <1>5, LaunchKeepsCore DEF IInv
  <2>2. e.ns \notin Watched
    BY <1>5 DEF Watched
  <2>3. Cardinality(Watched') = Cardinality(Watched) + 1
    BY <2>1, <2>2, WatchedFinite, FS_AddElement
  <2>4. cmcActive' \in 0 .. MaxActive /\ GaugeCovers'
    BY <1>5, <2>3, WatchedFinite DEF IInv, TypeOK, GaugeCovers, NamespaceAssumption
  <2>5. TypeOK'
    BY <1>1, <1>2, <1>5, <2>1, <2>4 DEF IInv, TypeOK
  <2> QED BY <1>5, <2>1, <2>4, <2>5 DEF IInv, Visits, Returned
<1> QED BY <1>4, <1>5
       DEF SelectEvent, HandleAllowed, AddAndStart, HandleIgnored, HandleRemoved, e

LEMMA NextIInv == IInv /\ [Next]_vars => IInv'
<1> SUFFICES ASSUME IInv, [Next]_vars PROVE IInv'
  OBVIOUS
<1>1. CASE Api
  BY <1>1, ApiIInv
<1>2. ASSUME NEW w \in Crds, CrdNext(w) PROVE IInv'
  BY <1>2, CrdIInv
<1>3. ASSUME NEW n \in Namespaces, Visit(n) PROVE IInv'
  BY <1>3, VisitIInv
<1>4. CASE SelectEvent
  BY <1>4, EventIInv
<1>5. CASE RestartWatches \/ RestartFails
  BY <1>5, RestartIInv
<1>6. CASE Quiet
  BY <1>6, QuietSteps
<1>7. CASE UNCHANGED vars
  <2>1. UNCHANGED <<behavior, nss, queue, watch, ctxDone, pc, running, todo, kids, cmcActive>>
    BY <1>7 DEF vars, kids
  <2>2. TypeOK' /\ Visits'
    BY <2>1 DEF IInv, TypeOK, Visits, kids, Watched
  <2> QED BY <2>1, <2>2, QuietIInv DEF IInv, Returned
<1> QED BY <1>1, <1>2, <1>3, <1>4, <1>5, <1>6, <1>7 DEF Next, Loop, Select, Quiet

(* IInv holds in every reachable state. *)
THEOREM Invariance == Spec => []IInv
<1> QED BY InitIInv, NextIInv, PTL DEF Spec

-----------------------------------------------------------------------------

(* Every variable keeps its type; the gauge stays within its bounds.        *)
THEOREM TypeCorrect == Spec => []TypeOK
<1>1. IInv => TypeOK
  BY DEF IInv
<1> QED BY <1>1, Invariance, PTL

(* No channel is closed twice, and no watcher that left the map was not     *)
(* told, on any path through namespace.go.                                 *)
THEOREM StopsExactlyOnce == Spec => []StoppedExactlyOnce
<1>1. IInv => StoppedExactlyOnce
  BY DEF IInv, Core
<1> QED BY <1>1, Invariance, PTL

(* The goroutines of two CRD watchers never work on one namespace: the      *)
(* panic of promauto is what excludes the second.                          *)
THEOREM WatchersExclude == Spec => []SingleWatcher
<1>1. IInv => SingleWatcher
  BY DEF IInv, Core
<1> QED BY <1>1, Invariance, PTL

(* The gauge is never below the number of watchers in the map.             *)
THEOREM GaugeIsEnough == Spec => []GaugeCovers
<1>1. IInv => GaugeCovers
  BY DEF IInv
<1> QED BY <1>1, Invariance, PTL

(* No goroutine of a CRD watcher is left behind when Start returns.        *)
THEOREM NobodyLeftBehind == Spec => []ReturnedMeansHome
<1>1. IInv => ReturnedMeansHome
  BY DEF IInv, Returned, ReturnedMeansHome
<1> QED BY <1>1, Invariance, PTL

-----------------------------------------------------------------------------
(* The map and the API server. *)

(* What the queue of events says is disturbed neither by a watcher taken    *)
(* out of the map, unless it is the one being removed, nor by any step that *)
(* leaves the queue and the map alone.                                     *)
LEMMA FrameQInv ==
  ASSUME QInv, UNCHANGED <<behavior, nss, queue>>, Watched' \subseteq Watched,
         pc' \in {"new", "restarting"} => watch' # "open",
         pc' = "removing" => pc = "removing" /\ todo' = todo,
         pc' # "removing" /\ pc = "removing" => todo \cap Watched' = {},
         Active' => Active
  PROVE  QInv'
<1>1. pc' = "removing" => \A m, n \in todo' : m = n
  BY DEF QInv
<1>2. ASSUME Active' PROVE LastIsTrue' /\ AddedIsNew' /\ WatchedIsAllowed'
  <2>1. LastIsTrue /\ AddedIsNew /\ WatchedIsAllowed /\ Active
    BY <1>2 DEF QInv
  <2>2. LastIsTrue'
    BY <2>1 DEF LastIsTrue, Silent
  <2>3. \A n : Leaving(n) => Leaving(n)'
    BY DEF Leaving
  <2>4. AddedIsNew'
    BY <2>1, <2>3 DEF AddedIsNew, Silent
  <2>5. WatchedIsAllowed'
    BY <2>1 DEF WatchedIsAllowed, Active, IsNamespaceAllowed
  <2> QED BY <2>2, <2>4, <2>5
<1> QED BY <1>1, <1>2 DEF QInv

(* The events of a new watch are true, and nothing is watched.             *)
LEMMA ListingQInv ==
  ASSUME IInv, StartWatches \/ RestartWatches PROVE QInv'
<1> DEFINE existing == {n \in Namespaces : nss[n] # None}
<1>0. PICK N \in Nat : N = Cardinality(existing)
  <2>1. IsFiniteSet(existing)
    BY FS_Subset, existing \subseteq Namespaces DEF NamespaceAssumption
  <2> QED BY <2>1, FS_CardinalityType
<1>1. /\ pc' = "head" /\ queue' \in Listing /\ Watched' = {}
      /\ UNCHANGED nss
  BY DEF StartWatches, RestartWatches, IInv, Visits, kids, Watched
<1>2. PICK o \in [1 .. N -> existing] :
        /\ \A i, j \in 1 .. N : o[i] = o[j] => i = j
        /\ queue' = [i \in 1 .. N |-> [type |-> "ADDED", ns |-> o[i], label |-> nss[o[i]]]]
  <2>1. PICK o \in [1 .. N -> existing] :
          /\ \A i, j \in DOMAIN o : o[i] = o[j] => i = j
          /\ queue' = [i \in DOMAIN o |-> [type |-> "ADDED", ns |-> o[i], label |-> nss[o[i]]]]
    BY <1>0, <1>1 DEF Listing
  <2>2. DOMAIN o = 1 .. N
    OBVIOUS
  <2> QED BY <2>1, <2>2
<1>4. Len(queue') = N /\ DOMAIN queue' = 1 .. N
  <2>1. queue' \in Seq(Event)
    BY <1>1, ListingType DEF IInv
  <2> QED BY <1>2, <2>1, LenProperties
<1>5. \A i \in 1 .. N : /\ queue'[i].type = "ADDED" /\ queue'[i].ns = o[i]
                        /\ queue'[i].label = nss[o[i]] /\ nss[o[i]] # None
  BY <1>2
<1>6. \A i \in 1 .. N : Silent(o[i], i + 1 .. N)' /\ Silent(o[i], 1 .. i - 1)'
  BY <1>2, <1>5 DEF Silent
<1>7. LastIsTrue'
  <2> SUFFICES ASSUME NEW n \in Namespaces, NEW i \in 1 .. N, queue'[i].ns = n
               PROVE  /\ queue'[i].ns = n /\ Silent(n, i + 1 .. N)'
                      /\ queue'[i].type = "DELETED" <=> nss[n] = None
                      /\ nss[n] # None => queue'[i].label = nss[n]
    BY <1>1, <1>4 DEF LastIsTrue, Silent
  <2> QED BY <1>5, <1>6
<1>8. AddedIsNew'
  BY <1>1, <1>4, <1>5, <1>6 DEF AddedIsNew, Leaving
<1>9. WatchedIsAllowed'
  BY <1>1 DEF WatchedIsAllowed
<1> QED BY <1>1, <1>7, <1>8, <1>9 DEF QInv

(* A change of a namespace appends an event that is true, and reports the   *)
(* namespace as new only after its deletion.                               *)
LEMMA ChangeQInv ==
  ASSUME IInv, QInv, NEW n \in Namespaces, NEW label \in Labels \cup {None},
         ApiChange(n, label)
  PROVE  QInv'
<1> DEFINE type == IF nss[n] = None THEN "ADDED"
                   ELSE IF label = None THEN "DELETED" ELSE "MODIFIED"
           carried == IF label = None THEN nss[n] ELSE label
           event == [type |-> type, ns |-> n, label |-> carried]
<1>0. queue \in Seq(Event) /\ event \in Event
  BY DEF IInv, TypeOK, ApiChange, Event
<1>1. /\ UNCHANGED <<behavior, watch, pc, todo>> /\ Watched' = Watched
      /\ nss[n] # label /\ nss' = [nss EXCEPT ![n] = label]
      /\ watch = "open" => queue' = Append(queue, event)
  BY DEF ApiChange, kids, Watched
<1>2. /\ event.ns = n
      /\ event.type = "DELETED" <=> label = None
      /\ event.type = "ADDED" <=> nss[n] = None
      /\ label # None => event.label = label
  BY <1>1
<1>3. nss'[n] = label /\ \A m \in Namespaces : m # n => nss'[m] = nss[m]
  BY <1>1 DEF IInv, TypeOK
<1> HIDE DEF event
<1>4. ASSUME Active' PROVE LastIsTrue' /\ AddedIsNew' /\ WatchedIsAllowed'
  <2>1. Active /\ LastIsTrue /\ AddedIsNew /\ WatchedIsAllowed
    BY <1>1, <1>4 DEF Active, QInv
  <2>2. PICK L \in Nat : L = Len(queue)
    BY <1>0, LenProperties
  <2>3. /\ DOMAIN queue = 1 .. L
        /\ Len(queue') = L + 1 /\ DOMAIN queue' = 1 .. L + 1
        /\ queue'[L + 1] = event
        /\ \A k \in 1 .. L : queue'[k] = queue[k]
    <3>1. queue' = Append(queue, event)
      BY <1>1, <2>1 DEF Active
    <3>2. queue' \in Seq(Event) /\ Len(queue') = L + 1
      BY <1>0, <2>2, <3>1, AppendProperties
    <3>3. \A k \in 1 .. L : queue'[k] = queue[k]
      BY <1>0, <2>2, <3>1, AppendProperties
    <3>4. queue'[L + 1] = event
      BY <1>0, <2>2, <3>1, AppendProperties
    <3>5. DOMAIN queue = 1 .. L
      BY <1>0, <2>2, LenProperties
    <3>6. DOMAIN queue' = 1 .. L + 1
      BY <3>2, LenProperties
    <3> QED BY <3>2, <3>3, <3>4, <3>5, <3>6
  <2>4. \A k \in 1 .. L : queue[k].ns \in Namespaces
    <3>1. \A k \in 1 .. L : queue[k] \in Event
      BY <1>0, <2>2, ElementOfSeq
    <3>2. \A e \in Event : e.ns \in Namespaces
      BY DEF Event
    <3> QED BY <3>1, <3>2
  <2>5. LastIsTrue'
    <3> SUFFICES ASSUME NEW m \in Namespaces
                 PROVE  \/ Silent(m, 1 .. L + 1)'
                        \/ \E i \in 1 .. L + 1 :
                             /\ queue'[i].ns = m /\ Silent(m, i + 1 .. L + 1)'
                             /\ queue'[i].type = "DELETED" <=> nss'[m] = None
                             /\ nss'[m] # None => queue'[i].label = nss'[m]
      BY <2>3 DEF LastIsTrue
    <3>1. CASE m = n
      <4>1. Silent(n, L + 2 .. L + 1)'
        BY <2>3 DEF Silent
      <4> QED BY <1>2, <1>3, <2>3, <3>1, <4>1
    <3>2. CASE m # n
      <4>1. CASE Silent(m, 1 .. L)
        BY <1>2, <2>3, <3>2, <4>1 DEF Silent
      <4>2. CASE ~Silent(m, 1 .. L)
        <5>1. PICK i \in 1 .. L :
                /\ queue[i].ns = m /\ Silent(m, i + 1 .. L)
                /\ queue[i].type = "DELETED" <=> nss[m] = None
                /\ nss[m] # None => queue[i].label = nss[m]
          BY <2>1, <2>2, <2>3, <4>2 DEF LastIsTrue
        <5>2. Silent(m, i + 1 .. L + 1)'
          BY <1>2, <2>3, <3>2, <5>1 DEF Silent
        <5> QED BY <1>3, <2>3, <3>2, <5>1, <5>2
      <4> QED BY <4>1, <4>2
    <3> QED BY <3>1, <3>2
  <2>6. \A m : Leaving(m)' <=> Leaving(m)
    BY <1>1 DEF Leaving
  <2>7. AddedIsNew'
    <3> SUFFICES ASSUME NEW i \in 1 .. L + 1, queue'[i].type = "ADDED"
                 PROVE  \/ Silent(queue[i].ns, 1 .. i - 1)' /\ Leaving(queue[i].ns)'
                        \/ \E j \in 1 .. i - 1 :
                             /\ queue'[j].ns = queue'[i].ns /\ queue'[j].type = "DELETED"
                             /\ Silent(queue[i].ns, j + 1 .. i - 1)'
      BY <2>3 DEF AddedIsNew
    <3>1. CASE i \in 1 .. L
      BY <2>1, <2>3, <2>6, <3>1 DEF AddedIsNew, Silent
    <3>2. CASE i = L + 1
      <4>1. queue'[i].ns = n /\ nss[n] = None
        BY <1>2, <2>3, <3>2
      <4>2. CASE Silent(n, 1 .. L)
        <5>1. Leaving(n)
          BY <2>1, <2>3, <4>1, <4>2 DEF Leaving, WatchedIsAllowed, Active, Silent
        <5>2. Silent(n, 1 .. L)'
          BY <2>3, <4>2 DEF Silent
        <5> QED BY <2>3, <2>6, <3>2, <4>1, <5>1, <5>2
      <4>3. CASE ~Silent(n, 1 .. L)
        <5>1. PICK j \in 1 .. L : /\ queue[j].ns = n /\ Silent(n, j + 1 .. L)
                                  /\ queue[j].type = "DELETED"
          BY <2>1, <2>2, <2>3, <4>1, <4>3 DEF LastIsTrue
        <5>2. Silent(n, j + 1 .. L)'
          BY <2>3, <5>1 DEF Silent
        <5> QED BY <2>3, <3>2, <4>1, <5>1, <5>2
      <4> QED BY <4>2, <4>3
    <3> QED BY <2>3, <3>1, <3>2
  <2>8. WatchedIsAllowed'
    <3> SUFFICES ASSUME NEW m \in Watched,
                        ~(pc = "removing" /\ m \in todo)
                 PROVE  \/ \E i \in 1 .. L + 1 : queue'[i].ns = m
                        \/ nss'[m] # None /\ IsNamespaceAllowed(nss[m])'
      BY <1>1, <2>3 DEF WatchedIsAllowed
    <3>1. \/ \E i \in 1 .. L : queue[i].ns = m
          \/ nss[m] # None /\ IsNamespaceAllowed(nss[m])
      BY <2>1, <2>3 DEF WatchedIsAllowed, Active
    <3> QED BY <1>1, <1>2, <1>3, <2>3, <3>1 DEF IsNamespaceAllowed, Watched
  <2> QED BY <2>5, <2>7, <2>8
<1> QED BY <1>1, <1>4 DEF QInv

(* The event received is the oldest; what it does to the map is right for   *)
(* the events left, and for the cluster when none about its namespace is.   *)
LEMMA EventQInv == ASSUME IInv, QInv, SelectEvent PROVE QInv'
<1> DEFINE e == Head(queue)
<1>1. /\ pc = "select" /\ queue # <<>> /\ queue' = Tail(queue)
      /\ UNCHANGED <<behavior, nss, watch>>
  BY DEF SelectEvent
<1>2. queue \in Seq(Event) /\ e \in Event /\ e = queue[1]
  BY <1>1, HeadTailProperties DEF IInv, TypeOK
<1>3. e.ns \in Namespaces
  BY <1>2 DEF Event
<1> HIDE DEF e
<1>4. \/ /\ e.type \in {"ADDED", "MODIFIED"} /\ IsNamespaceAllowed(e.label)
         /\ HandleAllowed(e.ns)
      \/ /\ e.type = "ADDED" /\ ~IsNamespaceAllowed(e.label)
         /\ HandleIgnored
      \/ /\ e.type = "MODIFIED" /\ ~IsNamespaceAllowed(e.label)
         /\ HandleRemoved(e.ns)
      \/ e.type = "DELETED" /\ HandleRemoved(e.ns)
  BY DEF SelectEvent, e
<1>5. /\ pc' \in {"head", "removing", "duplicate"}
      /\ pc' = "removing" => todo' = {e.ns} \cap Watched
  BY <1>4 DEF HandleAllowed, AddAndStart, HandleIgnored, HandleRemoved
<1>6. \A n \in Namespaces : n # e.ns => (n \in Watched' <=> n \in Watched)
  BY <1>3, <1>4 DEF HandleAllowed, AddAndStart, HandleIgnored, HandleRemoved, kids, Watched,
                    IInv, TypeOK
<1>7. HandleRemoved(e.ns) => e.ns \notin Watched' \/ (pc' = "removing" /\ e.ns \in todo')
  BY <1>3 DEF HandleRemoved, Watched, kids
<1>8. ASSUME Active' PROVE LastIsTrue' /\ AddedIsNew' /\ WatchedIsAllowed'
  <2>1. LastIsTrue /\ AddedIsNew /\ WatchedIsAllowed /\ Active
    BY <1>1, <1>8 DEF Active, QInv
  <2>2. PICK L \in Nat : L + 1 = Len(queue)
    <3>1. Len(queue) \in Nat /\ Len(queue) # 0
      BY <1>1, <1>2, EmptySeq
    <3>2. Len(queue) - 1 \in Nat /\ (Len(queue) - 1) + 1 = Len(queue)
      BY <3>1
    <3> QED BY <3>2
  <2>3. /\ DOMAIN queue = 1 .. L + 1 /\ DOMAIN queue' = 1 .. L /\ Len(queue') = L
        /\ \A k \in 1 .. L : queue'[k] = queue[k + 1]
    <3>1. queue' \in Seq(Event) /\ Len(queue') = L
      BY <1>1, <1>2, <2>2, HeadTailProperties
    <3>2. \A k \in 1 .. L : queue'[k] = queue[k + 1]
      BY <1>1, <1>2, <2>2, <3>1, HeadTailProperties
    <3>3. DOMAIN queue = 1 .. L + 1 /\ DOMAIN queue' = 1 .. L
      BY <1>2, <2>2, <3>1, LenProperties
    <3> QED BY <3>1, <3>2, <3>3
  <2>4. \A k \in 1 .. L + 1 : queue[k].ns \in Namespaces
    <3>1. \A k \in 1 .. L + 1 : queue[k] \in Event
      BY <1>2, <2>2, ElementOfSeq
    <3>2. \A x \in Event : x.ns \in Namespaces
      BY DEF Event
    <3> QED BY <3>1, <3>2
  <2>5. LastIsTrue'
    <3> SUFFICES ASSUME NEW n \in Namespaces, NEW i \in 1 .. L + 1, i # 1,
                        queue[i].ns = n, Silent(n, i + 1 .. L + 1),
                        queue[i].type = "DELETED" <=> nss[n] = None,
                        nss[n] # None => queue[i].label = nss[n]
                 PROVE  \E j \in 1 .. L :
                          /\ queue'[j].ns = n /\ Silent(n, j + 1 .. L)'
                          /\ queue'[j].type = "DELETED" <=> nss[n] = None
                          /\ nss[n] # None => queue'[j].label = nss[n]
      <4>1. ASSUME NEW n \in Namespaces, Silent(n, 1 .. L + 1) PROVE Silent(n, 1 .. L)'
        BY <2>3, <4>1 DEF Silent
      <4>2. ASSUME NEW n \in Namespaces, Silent(n, 2 .. L + 1) PROVE Silent(n, 1 .. L)'
        BY <2>3, <4>2 DEF Silent
      <4>3. ASSUME NEW n \in Namespaces, ~Silent(n, 1 .. L + 1), ~Silent(n, 1 .. L)'
            PROVE  \E i \in 1 .. L + 1 :
                     /\ i # 1 /\ queue[i].ns = n /\ Silent(n, i + 1 .. L + 1)
                     /\ queue[i].type = "DELETED" <=> nss[n] = None
                     /\ nss[n] # None => queue[i].label = nss[n]
        BY <2>1, <2>2, <2>3, <4>2, <4>3 DEF LastIsTrue
      <4> QED BY <1>1, <2>3, <4>1, <4>3 DEF LastIsTrue
    <3>1. i - 1 \in 1 .. L /\ queue'[i - 1] = queue[i]
      BY <2>3
    <3>2. Silent(n, (i - 1) + 1 .. L)'
      BY <2>3 DEF Silent
    <3> QED BY <3>1, <3>2
  <2>6. AddedIsNew'
    <3> SUFFICES ASSUME NEW i \in 1 .. L, queue'[i].type = "ADDED"
                 PROVE  \/ Silent(queue[i].ns, 1 .. i - 1)' /\ Leaving(queue[i].ns)'
                        \/ \E j \in 1 .. i - 1 :
                             /\ queue'[j].ns = queue'[i].ns /\ queue'[j].type = "DELETED"
                             /\ Silent(queue[i].ns, j + 1 .. i - 1)'
      BY <2>3 DEF AddedIsNew
    <3>1. PICK n \in Namespaces : n = queue[i + 1].ns /\ n = queue'[i].ns
      BY <2>3, <2>4
    <3>2. CASE Silent(n, 1 .. i) /\ Leaving(n)
      <4>1. n # e.ns
        BY <1>2, <2>3, <3>2 DEF Silent
      <4>2. Silent(n, 1 .. i - 1)'
        BY <2>3, <3>2 DEF Silent
      <4>3. Leaving(n)'
        BY <1>1, <1>6, <3>2, <4>1 DEF Leaving
      <4> QED BY <3>1, <4>2, <4>3
    <3>3. ASSUME NEW j \in 1 .. i, queue[j].ns = n, queue[j].type = "DELETED",
                 Silent(n, j + 1 .. i)
          PROVE  \/ Silent(queue[i].ns, 1 .. i - 1)' /\ Leaving(queue[i].ns)'
                 \/ \E l \in 1 .. i - 1 :
                      /\ queue'[l].ns = queue'[i].ns /\ queue'[l].type = "DELETED"
                      /\ Silent(queue[i].ns, l + 1 .. i - 1)'
      <4>1. CASE j = 1
        <5>1. Silent(n, 1 .. i - 1)'
          BY <2>3, <3>3, <4>1 DEF Silent
        <5>2. Leaving(n)'
          BY <1>2, <1>4, <1>7, <3>3, <4>1 DEF Leaving
        <5> QED BY <3>1, <5>1, <5>2
      <4>2. CASE j # 1
        <5>1. j - 1 \in 1 .. i - 1 /\ queue'[j - 1] = queue[j]
          BY <2>3, <4>2
        <5>2. Silent(n, (j - 1) + 1 .. i - 1)'
          BY <2>3, <3>3, <4>2 DEF Silent
        <5> QED BY <3>1, <3>3, <5>1, <5>2
      <4> QED BY <4>1, <4>2
    <3>4. /\ i + 1 \in 1 .. L + 1 /\ queue[i + 1].type = "ADDED" /\ (i + 1) - 1 = i
      BY <2>3
    <3> QED BY <2>1, <2>3, <3>1, <3>2, <3>3, <3>4 DEF AddedIsNew
  <2>7. WatchedIsAllowed'
    <3> SUFFICES ASSUME NEW n \in Watched', ~(pc' = "removing" /\ n \in todo'),
                        \A i \in 1 .. L : queue'[i].ns # n
                 PROVE  nss[n] # None /\ IsNamespaceAllowed(nss[n])
      BY <1>1, <2>3 DEF WatchedIsAllowed, IsNamespaceAllowed
    <3>1. n \in Namespaces
      BY DEF Watched
    <3>2. \A i \in 2 .. L + 1 : queue[i].ns # n
      <4>1. \A i \in 2 .. L + 1 : i - 1 \in 1 .. L /\ queue'[i - 1] = queue[i]
        BY <2>3
      <4> QED BY <4>1
    <3>3. CASE n # e.ns
      <4>1. n \in Watched
        BY <1>6, <3>1, <3>3
      <4>2. \A i \in 1 .. L + 1 : queue[i].ns # n
        BY <1>2, <3>2, <3>3
      <4> QED BY <1>1, <2>1, <2>3, <4>1, <4>2 DEF WatchedIsAllowed, Active
    <3>4. CASE n = e.ns
      <4>1. PICK i \in 1 .. L + 1 :
              /\ queue[i].ns = n
              /\ queue[i].type = "DELETED" <=> nss[n] = None
              /\ nss[n] # None => queue[i].label = nss[n]
        BY <1>2, <2>1, <2>3, <3>1, <3>4 DEF LastIsTrue, Silent
      <4>2. i = 1
        BY <3>2, <4>1
      <4>3. ~HandleRemoved(e.ns)
        BY <1>7, <3>4
      <4>4. e.type \in {"ADDED", "MODIFIED"} /\ nss[n] # None /\ e.label = nss[n]
        BY <1>2, <1>4, <4>1, <4>2, <4>3
      <4>5. ~(e.type = "ADDED" /\ HandleIgnored /\ ~IsNamespaceAllowed(e.label))
        <5>1. SUFFICES ASSUME e.type = "ADDED", HandleIgnored PROVE FALSE
          OBVIOUS
        <5>2. n \in Watched
          BY <5>1 DEF HandleIgnored, kids, Watched
        <5>3. Leaving(n)
          BY <1>2, <2>1, <2>3, <3>4, <5>1 DEF AddedIsNew
        <5> QED BY <1>1, <5>2, <5>3 DEF Leaving
      <4> QED BY <1>4, <4>3, <4>4, <4>5
    <3> QED BY <3>3, <3>4
  <2> QED BY <2>5, <2>6, <2>7
<1>9. pc' = "removing" => \A m, n \in todo' : m = n
  BY <1>5
<1> QED BY <1>5, <1>8, <1>9 DEF QInv

LEMMA VisitQInv == ASSUME IInv, QInv, NEW n \in Namespaces, Visit(n) PROVE QInv'
<1>1. /\ pc \in {"removing", "sweeping", "restarting", "draining"} /\ n \in todo /\ n \in Watched
      /\ pc' = pc \/ (pc = "removing" /\ pc' = "head")
      /\ UNCHANGED <<behavior, api>>
  BY DEF Visit, RemoveOne, SweepOne, StopOne, IInv, Visits
<1>2. Watched' = Watched \/ Watched' = Watched \ {n}
  <2>1. CASE UNCHANGED kids
    BY <2>1 DEF kids, Watched
  <2>2. CASE StopAndForget(n)
    BY <1>1, <2>2, ForgetKeepsCore DEF IInv
  <2> QED BY <2>1, <2>2 DEF Visit, RemoveOne, SweepOne, StopOne
<1>3. CASE pc = "removing"
  <2>1. pc' = "head" /\ Watched' = Watched \ {n} /\ todo = {n}
    <3>1. RemoveOne(n)
      BY <1>3 DEF Visit, SweepOne, StopOne
    <3>2. StopAndForget(n) /\ pc' = "head"
      BY <3>1 DEF RemoveOne
    <3> QED BY <1>1, <1>3, <3>2, ForgetKeepsCore DEF IInv, QInv
  <2> QED BY <1>1, <1>3, <2>1, FrameQInv DEF api, Active
<1>4. CASE pc # "removing"
  BY <1>1, <1>2, <1>4, FrameQInv DEF api, Active, QInv
<1> QED BY <1>3, <1>4

LEMMA InitQInv == Init => QInv
  BY DEF Init, QInv, Active

LEMMA NextQInv == IInv /\ QInv /\ [Next]_vars => QInv'
<1> SUFFICES ASSUME IInv, QInv, [Next]_vars PROVE QInv'
  OBVIOUS
<1>1. ASSUME NEW n \in Namespaces, NEW label \in Labels \cup {None}, ApiChange(n, label)
      PROVE  QInv'
  BY <1>1, ChangeQInv
<1>2. CASE ApiClosesWatch
  BY <1>2 DEF ApiClosesWatch, QInv, Active
<1>3. ASSUME NEW w \in Crds, CrdNext(w) PROVE QInv'
  <2>1. UNCHANGED <<behavior, api, pc, todo, crds>>
    BY <1>3, CrdIInv
  <2>2. Watched' = Watched
    BY <2>1 DEF Watched
  <2> QED BY <2>1, <2>2, FrameQInv DEF api, Active, QInv
<1>4. CASE StartWatches \/ RestartWatches
  BY <1>4, ListingQInv
<1>5. CASE SelectEvent
  BY <1>5, EventQInv
<1>6. ASSUME NEW n \in Namespaces, Visit(n) PROVE QInv'
  BY <1>6, VisitQInv
<1>7. CASE \/ StartFails \/ LoopAgain \/ LoopEnds \/ SelectErrorEvent \/ SelectContext
           \/ SelectCleanUp \/ SweepEnds \/ RestartFails \/ AllHome \/ Cancel \/ UNCHANGED vars
  <2>1. UNCHANGED <<behavior, api, kids>>
    BY <1>7 DEF StartFails, LoopAgain, LoopEnds, SelectErrorEvent, SelectContext, SelectCleanUp,
               SweepEnds, RestartFails, AllHome, Cancel, vars, api, kids
  <2>2. \/ pc' = pc /\ todo' = todo
        \/ /\ pc \notin {"new", "removing", "restarting"}
           /\ pc' \notin {"new", "removing", "restarting"}
           /\ Active' => Active
        \/ /\ watch # "open" /\ pc # "removing"
           /\ pc' \notin {"new", "removing", "restarting"}
    BY <1>7, <2>1 DEF StartFails, LoopAgain, LoopEnds, SelectErrorEvent, SelectContext,
               SelectCleanUp, SweepEnds, RestartFails, AllHome, Cancel, vars, QInv, Active, api
  <2>3. Watched' = Watched
    BY <2>1 DEF kids, Watched
  <2> QED BY <2>1, <2>2, <2>3, FrameQInv DEF api, Active, QInv
<1>8. CASE SelectClosed
  BY <1>8 DEF SelectClosed, QInv, Active
<1> QED BY <1>1, <1>2, <1>3, <1>4, <1>5, <1>6, <1>7, <1>8 DEF Next, Api, Loop, Select

(* Once the events under way are handled, every namespace that has a        *)
(* watcher exists and is allowed, whatever was created, relabelled and      *)
(* deleted on the way.                                                     *)
THEOREM WatchedAreAllowed == Spec => []WatchedIsAllowed
<1>1. QInv => WatchedIsAllowed
  BY DEF QInv, WatchedIsAllowed, Active
<1>2. Spec => [](IInv /\ QInv)
  <2>1. Init => IInv /\ QInv
    BY InitIInv, InitQInv
  <2>2. IInv /\ QInv /\ [Next]_vars => (IInv /\ QInv)'
    BY NextIInv, NextQInv
  <2> QED BY <2>1, <2>2, PTL DEF Spec
<1> QED BY <1>1, <1>2, PTL

-----------------------------------------------------------------------------
(* The CRD watchers in the slots are those of module Crd, the interface     *)
(* that CrdWatcher is proved to implement.                                 *)

CrdOf(w) ==
  INSTANCE Crd WITH life <- crd[w].life, running <- crd[w].running, stops <- crd[w].stops

Vacant(w) == crd[w].life \in {"none", "returned"}

(* What a step may do with the slot w: leave it vacant or put a new watcher *)
(* in it, free it because Start returns, or make a step of the interface.  *)
SlotStep(w) ==
  \/ /\ Vacant(w)
     /\ \/ Vacant(w)'
        \/ crd'[w].life = "starting" /\ ~crd'[w].running /\ crd'[w].stops = 0
  \/ /\ crd[w].life \in {"starting", "looping", "leaving"}
     /\ crd'[w] = Blank
  \/ /\ crd[w] # Blank /\ crd'[w] # Blank
     /\ crd'[w].ns = crd[w].ns
     /\ [CrdOf(w)!Next]_(CrdOf(w)!vars)

LEMMA IdleStep ==
  ASSUME TypeOK, NEW w \in Crds, crd'[w] = crd[w], ctxDone' = ctxDone
  PROVE  SlotStep(w)
<1>1. CASE crd[w] = Blank
  BY <1>1 DEF SlotStep, Vacant, Blank
<1>2. CASE crd[w] # Blank
  BY <1>2 DEF SlotStep, CrdOf!vars
<1> QED BY <1>1, <1>2

(* A watcher makes the step of the same name, or frees its slot. *)
LEMMA OwnStep ==
  ASSUME IInv, NEW w \in Crds, CrdNext(w)
  PROVE  SlotStep(w)
<1>1. /\ crd[w] \in Crd /\ crd[w] # Blank /\ crd \in [Crds -> Crd \cup {Blank}]
      /\ ctxDone' = ctxDone
      /\ \A r \in Crd : r # Blank
  BY CrdMovesOrReturns, SlotFacts DEF IInv, TypeOK, CrdStep, CrdReturn
<1>2. PICK q \in Crd : /\ q.ns = crd[w].ns
                       /\ CrdStep(w, q) \/ CrdReturn(w, q)
  BY CrdMovesOrReturns
<1>3. crd'[w] = Blank \/ (crd'[w] \in Crd /\ crd'[w].ns = crd[w].ns)
  BY <1>1, <1>2 DEF CrdStep, CrdReturn
<1>4. CASE crd'[w] = Blank
  <2>1. crd[w].life \in {"starting", "looping", "leaving"}
    <3>1. CASE CrdReturns(w) \/ CrdFails(w)
      BY <3>1 DEF CrdReturns, CrdFails
    <3>2. CASE ~(CrdReturns(w) \/ CrdFails(w))
      <4>1. crd[w].life \in {"starting", "looping", "leaving"} \/ CrdRestarted(w)
        BY <3>2 DEF CrdNext, CrdRuns, CrdRestarts, CrdNotices, CrdLeaves
      <4>2. ~CrdRestarted(w)
        <5> SUFFICES ASSUME NEW b, crd'[w] = [crd[w] EXCEPT !.life = "looping", !.running = b]
                     PROVE  FALSE
          BY <1>1 DEF CrdRestarted, CrdStep
        <5> QED BY <1>1, <1>4 DEF Crd, Blank
      <4> QED BY <4>1, <4>2
    <3> QED BY <3>1, <3>2
  <2> QED BY <1>4, <2>1 DEF SlotStep
<1>5. ASSUME crd'[w] \in Crd PROVE CrdOf(w)!Next
  <2> DEFINE r == crd[w]
  <2>1. \A l \in LiveStates \cup {"returned"}, b \in BOOLEAN :
          /\ [r EXCEPT !.life = l].life = l
          /\ [r EXCEPT !.life = l].running = r.running
          /\ [r EXCEPT !.life = l].stops = r.stops
          /\ [r EXCEPT !.running = b].life = r.life
          /\ [r EXCEPT !.running = b].running = b
          /\ [r EXCEPT !.running = b].stops = r.stops
          /\ [r EXCEPT !.life = l, !.running = b].life = l
          /\ [r EXCEPT !.life = l, !.running = b].running = b
          /\ [r EXCEPT !.life = l, !.running = b].stops = r.stops
    BY <1>1 DEF Crd
  <2>2. {"looping", "busy", "leaving"} \subseteq LiveStates /\ r.running \in BOOLEAN
    BY <1>1 DEF LiveStates, Crd
  <2>3. \A c : CrdStep(w, c) => crd'[w] = c
    BY <1>1 DEF CrdStep
  <2>4. \A c : CrdReturn(w, c) => crd'[w] = c
    <3>1. Blank \notin Crd
      BY <1>1
    <3> QED BY <1>1, <1>5, <3>1 DEF CrdReturn
  <2> USE DEF CrdOf!Moves, CrdOf!Next
  <2>5. CASE CrdRuns(w)
    <3>1. r.life = "starting" /\ crd'[w] = [r EXCEPT !.life = "looping", !.running = TRUE]
      BY <2>3, <2>5 DEF CrdRuns
    <3> QED BY <1>1, <2>1, <2>2, <3>1 DEF CrdOf!Runs
  <2>6. CASE CrdRestarts(w)
    <3>1. r.life = "looping" /\ crd'[w] = [r EXCEPT !.life = "busy"]
      BY <2>3, <2>6 DEF CrdRestarts
    <3> QED BY <1>1, <2>1, <2>2, <3>1 DEF CrdOf!Restarts
  <2>7. CASE CrdRestarted(w)
    <3>1. PICK b \in {r.running, FALSE} : /\ r.life = "busy"
                                          /\ crd'[w] = [r EXCEPT !.life = "looping", !.running = b]
      BY <2>3, <2>7 DEF CrdRestarted
    <3>2. crd'[w].life = "looping" /\ crd'[w].running = b /\ crd'[w].stops = r.stops
      BY <2>1, <2>2, <3>1
    <3> QED BY <1>1, <3>1, <3>2 DEF CrdOf!Restarted
  <2>8. CASE CrdNotices(w)
    <3>1. /\ r.life = "looping" /\ r.running /\ (r.stops > 0 \/ ctxDone)
          /\ crd'[w] = [r EXCEPT !.running = FALSE]
      BY <2>3, <2>8 DEF CrdNotices
    <3> QED BY <1>1, <2>1, <2>2, <3>1 DEF CrdOf!Notices
  <2>9. CASE CrdLeaves(w)
    <3>1. r.life = "looping" /\ ~r.running /\ crd'[w] = [r EXCEPT !.life = "leaving"]
      BY <2>3, <2>9 DEF CrdLeaves
    <3> QED BY <1>1, <2>1, <2>2, <3>1 DEF CrdOf!Leaves
  <2>10. CASE CrdReturns(w)
    <3>1. r.life = "leaving" /\ crd'[w] = [r EXCEPT !.life = "returned"]
      BY <2>4, <2>10 DEF CrdReturns
    <3> QED BY <1>1, <2>1, <3>1 DEF CrdOf!Returns
  <2>11. CASE CrdFails(w)
    <3>1. \/ r.life = "starting" /\ crd'[w] = [r EXCEPT !.life = "returned"]
          \/ \E b \in {r.running, FALSE} :
               r.life = "looping" /\ crd'[w] = [r EXCEPT !.life = "returned", !.running = b]
      BY <2>4, <2>11 DEF CrdFails
    <3>2. CASE r.life = "starting" /\ crd'[w] = [r EXCEPT !.life = "returned"]
      BY <1>1, <2>1, <3>2 DEF CrdOf!Fails
    <3>3. ASSUME NEW b \in {r.running, FALSE}, r.life = "looping",
                 crd'[w] = [r EXCEPT !.life = "returned", !.running = b]
          PROVE  CrdOf(w)!Next
      <4>1. crd'[w].life = "returned" /\ crd'[w].running = b /\ crd'[w].stops = r.stops
        BY <2>1, <2>2, <3>3
      <4> QED BY <1>1, <3>3, <4>1 DEF CrdOf!Fails
    <3> QED BY <3>1, <3>2, <3>3
  <2> QED BY <2>5, <2>6, <2>7, <2>8, <2>9, <2>10, <2>11 DEF CrdNext
<1> QED BY <1>1, <1>3, <1>4, <1>5 DEF SlotStep

(* A watcher taken out of the map is stopped for the first time, and not    *)
(* during a restart.                                                       *)
LEMMA ForgetStep ==
  ASSUME IInv, NEW n \in Watched, Free(n), StopAndForget(n), ctxDone' = ctxDone,
         NEW w \in Crds
  PROVE  SlotStep(w)
<1> DEFINE v == crds[n]
           stopped == [crd[v] EXCEPT !.running = FALSE, !.stops = IF @ < 2 THEN @ + 1 ELSE @]
<1>1. /\ v \in Crds /\ v \in Mapped /\ crd \in [Crds -> Crd \cup {Blank}]
      /\ crd[v] # Blank /\ crd[v] \in Crd /\ crd[v].stops = 0 /\ crd[v].life # "busy"
  BY DEF IInv, TypeOK, Core, StoppedExactlyOnce, Watched, Mapped, Free
<1>2. crd' = [crd EXCEPT ![v] = IF stopped.life = "returned" THEN Blank ELSE stopped]
  BY DEF StopAndForget
<1>3. /\ stopped.life = crd[v].life /\ stopped.ns = crd[v].ns
      /\ ~stopped.running /\ stopped.running = FALSE /\ stopped.stops = 1
  BY <1>1 DEF Crd
<1>4. crd[v].life # "panicked" /\ crd[v].life # "none"
  BY <1>1 DEF Crd, LiveStates
<1> HIDE DEF v, stopped
<1>5. CASE w # v
  BY <1>1, <1>2, <1>5, IdleStep DEF IInv
<1>6. CASE w = v /\ crd[v].life = "returned"
  BY <1>1, <1>2, <1>3, <1>6 DEF SlotStep, Vacant, Blank
<1>7. CASE w = v /\ crd[v].life # "returned"
  <2>1. crd'[w] = stopped
    BY <1>1, <1>2, <1>3, <1>7
  <2>2. CrdOf(w)!Next
    BY <1>1, <1>3, <1>4, <1>7, <2>1 DEF CrdOf!Next, CrdOf!Stop
  <2>3. stopped # Blank
    BY <1>3, <1>4 DEF Blank
  <2> QED BY <1>1, <1>3, <1>7, <2>1, <2>2, <2>3 DEF SlotStep
<1> QED BY <1>5, <1>6, <1>7

(* Every CRD watcher of the namespace watcher behaves as module Crd says    *)
(* from its launch until it returns: it is stopped at most once, and never  *)
(* while it holds its Mutex.                                               *)
THEOREM SlotsFollowCrd == Spec => [][\A w \in Crds : SlotStep(w)]_vars
<1>1. IInv /\ [Next]_vars => [\A w \in Crds : SlotStep(w)]_vars
  <2> SUFFICES ASSUME IInv, Next, NEW w \in Crds PROVE SlotStep(w)
    OBVIOUS
  <2>1. CASE UNCHANGED <<crd, ctxDone>>
    BY <2>1, IdleStep DEF IInv
  <2>2. ASSUME NEW v \in Crds, CrdNext(v) PROVE SlotStep(w)
    <3>1. CASE v = w
      BY <2>2, <3>1, OwnStep
    <3>2. CASE v # w
      <4>1. crd'[w] = crd[w] /\ ctxDone' = ctxDone
        BY <2>2, <3>2, CrdMovesOrReturns DEF CrdStep, CrdReturn, IInv, TypeOK
      <4> QED BY <4>1, IdleStep DEF IInv
    <3> QED BY <3>1, <3>2
  <2>3. ASSUME NEW n \in Namespaces, Visit(n) PROVE SlotStep(w)
    <3>1. /\ n \in Watched /\ Free(n) /\ ctxDone' = ctxDone
          /\ StopAndForget(n) \/ UNCHANGED crd
      BY <2>3 DEF Visit, RemoveOne, SweepOne, StopOne, IInv, Visits, kids
    <3> QED BY <2>1, <3>1, ForgetStep
  <2>4. CASE SelectEvent
    <3>1. ctxDone' = ctxDone
      BY <2>4 DEF SelectEvent
    <3>2. \/ UNCHANGED crd
          \/ \E v \in Crds, n \in Namespaces :
               /\ crd[v] = Blank
               /\ crd' = [crd EXCEPT ![v] = [life |-> "starting", ns |-> n,
                                             running |-> FALSE, stops |-> 0]]
      <4>1. Head(queue).ns \in Namespaces
        <5>1. queue \in Seq(Event) /\ queue # <<>>
          BY <2>4 DEF SelectEvent, IInv, TypeOK
        <5>2. Head(queue) \in Event
          BY <5>1, HeadTailProperties
        <5> QED BY <5>2 DEF Event
      <4>2. \/ \E n \in Namespaces : HandleAllowed(n)
            \/ UNCHANGED crd
        BY <2>4, <4>1 DEF SelectEvent, HandleIgnored, HandleRemoved, kids
      <4>3. ASSUME NEW n \in Namespaces, HandleAllowed(n) PROVE UNCHANGED crd \/ AddAndStart(n)
        BY <4>3 DEF HandleAllowed, kids
      <4>4. ASSUME NEW n \in Namespaces, AddAndStart(n)
            PROVE  \/ UNCHANGED crd
                   \/ \E v \in Crds :
                        /\ crd[v] = Blank
                        /\ crd' = [crd EXCEPT ![v] = [life |-> "starting", ns |-> n,
                                                      running |-> FALSE, stops |-> 0]]
        BY <4>4 DEF AddAndStart, kids
      <4> QED BY <4>2, <4>3, <4>4
    <3>3. ASSUME NEW v \in Crds, NEW n \in Namespaces, crd[v] = Blank,
                 crd' = [crd EXCEPT ![v] = [life |-> "starting", ns |-> n,
                                            running |-> FALSE, stops |-> 0]]
          PROVE  SlotStep(w)
      <4>1. crd \in [Crds -> Crd \cup {Blank}]
        BY DEF IInv, TypeOK
      <4>2. CASE w # v
        BY <3>1, <3>3, <4>1, <4>2, IdleStep DEF IInv
      <4>3. CASE w = v
        BY <3>3, <4>1, <4>3 DEF SlotStep, Vacant, Blank
      <4> QED BY <4>2, <4>3
    <3> QED BY <2>1, <3>1, <3>2, <3>3
  <2>5. CASE Cancel
    <3>1. crd'[w] = crd[w] /\ ~ctxDone /\ ctxDone' = TRUE
      BY <2>5 DEF Cancel, kids
    <3>2. CASE crd[w] = Blank
      BY <3>1, <3>2 DEF SlotStep, Vacant, Blank
    <3>3. CASE crd[w] \in Crd /\ crd[w] # Blank
      <4>1. crd[w].life # "panicked"
        BY <3>3 DEF Crd, LiveStates
      <4>2. CrdOf(w)!Next
        BY <3>1, <4>1 DEF CrdOf!Next, CrdOf!Cancel
      <4> QED BY <3>1, <3>3, <4>2 DEF SlotStep
    <3> QED BY <3>2, <3>3 DEF IInv, TypeOK
  <2>6. CASE Quiet \/ Api \/ RestartWatches \/ RestartFails
    <3>1. UNCHANGED <<crd, ctxDone>> \/ Cancel
      BY <2>6 DEF Quiet, StartWatches, StartFails, LoopAgain, LoopEnds, SelectErrorEvent,
           SelectContext, SelectClosed, SelectCleanUp, SweepEnds, AllHome, RestartWatches,
           RestartFails, Api, ApiChange, ApiClosesWatch, kids
    <3> QED BY <2>1, <2>5, <3>1
  <2> QED BY <2>2, <2>3, <2>4, <2>5, <2>6 DEF Next, Loop, Select, Quiet
<1> QED BY <1>1, Invariance, PTL DEF Spec
=============================================================================
