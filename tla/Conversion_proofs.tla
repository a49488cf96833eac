-------------------------- MODULE Conversion_proofs --------------------------
(***************************************************************************)
(* Proofs about Conversion for every set of objects, specs and timeouts.   *)
(*                                                                         *)
(* First what the two conversions do to one object; then the invariant     *)
(* that carries this over a read, an edit and a write: what is under way   *)
(* between the API server and the webhook is still what is stored if the   *)
(* resourceVersion says so.                                                *)
(***************************************************************************)
EXTENDS Conversion, FiniteSetTheorems, SequenceTheorems, TLAPS

V1Object  == Object(V1, V1Spec)
OldObject == Object(Old, OldSpec)

-----------------------------------------------------------------------------
(* What the conversions do to one object. *)

(* A timeout always has a meaning, and its canonical text the same one.     *)
LEMMA TimeoutFacts ==
  /\ \A t \in Texts : Timeout(t) \in Durations
  /\ \A d \in Durations : String[d] \in Texts /\ Timeout(String[d]) = d
  BY TimeoutAssumption, ConversionAssumption DEF Timeout

(* An object that can be read as v1 has all its fields. *)
LEMMA V1Readable ==
  ASSUME NEW u \in V1Object, V1FromUnstructured(u) # None
  PROVE  /\ u.spec.deployment \in Names
         /\ u.spec.minReplicas \in Nat
         /\ u.spec.maxReplicas \in Nat
         /\ u.spec.enabled \in BOOLEAN
         /\ u.spec.scalingMode \in Modes
         /\ u.spec.timeout \in Texts
         /\ V1FromUnstructured(u).spec =
              [u.spec EXCEPT !.timeout = Timeout(u.spec.timeout)]
<1>1. Complete(u.spec)
  BY DEF V1FromUnstructured
<1>2. u.spec \in V1Spec
  BY DEF V1Object, Object
<1>3. \A f \in {"deployment", "minReplicas", "maxReplicas", "enabled", "scalingMode",
                "timeout"} : u.spec[f] # None
  BY <1>1, <1>2 DEF Complete, V1Spec
<1>4. V1FromUnstructured(u).spec = [u.spec EXCEPT !.timeout = Timeout(u.spec.timeout)]
  BY <1>1 DEF V1FromUnstructured, V1Object, Object
<1> QED
  BY <1>2, <1>3, <1>4 DEF V1Spec

(* An object that can be read as v1alpha1 has all its fields. *)
LEMMA OldReadable ==
  ASSUME NEW u \in OldObject, OldFromUnstructured(u) # None
  PROVE  /\ u.spec.deploymentName \in Names
         /\ u.spec.minReplicas \in Nat
         /\ u.spec.maxReplicas \in Nat
         /\ u.spec.enabled \in BOOLEAN
         /\ u.spec.podMode \in BOOLEAN
         /\ u.spec.timeout \in Texts
         /\ OldFromUnstructured(u) = u
<1>1. Complete(u.spec) /\ OldFromUnstructured(u) = u
  BY DEF OldFromUnstructured
<1>2. u.spec \in OldSpec
  BY DEF OldObject, Object
<1>3. \A f \in {"deploymentName", "minReplicas", "maxReplicas", "enabled", "podMode",
                "timeout"} : u.spec[f] # None
  BY <1>1, <1>2 DEF Complete, OldSpec
<1> QED
  BY <1>1, <1>2, <1>3 DEF OldSpec

(* A complete spec is what the monkeys are configured with, field by field. *)
LEMMA ConfiguredFacts ==
  ASSUME NEW s \in V1Spec, s.deployment \in Names, s.minReplicas \in Nat,
         s.maxReplicas \in Nat, s.enabled \in BOOLEAN, s.scalingMode \in Modes,
         s.timeout \in Texts
  PROVE  /\ Complete(s)
         /\ Configured(s) = [s EXCEPT !.timeout = Timeout(s.timeout)]
<1>1. s.deployment # None /\ s.minReplicas # None /\ s.maxReplicas # None
      /\ s.enabled # None /\ s.scalingMode # None /\ s.timeout # None
  BY ConversionAssumption
<1>2. Complete(s)
  BY <1>1 DEF Complete, V1Spec
<1>3. Configured(s) = UnmarshalJSON(s)
  BY <1>1 DEF Configured, V1Spec
<1>4. UnmarshalJSON(s) = [deployment |-> s.deployment, minReplicas |-> s.minReplicas,
                          maxReplicas |-> s.maxReplicas, enabled |-> s.enabled,
                          scalingMode |-> s.scalingMode, timeout |-> Timeout(s.timeout)]
  BY <1>1 DEF UnmarshalJSON
<1> QED
  BY <1>2, <1>3, <1>4 DEF V1Spec

(* Reading through v1alpha1 shows what the monkeys are configured with.     *)
LEMMA DowngradeFacts ==
  ASSUME NEW u \in V1Object, V1FromUnstructured(u) # None
  PROVE  /\ Downgrade(u) \in OldObject
         /\ Downgrade(u).name = u.name /\ Downgrade(u).rv = u.rv
         /\ Complete(u.spec)
         /\ Configured(u.spec).scalingMode \in Modes
         /\ Describes(Downgrade(u).spec, Configured(u.spec))
<1> DEFINE s == [u.spec EXCEPT !.timeout = Timeout(u.spec.timeout)]
<1>1. /\ u.spec \in V1Spec /\ u.name \in Objects /\ u.rv \in Nat
      /\ V1FromUnstructured(u).spec = s
      /\ u.spec.deployment \in Names /\ u.spec.minReplicas \in Nat
      /\ u.spec.maxReplicas \in Nat /\ u.spec.enabled \in BOOLEAN
      /\ u.spec.scalingMode \in Modes /\ u.spec.timeout \in Texts
  BY V1Readable DEF V1Object, Object
<1>2. Complete(u.spec) /\ Configured(u.spec) = s
  BY <1>1, ConfiguredFacts
<1>3. /\ s.deployment = u.spec.deployment /\ s.minReplicas = u.spec.minReplicas
      /\ s.maxReplicas = u.spec.maxReplicas /\ s.enabled = u.spec.enabled
      /\ s.scalingMode = u.spec.scalingMode /\ s.timeout = Timeout(u.spec.timeout)
      /\ s.timeout \in Durations
  BY <1>1, TimeoutFacts DEF V1Spec
<1> HIDE DEF s
<1>4. Downgrade(u) = [apiVersion |-> Old, name |-> u.name, rv |-> u.rv,
                      spec |-> [deploymentName |-> s.deployment,
                                minReplicas |-> s.minReplicas,
                                maxReplicas |-> s.maxReplicas,
                                enabled |-> s.enabled,
                                podMode |-> s.scalingMode = "killPod",
                                timeout |-> String[s.timeout]]]
  BY <1>1 DEF Downgrade
<1>5. Downgrade(u).spec \in OldSpec
  BY <1>1, <1>3, <1>4, TimeoutFacts DEF OldSpec
<1>6. Downgrade(u) \in OldObject
  BY <1>1, <1>4, <1>5 DEF OldObject, Object
<1>7. Describes(Downgrade(u).spec, s)
  BY <1>3, <1>4, TimeoutFacts DEF Describes
<1> QED
  BY <1>1, <1>2, <1>3, <1>4, <1>6, <1>7

(* Writing through v1alpha1 configures the monkeys with what was written.   *)
LEMMA UpgradeFacts ==
  ASSUME NEW u \in OldObject, OldFromUnstructured(u) # None
  PROVE  /\ Upgrade(u) \in V1Object
         /\ Upgrade(u).name = u.name /\ Upgrade(u).rv = u.rv
         /\ Complete(Upgrade(u).spec)
         /\ Configured(Upgrade(u).spec).scalingMode \in {"killPod", "randomScale"}
         /\ Describes(u.spec, Configured(Upgrade(u).spec))
<1> DEFINE mode == IF u.spec.podMode = TRUE THEN "killPod" ELSE "randomScale"
           s == [deployment |-> u.spec.deploymentName, minReplicas |-> u.spec.minReplicas,
                 maxReplicas |-> u.spec.maxReplicas, enabled |-> u.spec.enabled,
                 scalingMode |-> mode, timeout |-> String[Timeout(u.spec.timeout)]]
<1>1. /\ u.name \in Objects /\ u.rv \in Nat
      /\ u.spec.deploymentName \in Names /\ u.spec.minReplicas \in Nat
      /\ u.spec.maxReplicas \in Nat /\ u.spec.enabled \in BOOLEAN
      /\ u.spec.podMode \in BOOLEAN /\ u.spec.timeout \in Texts
      /\ OldFromUnstructured(u) = u
  BY OldReadable DEF OldObject, Object
<1>2. Timeout(u.spec.timeout) \in Durations
      /\ String[Timeout(u.spec.timeout)] \in Texts
      /\ Timeout(String[Timeout(u.spec.timeout)]) = Timeout(u.spec.timeout)
  BY <1>1, TimeoutFacts
<1>3. Upgrade(u) = [apiVersion |-> V1, name |-> u.name, rv |-> u.rv, spec |-> s]
  BY <1>1 DEF Upgrade, V1ToUnstructured
<1>4. mode \in {"killPod", "randomScale"} /\ (mode = "killPod") = u.spec.podMode
  BY <1>1
<1>5. /\ s \in V1Spec /\ s.deployment \in Names /\ s.minReplicas \in Nat
      /\ s.maxReplicas \in Nat /\ s.enabled \in BOOLEAN /\ s.scalingMode \in Modes
      /\ s.timeout \in Texts
  BY <1>1, <1>2, <1>4 DEF V1Spec, Modes
<1>6. Complete(s) /\ Configured(s) = [s EXCEPT !.timeout = Timeout(s.timeout)]
  BY <1>5, ConfiguredFacts
<1>7. Configured(s) = [deployment |-> u.spec.deploymentName,
                       minReplicas |-> u.spec.minReplicas,
                       maxReplicas |-> u.spec.maxReplicas, enabled |-> u.spec.enabled,
                       scalingMode |-> mode, timeout |-> Timeout(u.spec.timeout)]
  BY <1>2, <1>6
<1> HIDE DEF mode
<1>8. Describes(u.spec, Configured(s))
  BY <1>4, <1>7 DEF Describes
<1>9. Upgrade(u) \in V1Object
  BY <1>1, <1>3, <1>5 DEF V1Object, Object
<1> QED
  BY <1>3, <1>4, <1>6, <1>7, <1>8, <1>9

(* Down and up again, nothing changes for the monkeys but antiPressure.     *)
THEOREM RoundTrip ==
  ASSUME NEW u \in V1Object, V1FromUnstructured(u) # None
  PROVE  LET before == Configured(u.spec)
             after  == Configured(Upgrade(Downgrade(u)).spec)
         IN  /\ \A f \in {"deployment", "minReplicas", "maxReplicas", "enabled", "timeout"} :
                  after[f] = before[f]
             /\ before.scalingMode # "antiPressure" => after.scalingMode = before.scalingMode
<1> DEFINE old == Downgrade(u)
           before == Configured(u.spec)
           after == Configured(Upgrade(old).spec)
<1>1. old \in OldObject /\ before.scalingMode \in Modes /\ Describes(old.spec, before)
  BY DowngradeFacts
<1>2. OldFromUnstructured(old) # None
  <2>1. /\ u.spec.deployment \in Names /\ u.spec.minReplicas \in Nat
        /\ u.spec.maxReplicas \in Nat /\ u.spec.enabled \in BOOLEAN
        /\ u.spec.timeout \in Texts /\ u.spec \in V1Spec
        /\ V1FromUnstructured(u).spec = [u.spec EXCEPT !.timeout = Timeout(u.spec.timeout)]
    BY V1Readable DEF V1Object, Object
  <2>2. String[Timeout(u.spec.timeout)] \in Texts
    BY <2>1, TimeoutFacts
  <2>3. /\ old.apiVersion = Old
        /\ old.spec = [deploymentName |-> u.spec.deployment,
                       minReplicas |-> u.spec.minReplicas,
                       maxReplicas |-> u.spec.maxReplicas,
                       enabled |-> u.spec.enabled,
                       podMode |-> u.spec.scalingMode = "killPod",
                       timeout |-> String[Timeout(u.spec.timeout)]]
    BY <2>1 DEF Downgrade, V1Spec
  <2>4. (u.spec.scalingMode = "killPod") # None
    BY ConversionAssumption
  <2>5. Complete(old.spec)
    BY <2>1, <2>2, <2>3, <2>4, ConversionAssumption DEF Complete
  <2> QED
    BY <1>1, <2>3, <2>5, ConversionAssumption DEF OldFromUnstructured, OldObject
<1>3. /\ Describes(old.spec, after)
      /\ after.scalingMode \in {"killPod", "randomScale"}
  BY <1>1, <1>2, UpgradeFacts
<1> HIDE DEF old, before, after
<1>4. \A f \in {"deployment", "minReplicas", "maxReplicas", "enabled", "timeout"} :
        after[f] = before[f]
  BY <1>1, <1>3 DEF Describes
<1>5. before.scalingMode # "antiPressure" => after.scalingMode = before.scalingMode
  BY <1>1, <1>3 DEF Describes, Modes
<1> QED
  BY <1>4, <1>5 DEF before, after, old

-----------------------------------------------------------------------------
(* The invariant. *)

(* An object u that was read is the one stored, unless that is a newer one. *)
UpToDate(u) == stored[u.name] # None /\ stored[u.name].rv = u.rv

StoreInv ==
  \A o \in Objects : stored[o] # None => stored[o].name = o /\ stored[o].rv <= version

HeldInv ==
  \A o \in Objects : held[o] # None =>
    /\ held[o].name = o /\ held[o].rv <= version
    /\ UpToDate(held[o]) =>
         /\ Configured(stored[o].spec).scalingMode \in Modes
         /\ Describes(held[o].spec, Configured(stored[o].spec))

ListInv ==
  op = "list" =>
    /\ request.body = "review" /\ request.desired = Old
    /\ request.objects \in Seq(V1Object)
    /\ \A i \in DOMAIN request.objects :
         /\ request.objects[i].rv <= version
         /\ UpToDate(request.objects[i]) =>
              stored[request.objects[i].name] = request.objects[i]
    /\ answer # None => answer = ToOld(request)

WriteInv ==
  op \in {"update", "create"} =>
    /\ version <= MaxVersion
    /\ request.body = "review" /\ request.desired = V1
    /\ request.objects \in Seq(OldObject) /\ Len(request.objects) = 1
    /\ answer # None => answer = ToV1(request)

UpdateInv ==
  op = "update" =>
    LET u == request.objects[1]
    IN  held[u.name] # None /\ u.rv = held[u.name].rv

ProbeInv == op = "probe" => request \in Probes

IInv ==
  /\ TypeOK
  /\ op = "idle" => answer = None
  /\ StoreInv
  /\ HeldInv
  /\ ListInv
  /\ WriteInv
  /\ UpdateInv
  /\ ProbeInv

-----------------------------------------------------------------------------
(* Every action preserves it. *)

LEMMA InitIInv == Init => IInv
<1> SUFFICES ASSUME Init PROVE IInv
  OBVIOUS
<1>1. NoRequest \in Request
  BY DEF NoRequest, Request
<1>2. TypeOK
  BY <1>1, ConversionAssumption DEF Init, TypeOK
<1> QED
  BY <1>2 DEF Init, IInv, StoreInv, HeldInv, ListInv, WriteInv, UpdateInv, ProbeInv

(* A record taken out of the store is typed, and named after its place.     *)
LEMMA StoredFacts ==
  ASSUME IInv, NEW o \in Objects
  PROVE  /\ stored[o] # None => stored[o] \in V1Object /\ stored[o].name = o
                                /\ stored[o].rv \in Nat /\ stored[o].rv <= version
         /\ held[o] # None => held[o] \in OldObject /\ held[o].name = o
                              /\ held[o].rv \in Nat /\ held[o].rv <= version
         /\ version \in Nat
  BY ConversionAssumption
  DEF IInv, TypeOK, StoreInv, HeldInv, V1Object, OldObject, Object

(* A write to one object with a new resourceVersion makes every copy that   *)
(* was read of it outdated, and leaves the others as they were.            *)
LEMMA NewVersion ==
  ASSUME IInv, NEW o \in Objects, NEW u \in V1Object,
         u.name = o, u.rv = version + 1,
         stored' = [stored EXCEPT ![o] = u],
         version' = version + 1, held' = held
  PROVE  /\ stored' \in [Objects -> V1Object \cup {None}]
         /\ StoreInv' /\ HeldInv'
<1>1. stored \in [Objects -> V1Object \cup {None}] /\ version \in Nat
  BY ConversionAssumption DEF IInv, TypeOK, V1Object
<1>2. stored' \in [Objects -> V1Object \cup {None}]
  BY <1>1
<1>3. StoreInv'
  BY <1>1, StoredFacts DEF IInv, StoreInv
<1>4. HeldInv'
  <2> SUFFICES ASSUME NEW p \in Objects, held[p] # None
               PROVE  /\ held[p].name = p /\ held[p].rv <= version + 1
                      /\ UpToDate(held[p])' =>
                           /\ Configured(stored'[p].spec).scalingMode \in Modes
                           /\ Describes(held[p].spec, Configured(stored'[p].spec))
    BY DEF HeldInv
  <2>1. held[p].name = p /\ held[p].rv \in Nat /\ held[p].rv <= version
    BY StoredFacts
  <2>2. CASE p = o
    BY <1>1, <2>1, <2>2 DEF UpToDate
  <2>3. CASE p # o
    <3>1. stored'[p] = stored[p]
      BY <1>1, <2>3
    <3> QED
      BY <1>1, <2>1, <3>1 DEF IInv, HeldInv, UpToDate
  <2> QED
    BY <2>2, <2>3
<1> QED
  BY <1>2, <1>3, <1>4

LEMMA V1WriteIInv ==
  ASSUME IInv, NEW o \in Objects, NEW spec \in V1Specs, V1Write(o, spec)
  PROVE  IInv'
<1> DEFINE u == [apiVersion |-> V1, name |-> o, rv |-> version + 1, spec |-> spec]
<1>1. version \in Nat /\ version < MaxVersion /\ version' = version + 1
      /\ MaxVersion \in Nat
  BY StoredFacts, ConversionAssumption DEF V1Write
<1>2. u \in V1Object
  BY <1>1, ConversionAssumption DEF V1Object, Object
<1>3. stored' = [stored EXCEPT ![o] = u] /\ UNCHANGED <<held, op, request, answer>>
  BY DEF V1Write
<1>4. stored' \in [Objects -> V1Object \cup {None}] /\ StoreInv' /\ HeldInv'
  BY <1>1, <1>2, <1>3, NewVersion
<1>5. TypeOK'
  BY <1>1, <1>3, <1>4 DEF IInv, TypeOK, V1Object
<1>6. ListInv'
  <2> SUFFICES ASSUME op = "list", NEW i \in DOMAIN request.objects
               PROVE  /\ request.objects[i].rv <= version + 1
                      /\ UpToDate(request.objects[i])' =>
                           stored'[request.objects[i].name] = request.objects[i]
    BY <1>1, <1>3 DEF IInv, ListInv
  <2>1. request.objects[i] \in V1Object /\ request.objects[i].rv <= version
    BY DEF IInv, ListInv
  <2>2. request.objects[i].name \in Objects /\ request.objects[i].rv \in Nat
    BY <2>1 DEF V1Object, Object
  <2>3. CASE request.objects[i].name = o
    BY <1>1, <1>3, <2>1, <2>2, <2>3 DEF UpToDate, IInv, TypeOK
  <2>4. CASE request.objects[i].name # o
    BY <1>1, <1>3, <2>1, <2>2, <2>4 DEF UpToDate, IInv, TypeOK, ListInv
  <2> QED
    BY <2>3, <2>4
<1>7. WriteInv'
  BY <1>1, <1>3 DEF IInv, WriteInv
<1> QED
  BY <1>3, <1>4, <1>5, <1>6, <1>7 DEF IInv, UpdateInv, ProbeInv

LEMMA V1DeleteIInv ==
  ASSUME IInv, NEW o \in Objects, V1Delete(o)
  PROVE  IInv'
<1>1. /\ stored' = [stored EXCEPT ![o] = None]
      /\ UNCHANGED <<version, held, op, request, answer>>
  BY DEF V1Delete
<1>2. \A p \in Objects : stored'[p] = stored[p] \/ stored'[p] = None
  BY <1>1 DEF IInv, TypeOK
<1>3. TypeOK'
  BY <1>1 DEF IInv, TypeOK
<1>4. StoreInv'
  BY <1>1, <1>2 DEF IInv, StoreInv
<1>5. HeldInv'
  BY <1>1, <1>2, StoredFacts DEF IInv, HeldInv, UpToDate
<1>6. ListInv'
  <2>1. ASSUME op = "list", NEW i \in DOMAIN request.objects
        PROVE  request.objects[i].name \in Objects
    <3>1. request.objects[i] \in V1Object
      BY <2>1 DEF IInv, ListInv
    <3> QED
      BY <3>1 DEF V1Object, Object
  <2> QED
    BY <1>1, <1>2, <2>1 DEF IInv, ListInv, UpToDate
<1> QED
  BY <1>1, <1>3, <1>4, <1>5, <1>6 DEF IInv, WriteInv, UpdateInv, ProbeInv

(* An empty sequence is one of objects, too. *)
LEMMA NoObjects == <<>> \in Seq(AnyObject)
  OBVIOUS

LEMMA ProbeFacts == \A r \in Probes : r \in Request
<1>1. NoRequest \in Request /\ [NoRequest EXCEPT !.body = "no request"] \in Request
  BY NoObjects DEF NoRequest, Request
<1>2. Review(V2, <<>>) \in Request
  BY NoObjects DEF Review, Request
<1> QED
  BY <1>1, <1>2 DEF Probes

LEMMA OldListIInv ==
  ASSUME IInv, OldList
  PROVE  IInv'
<1> DEFINE n == Cardinality(Existing)
<1>1. n \in Nat
  BY FS_Subset, FS_CardinalityType, ConversionAssumption DEF Existing
<1>2. PICK order \in [1 .. n -> Existing] :
        Asks("list", Review(Old, [i \in 1 .. n |-> stored[order[i]]]))
  BY DEF OldList
<1> DEFINE objs == [i \in 1 .. n |-> stored[order[i]]]
<1>3. \A i \in 1 .. n : objs[i] \in V1Object /\ stored[objs[i].name] = objs[i]
                        /\ objs[i].rv <= version
  BY <1>2, StoredFacts DEF Existing
<1>4. objs \in Seq(V1Object) /\ DOMAIN objs = 1 .. n
  BY <1>1, <1>3
<1> HIDE DEF objs, n
<1>5. /\ request' = Review(Old, objs) /\ op' = "list" /\ op = "idle"
      /\ UNCHANGED <<stored, version, held, answer>>
  BY <1>2 DEF Asks, objs
<1>6. request' \in Request
  <2>1. objs \in Seq(AnyObject)
    BY <1>4 DEF AnyObject, V1Object
  <2> QED
    BY <1>5, <2>1 DEF Request, Review
<1>7. TypeOK'
  BY <1>5, <1>6 DEF IInv, TypeOK, Ops
<1>8. ListInv'
  BY <1>3, <1>4, <1>5 DEF IInv, ListInv, Review, UpToDate
<1> QED
  BY <1>5, <1>7, <1>8
  DEF IInv, StoreInv, HeldInv, WriteInv, UpdateInv, ProbeInv, UpToDate

(* A request to convert one object to v1, be it an update or a creation.    *)
LEMMA WriteAsked ==
  ASSUME IInv, NEW what \in {"update", "create"}, NEW u \in OldObject,
         version < MaxVersion, Asks(what, Review(V1, <<u>>)),
         what = "update" => held[u.name] # None /\ u.rv = held[u.name].rv
  PROVE  IInv'
<1>1. /\ request' = Review(V1, <<u>>) /\ op' = what /\ op = "idle"
      /\ UNCHANGED <<stored, version, held, answer>>
  BY DEF Asks
<1>2. /\ <<u>> \in Seq(OldObject) /\ Len(<<u>>) = 1 /\ <<u>>[1] = u
  OBVIOUS
<1>3. request' \in Request
  <2>1. <<u>> \in Seq(AnyObject)
    BY DEF AnyObject, OldObject
  <2> QED
    BY <1>1, <2>1 DEF Request, Review
<1>4. TypeOK'
  BY <1>1, <1>3 DEF IInv, TypeOK, Ops
<1>5. WriteInv'
  BY <1>1, <1>2, StoredFacts, ConversionAssumption DEF IInv, TypeOK, WriteInv, Review
<1>6. UpdateInv'
  BY <1>1, <1>2 DEF UpdateInv, Review
<1> QED
  BY <1>1, <1>4, <1>5, <1>6 DEF IInv, StoreInv, HeldInv, ListInv, ProbeInv, UpToDate

LEMMA OldEditIInv ==
  ASSUME IInv, NEW o \in Objects, NEW spec \in OldSpecs, OldEdit(o, spec)
  PROVE  IInv'
<1> DEFINE u == [held[o] EXCEPT !.spec = spec]
<1>1. held[o] \in OldObject /\ held[o].name = o /\ held[o] # None
  BY StoredFacts DEF OldEdit
<1>2. spec \in OldSpec
  BY ConversionAssumption
<1>3. u \in OldObject /\ u.name = o /\ u.rv = held[o].rv
  BY <1>1, <1>2 DEF OldObject, Object
<1>4. version < MaxVersion /\ Asks("update", Review(V1, <<u>>))
  BY DEF OldEdit
<1> HIDE DEF u
<1> QED
  BY <1>1, <1>3, <1>4, WriteAsked

LEMMA OldCreateIInv ==
  ASSUME IInv, NEW o \in Objects, NEW spec \in OldSpecs, OldCreate(o, spec)
  PROVE  IInv'
<1> DEFINE u == [apiVersion |-> Old, name |-> o, rv |-> 0, spec |-> spec]
<1>1. u \in OldObject
  BY ConversionAssumption DEF OldObject, Object
<1>2. version < MaxVersion /\ Asks("create", Review(V1, <<u>>))
  BY DEF OldCreate
<1> HIDE DEF u
<1> QED
  BY <1>1, <1>2, WriteAsked

LEMMA ProbeIInv ==
  ASSUME IInv, NEW r \in Probes, Probe(r)
  PROVE  IInv'
<1>1. /\ request' = r /\ op' = "probe" /\ op = "idle" /\ r \in Request
      /\ UNCHANGED <<stored, version, held, answer>>
  BY ProbeFacts DEF Probe, Asks
<1>2. TypeOK'
  BY <1>1 DEF IInv, TypeOK, Ops
<1> QED
  BY <1>1, <1>2 DEF IInv, StoreInv, HeldInv, ListInv, WriteInv, UpdateInv, ProbeInv, UpToDate

(* What ServeHTTP writes is a sequence of replies. *)
LEMMA ToOldReplies ==
  ASSUME NEW r \in Request, r.objects \in Seq(V1Object)
  PROVE  ToOld(r) \in Seq(Reply)
<1>1. r.id \in {"", "id"}
  BY DEF Request
<1>2. Failure(r.id) \in Reply
  BY <1>1, NoObjects DEF Failure, Reply
<1>3. ASSUME ~ \E i \in DOMAIN r.objects : V1FromUnstructured(r.objects[i]) = None
      PROVE  Success(r.id, [i \in DOMAIN r.objects |-> Downgrade(r.objects[i])]) \in Reply
  <2>1. DOMAIN r.objects = 1 .. Len(r.objects) /\ Len(r.objects) \in Nat
    OBVIOUS
  <2>2. \A i \in DOMAIN r.objects : Downgrade(r.objects[i]) \in AnyObject
    <3> TAKE i \in DOMAIN r.objects
    <3>1. r.objects[i] \in V1Object /\ V1FromUnstructured(r.objects[i]) # None
      BY <1>3
    <3> QED
      BY <3>1, DowngradeFacts DEF AnyObject, OldObject
  <2>3. [i \in DOMAIN r.objects |-> Downgrade(r.objects[i])] \in Seq(AnyObject)
    BY <2>1, <2>2
  <2> QED
    BY <1>1, <2>3 DEF Success, Reply
<1> QED
  BY <1>2, <1>3 DEF ToOld

LEMMA ToV1Replies ==
  ASSUME NEW r \in Request, r.objects \in Seq(OldObject)
  PROVE  ToV1(r) \in Seq(Reply)
<1>1. r.id \in {"", "id"}
  BY DEF Request
<1>2. Failure(r.id) \in Reply /\ Success(r.id, <<>>) \in Reply
  BY <1>1, NoObjects DEF Failure, Success, Reply
<1>3. ASSUME ~ \E i \in DOMAIN r.objects : OldFromUnstructured(r.objects[i]) = None
      PROVE  Success(r.id, [i \in DOMAIN r.objects |-> Upgrade(r.objects[i])]) \in Reply
  <2>1. DOMAIN r.objects = 1 .. Len(r.objects) /\ Len(r.objects) \in Nat
    OBVIOUS
  <2>2. \A i \in DOMAIN r.objects : Upgrade(r.objects[i]) \in AnyObject
    <3> TAKE i \in DOMAIN r.objects
    <3>1. r.objects[i] \in OldObject /\ OldFromUnstructured(r.objects[i]) # None
      BY <1>3
    <3> QED
      BY <3>1, UpgradeFacts DEF AnyObject, V1Object
  <2>3. [i \in DOMAIN r.objects |-> Upgrade(r.objects[i])] \in Seq(AnyObject)
    BY <2>1, <2>2
  <2> QED
    BY <1>1, <2>3 DEF Success, Reply
<1> QED
  BY <1>2, <1>3 DEF ToV1

LEMMA ServeIInv ==
  ASSUME IInv, Serve
  PROVE  IInv'
<1>1. /\ answer' = ServeHTTP(request) /\ op # "idle"
      /\ UNCHANGED <<stored, version, held, op, request>>
  BY DEF Serve
<1>2. CASE op = "list"
  <2>1. answer' = ToOld(request) /\ request \in Request
    BY <1>1, <1>2 DEF IInv, ListInv, ServeHTTP, TypeOK
  <2>2. answer' \in Seq(Reply)
    BY <1>2, <2>1, ToOldReplies DEF IInv, ListInv
  <2> QED
    BY <1>1, <1>2, <2>1, <2>2
    DEF IInv, TypeOK, StoreInv, HeldInv, ListInv, WriteInv, UpdateInv, ProbeInv, UpToDate
<1>3. CASE op \in {"update", "create"}
  <2>1. answer' = ToV1(request) /\ request \in Request
    BY <1>1, <1>3 DEF IInv, WriteInv, ServeHTTP, TypeOK, V1, Old
  <2>2. answer' \in Seq(Reply)
    BY <1>3, <2>1, ToV1Replies DEF IInv, WriteInv
  <2> QED
    BY <1>1, <1>3, <2>1, <2>2
    DEF IInv, TypeOK, StoreInv, HeldInv, ListInv, WriteInv, UpdateInv, ProbeInv, UpToDate
<1>4. CASE op = "probe"
  <2>1. answer' \in Seq(Reply)
    <3>1. request \in Probes
      BY <1>4 DEF IInv, ProbeInv
    <3>2. Failure("") \in Reply
      BY NoObjects DEF Failure, Reply
    <3>3. CASE request = NoRequest
      <4>1. request.body = "garbled"
        BY <3>3 DEF NoRequest
      <4>2. ServeHTTP(request) = <<Failure("")>>
        BY <4>1 DEF ServeHTTP
      <4>3. \A r \in Reply : <<r>> \in Seq(Reply)
        OBVIOUS
      <4> QED
        BY <1>1, <3>2, <4>2, <4>3
    <3>4. CASE request = [NoRequest EXCEPT !.body = "no request"]
      <4>1. request.body = "no request"
        BY <3>4 DEF NoRequest
      <4>2. ServeHTTP(request) = <<>>
        BY <4>1 DEF ServeHTTP
      <4> QED
        BY <1>1, <4>2
    <3>5. CASE request = Review(V2, <<>>)
      <4>1. request.body = "review" /\ request.desired = V2 /\ V2 # V1 /\ V2 # Old
        BY <3>5 DEF Review, V1, V2, Old
      <4> QED
        BY <1>1, <4>1 DEF ServeHTTP
    <3> QED
      BY <3>1, <3>3, <3>4, <3>5 DEF Probes
  <2> QED
    BY <1>1, <1>4, <2>1
    DEF IInv, TypeOK, StoreInv, HeldInv, ListInv, WriteInv, UpdateInv, ProbeInv, UpToDate
<1> QED
  BY <1>1, <1>2, <1>3, <1>4 DEF IInv, TypeOK, Ops

(* A list that is accepted holds what was converted for it. *)
LEMMA AcceptedList ==
  ASSUME IInv, op = "list", answer # None, Accepted, NEW i \in DOMAIN answer[1].objects
  PROVE  /\ i \in DOMAIN request.objects
         /\ V1FromUnstructured(request.objects[i]) # None
         /\ answer[1].objects[i] = Downgrade(request.objects[i])
<1>1. answer = ToOld(request)
  BY DEF IInv, ListInv
<1>2. CASE \E k \in DOMAIN request.objects : V1FromUnstructured(request.objects[k]) = None
  <2>1. answer = <<Failure(request.id)>>
    BY <1>1, <1>2 DEF ToOld
  <2> QED
    BY <2>1 DEF Accepted, Failure
<1>3. CASE ~ \E k \in DOMAIN request.objects : V1FromUnstructured(request.objects[k]) = None
  <2>1. answer[1].objects = [k \in DOMAIN request.objects |-> Downgrade(request.objects[k])]
    BY <1>1, <1>3 DEF ToOld, Success
  <2> QED
    BY <1>3, <2>1
<1> QED
  BY <1>2, <1>3

LEMMA ListReturnsIInv ==
  ASSUME IInv, ListReturns
  PROVE  IInv'
<1>1. /\ op = "list" /\ answer # None
      /\ op' = "idle" /\ request' = NoRequest /\ answer' = None
      /\ UNCHANGED <<stored, version>>
  BY DEF ListReturns, Answered, Done
<1>2. NoRequest \in Request
  BY NoObjects DEF NoRequest, Request
<1>3. ASSUME Accepted
      PROVE  held' \in [Objects -> OldObject \cup {None}] /\ HeldInv'
  <2>1. ASSUME NEW o \in Objects
        PROVE  \/ held'[o] = None
               \/ \E i \in DOMAIN answer[1].objects :
                    answer[1].objects[i].name = o /\ held'[o] = answer[1].objects[i]
    BY <1>3 DEF ListReturns
  <2>2. ASSUME NEW o \in Objects, held'[o] # None
        PROVE  /\ held'[o] \in OldObject
               /\ held'[o].name = o /\ held'[o].rv <= version
               /\ UpToDate(held[o])' =>
                    /\ Configured(stored[o].spec).scalingMode \in Modes
                    /\ Describes(held'[o].spec, Configured(stored[o].spec))
    <3>1. PICK i \in DOMAIN answer[1].objects :
            answer[1].objects[i].name = o /\ held'[o] = answer[1].objects[i]
      BY <2>1, <2>2
    <3> DEFINE u == request.objects[i]
    <3>2. i \in DOMAIN request.objects /\ V1FromUnstructured(u) # None
          /\ held'[o] = Downgrade(u)
      BY <1>1, <1>3, <3>1, AcceptedList
    <3>3. /\ u \in V1Object /\ u.rv <= version
          /\ UpToDate(u) => stored[u.name] = u
      BY <1>1, <3>2 DEF IInv, ListInv
    <3> HIDE DEF u
    <3>4. /\ Downgrade(u) \in OldObject
          /\ Downgrade(u).name = u.name /\ Downgrade(u).rv = u.rv
          /\ Configured(u.spec).scalingMode \in Modes
          /\ Describes(Downgrade(u).spec, Configured(u.spec))
      BY <3>2, <3>3, DowngradeFacts
    <3> QED
      BY <1>1, <3>1, <3>2, <3>3, <3>4 DEF UpToDate
  <2>3. held' \in [Objects -> OldObject \cup {None}]
    <3>1. /\ DOMAIN held' = Objects /\ held' = [o \in Objects |-> held'[o]]
      BY <1>3 DEF ListReturns
    <3> QED
      BY <2>2, <3>1
  <2> QED
    BY <1>1, <2>2, <2>3 DEF HeldInv
<1>4. ASSUME ~Accepted
      PROVE  held' \in [Objects -> OldObject \cup {None}] /\ HeldInv'
  BY <1>1, <1>4 DEF ListReturns, IInv, TypeOK, HeldInv, UpToDate, OldObject
<1>5. TypeOK'
  BY <1>1, <1>2, <1>3, <1>4 DEF IInv, TypeOK, OldObject
<1> QED
  BY <1>1, <1>3, <1>4, <1>5 DEF IInv, StoreInv, ListInv, WriteInv, UpdateInv, ProbeInv

(* A write that is accepted carries the object converted from the one sent. *)
LEMMA AcceptedWrite ==
  ASSUME IInv, op \in {"update", "create"}, answer # None, Accepted
  PROVE  /\ request.objects[1] \in OldObject
         /\ OldFromUnstructured(request.objects[1]) # None
         /\ answer[1].objects[1] = Upgrade(request.objects[1])
<1>1. answer = ToV1(request) /\ request.objects \in Seq(OldObject)
      /\ Len(request.objects) = 1
  BY DEF IInv, WriteInv
<1>2. request.objects[1] \in OldObject /\ DOMAIN request.objects = {1}
  BY <1>1
<1>3. CASE OldFromUnstructured(request.objects[1]) = None
  <2>1. answer = <<Failure(request.id), Success(request.id, <<>>)>>
    BY <1>1, <1>2, <1>3 DEF ToV1
  <2> QED
    BY <2>1 DEF Accepted
<1>4. CASE OldFromUnstructured(request.objects[1]) # None
  <2>1. answer[1].objects = [k \in DOMAIN request.objects |-> Upgrade(request.objects[k])]
    BY <1>1, <1>2, <1>4 DEF ToV1, Success
  <2> QED
    BY <1>2, <1>4, <2>1
<1> QED
  BY <1>3, <1>4

(* Storing it keeps the invariants of the store and of the client. *)
LEMMA StoreWrite ==
  ASSUME IInv, op \in {"update", "create"}, answer # None, Accepted, held' = held,
         Store(answer[1].objects[1])
  PROVE  /\ stored' \in [Objects -> V1Object \cup {None}]
         /\ version' \in 0 .. MaxVersion + 1
         /\ StoreInv' /\ HeldInv'
<1> DEFINE u == Upgrade(request.objects[1])
           v == [u EXCEPT !.rv = version + 1]
<1>1. u \in V1Object /\ answer[1].objects[1] = u
  BY AcceptedWrite, UpgradeFacts
<1>2. version \in Nat /\ version <= MaxVersion
  BY ConversionAssumption DEF IInv, TypeOK, WriteInv
<1> HIDE DEF u
<1>3. u.name \in Objects /\ v \in V1Object /\ v.name = u.name /\ v.rv = version + 1
  BY <1>1, <1>2 DEF V1Object, Object
<1>4. stored' = [stored EXCEPT ![u.name] = v] /\ version' = version + 1
  BY <1>1 DEF Store
<1> HIDE DEF v
<1>5. stored' \in [Objects -> V1Object \cup {None}] /\ StoreInv' /\ HeldInv'
  BY <1>3, <1>4, NewVersion
<1> QED
  BY <1>2, <1>4, <1>5, ConversionAssumption

LEMMA WriteReturnsIInv ==
  ASSUME IInv, UpdateReturns \/ CreateReturns
  PROVE  IInv'
<1>1. /\ op \in {"update", "create"} /\ answer # None
      /\ op' = "idle" /\ request' = NoRequest /\ answer' = None /\ held' = held
  BY DEF UpdateReturns, CreateReturns, Answered, Done
<1>2. \/ Accepted /\ Store(answer[1].objects[1])
      \/ UNCHANGED <<stored, version>>
  BY DEF UpdateReturns, CreateReturns
<1>3. NoRequest \in Request
  BY NoObjects DEF NoRequest, Request
<1>4. /\ stored' \in [Objects -> V1Object \cup {None}]
      /\ version' \in 0 .. MaxVersion + 1
      /\ StoreInv' /\ HeldInv'
  <2>1. CASE Accepted /\ Store(answer[1].objects[1])
    BY <1>1, <2>1, StoreWrite
  <2>2. CASE UNCHANGED <<stored, version>>
    BY <1>1, <2>2 DEF IInv, TypeOK, StoreInv, HeldInv, UpToDate, V1Object
  <2> QED
    BY <1>2, <2>1, <2>2
<1>5. TypeOK'
  BY <1>1, <1>3, <1>4 DEF IInv, TypeOK, V1Object
<1> QED
  BY <1>1, <1>4, <1>5 DEF IInv, ListInv, WriteInv, UpdateInv, ProbeInv

(* What a write changes in the store is the object converted from the one   *)
(* sent.                                                                   *)
LEMMA WriteStores ==
  ASSUME IInv, UpdateReturns \/ CreateReturns, stored' # stored
  PROVE  LET u == request.objects[1]
         IN  /\ u \in OldObject /\ OldFromUnstructured(u) # None
             /\ u.name \in Objects
             /\ answer[1].objects[1] = Upgrade(u)
             /\ stored'[u.name].spec = Upgrade(u).spec
<1> DEFINE u == request.objects[1]
<1>1. /\ op \in {"update", "create"} /\ Accepted /\ answer # None
      /\ Store(answer[1].objects[1])
  BY DEF UpdateReturns, CreateReturns, Answered
<1>2. /\ u \in OldObject /\ OldFromUnstructured(u) # None
      /\ answer[1].objects[1] = Upgrade(u)
  BY <1>1, AcceptedWrite
<1> HIDE DEF u
<1>3. Upgrade(u) \in V1Object /\ Upgrade(u).name = u.name
  BY <1>2, UpgradeFacts
<1>4. u.name \in Objects
  BY <1>2 DEF OldObject, Object
<1>5. stored'[u.name].spec = Upgrade(u).spec
  BY <1>1, <1>2, <1>3, <1>4 DEF Store, V1Object, Object, IInv, TypeOK
<1> QED
  BY <1>2, <1>4, <1>5 DEF u

LEMMA ProbeReturnsIInv ==
  ASSUME IInv, ProbeReturns
  PROVE  IInv'
<1>1. /\ op' = "idle" /\ request' = NoRequest /\ answer' = None
      /\ UNCHANGED <<stored, version, held>>
  BY DEF ProbeReturns, Done
<1>2. NoRequest \in Request
  BY NoObjects DEF NoRequest, Request
<1>3. TypeOK'
  BY <1>1, <1>2 DEF IInv, TypeOK
<1> QED
  BY <1>1, <1>3
  DEF IInv, StoreInv, HeldInv, ListInv, WriteInv, UpdateInv, ProbeInv, UpToDate

LEMMA NextIInv == IInv /\ [Next]_vars => IInv'
<1> SUFFICES ASSUME IInv, [Next]_vars PROVE IInv'
  OBVIOUS
<1>1. CASE \E o \in Objects : \E spec \in V1Specs : V1Write(o, spec)
  BY <1>1, V1WriteIInv
<1>2. CASE \E o \in Objects : V1Delete(o)
  BY <1>2, V1DeleteIInv
<1>3. CASE \E o \in Objects : \E spec \in OldSpecs : OldEdit(o, spec) \/ OldCreate(o, spec)
  BY <1>3, OldEditIInv, OldCreateIInv
<1>4. CASE OldList
  BY <1>4, OldListIInv
<1>5. CASE \E r \in Probes : Probe(r)
  BY <1>5, ProbeIInv
<1>6. CASE Serve
  BY <1>6, ServeIInv
<1>7. CASE ListReturns
  BY <1>7, ListReturnsIInv
<1>8. CASE UpdateReturns \/ CreateReturns
  BY <1>8, WriteReturnsIInv
<1>9. CASE ProbeReturns
  BY <1>9, ProbeReturnsIInv
<1>10. CASE UNCHANGED vars
  BY <1>10 DEF vars, IInv, TypeOK, StoreInv, HeldInv, ListInv, WriteInv, UpdateInv,
               ProbeInv, UpToDate
<1> QED
  BY <1>1, <1>2, <1>3, <1>4, <1>5, <1>6, <1>7, <1>8, <1>9, <1>10 DEF Next

-----------------------------------------------------------------------------
(* The theorems. *)

(* IInv holds in every reachable state. *)
THEOREM Invariance == Spec => []IInv
  BY InitIInv, NextIInv, PTL DEF Spec

(* Every variable keeps its type; ServeHTTP always writes proper replies.   *)
THEOREM TypeCorrect == Spec => []TypeOK
<1>1. IInv => TypeOK
  BY DEF IInv
<1> QED
  BY <1>1, Invariance, PTL

(* What is read through v1alpha1 is what the monkeys work with. *)
THEOREM ViewsAreFaithful == Spec => []ViewIsFaithful
<1>1. IInv => ViewIsFaithful
  BY DEF IInv, HeldInv, ViewIsFaithful, UpToDate
<1> QED
  BY <1>1, Invariance, PTL

(* An edit through v1alpha1 changes for the monkeys what it says, and the   *)
(* rest only where the mode was antiPressure.                              *)
THEOREM EditsArePrecise == Spec => OldEditDoesJustThat
<1>1. ASSUME IInv, [Next]_vars
      PROVE  EditIsPrecise
  <2> SUFFICES ASSUME op = "update", op' = "idle", stored' # stored
               PROVE  EditIsPrecise
    BY DEF EditIsPrecise
  <2> DEFINE u == request.objects[1]
             o == u.name
             before == Configured(stored[o].spec)
             after == Configured(stored'[o].spec)
  <2>1. UpdateReturns
    BY <1>1 DEF Next, vars, V1Write, V1Delete, OldEdit, OldCreate, OldList, Probe, Asks,
                Serve, ListReturns, CreateReturns, ProbeReturns, Answered
  <2>2. /\ stored[answer[1].objects[1].name] # None
        /\ stored[answer[1].objects[1].name].rv = answer[1].objects[1].rv
    BY <2>1 DEF UpdateReturns
  <2>3. /\ u \in OldObject /\ OldFromUnstructured(u) # None /\ o \in Objects
        /\ answer[1].objects[1] = Upgrade(u)
        /\ stored'[o].spec = Upgrade(u).spec
    BY <1>1, <2>1, WriteStores
  <2>4. held[o] # None /\ u.rv = held[o].rv
    BY <1>1 DEF IInv, UpdateInv
  <2> HIDE DEF u
  <2>5. /\ Upgrade(u) \in V1Object /\ Upgrade(u).name = o /\ Upgrade(u).rv = u.rv
        /\ Configured(Upgrade(u).spec).scalingMode \in {"killPod", "randomScale"}
        /\ Describes(u.spec, Configured(Upgrade(u).spec))
    BY <2>3, UpgradeFacts
  <2>6. /\ Describes(held[o].spec, before) /\ before.scalingMode \in Modes
    BY <1>1, <2>2, <2>3, <2>4, <2>5, StoredFacts DEF IInv, HeldInv, UpToDate
  <2>7. Describes(u.spec, after) /\ after.scalingMode \in {"killPod", "randomScale"}
    BY <2>3, <2>5
  <2> HIDE DEF o, before, after
  <2>8. \A f \in DOMAIN Counterpart :
           u.spec[f] = held[o].spec[f] =>
             \/ after[Counterpart[f]] = before[Counterpart[f]]
             \/ f = "podMode" /\ before.scalingMode = "antiPressure"
    BY <2>6, <2>7 DEF Counterpart, Describes, Modes
  <2> QED
    BY <2>7, <2>8 DEF EditIsPrecise, u, o, before, after
<1> QED
  BY <1>1, Invariance, PTL DEF Spec, OldEditDoesJustThat

(* The webhook never leaves an object in the store that it could not read   *)
(* again, although a failed conversion answers with a success as well.     *)
THEOREM NothingHalfStored == Spec => NothingHalfConverted
<1>1. ASSUME IInv, [Next]_vars, op # "idle", op' = "idle", stored' # stored
      PROVE  Complete(stored'[request.objects[1].name].spec)
  <2>1. UpdateReturns \/ CreateReturns
    BY <1>1 DEF Next, vars, V1Write, V1Delete, OldEdit, OldCreate, OldList, Probe, Asks,
                Serve, ListReturns, ProbeReturns
  <2> QED
    BY <1>1, <2>1, WriteStores, UpgradeFacts
<1> QED
  BY <1>1, Invariance, PTL DEF Spec, NothingHalfConverted

(* An object of v1 is read exactly if it has all its fields. *)
LEMMA V1IsRead == \A u \in V1Object : V1FromUnstructured(u) # None <=> Complete(u.spec)
<1> SUFFICES ASSUME NEW u \in V1Object, Complete(u.spec) PROVE V1FromUnstructured(u) # None
  BY DEF V1FromUnstructured
<1> DEFINE s == [u.spec EXCEPT !.timeout = Timeout(u.spec.timeout)]
<1>1. u.apiVersion = V1 /\ u.spec \in V1Spec
  BY DEF V1Object, Object
<1>2. \A f \in {"deployment", "minReplicas", "maxReplicas", "enabled", "scalingMode",
                "timeout"} : u.spec[f] # None
  BY <1>1 DEF Complete, V1Spec
<1>3. /\ u.spec.deployment \in Names /\ u.spec.minReplicas \in Nat
      /\ u.spec.maxReplicas \in Nat /\ u.spec.enabled \in BOOLEAN
      /\ u.spec.scalingMode \in Modes /\ u.spec.timeout \in Texts
  BY <1>1, <1>2 DEF V1Spec
<1>4. s \in V1Config
  BY <1>1, <1>3, TimeoutFacts DEF V1Spec, V1Config
<1>5. V1FromUnstructured(u) = [u EXCEPT !.spec = s]
  BY <1>1 DEF V1FromUnstructured
<1> HIDE DEF s
<1>6. V1FromUnstructured(u) \in Object(V1, V1Config)
  BY <1>4, <1>5 DEF V1Object, Object
<1> QED
  BY <1>6, ConversionAssumption

(* A list through v1alpha1 returns all the objects that were asked for, or, *)
(* if one of them has a field that is not set, nothing (conversion.go:133-  *)
(* 190).                                                                   *)
THEOREM ListsAreWhole == Spec => ListIsAllOrNothing
<1>1. ASSUME IInv, [Next]_vars, op = "list", op' = "idle"
      PROVE  IF \A i \in DOMAIN request.objects : Complete(request.objects[i].spec)
             THEN \A o \in Objects :
                    IF \E i \in DOMAIN request.objects : request.objects[i].name = o
                    THEN /\ held'[o] # None
                         /\ \E i \in DOMAIN request.objects :
                              request.objects[i].name = o /\ request.objects[i].rv = held'[o].rv
                    ELSE held'[o] = None
             ELSE held' = held
  <2>1. ListReturns
    BY <1>1 DEF Next, vars, V1Write, V1Delete, OldEdit, OldCreate, OldList, Probe, Asks,
                Serve, UpdateReturns, CreateReturns, ProbeReturns, Answered
  <2>2. answer = ToOld(request) /\ request.desired = Old
    BY <1>1, <2>1 DEF IInv, ListInv, ListReturns, Answered
  <2>3. \A i \in DOMAIN request.objects : request.objects[i] \in V1Object
    BY <1>1 DEF IInv, ListInv
  <2>4. CASE ~ \A i \in DOMAIN request.objects : Complete(request.objects[i].spec)
    <3>1. answer = <<Failure(request.id)>>
      BY <2>2, <2>3, <2>4, V1IsRead DEF ToOld
    <3>2. ~Accepted
      BY <3>1 DEF Accepted, Failure
    <3> QED
      BY <2>1, <2>4, <3>2 DEF ListReturns
  <2>5. CASE \A i \in DOMAIN request.objects : Complete(request.objects[i].spec)
    <3> DEFINE objs == [i \in DOMAIN request.objects |-> Downgrade(request.objects[i])]
    <3>1. answer = <<Success(request.id, objs)>>
      BY <2>2, <2>3, <2>5, V1IsRead DEF ToOld
    <3>2. ASSUME NEW i \in DOMAIN request.objects
          PROVE  /\ objs[i].apiVersion = Old /\ objs[i].name = request.objects[i].name
                 /\ objs[i].rv = request.objects[i].rv /\ objs[i] # None
      <4>1. V1FromUnstructured(request.objects[i]) # None
        BY <2>3, <2>5, V1IsRead
      <4>2. objs[i] \in OldObject /\ objs[i].name = request.objects[i].name
            /\ objs[i].rv = request.objects[i].rv
        BY <2>3, <4>1, DowngradeFacts
      <4> QED
        BY <4>2, ConversionAssumption DEF OldObject, Object
    <3>3. DOMAIN objs = DOMAIN request.objects
      OBVIOUS
    <3> HIDE DEF objs
    <3>4. /\ Len(answer) = 1 /\ answer[1].status = "Success" /\ answer[1].id = request.id
          /\ answer[1].objects = objs
      BY <3>1 DEF Success
    <3>5. Accepted
      BY <2>2, <3>2, <3>3, <3>4 DEF Accepted
    <3>6. ASSUME NEW o \in Objects
          PROVE  IF \E i \in DOMAIN objs : objs[i].name = o
                 THEN \E i \in DOMAIN objs : objs[i].name = o /\ held'[o] = objs[i]
                 ELSE held'[o] = None
      BY <2>1, <3>4, <3>5 DEF ListReturns
    <3>7. ASSUME NEW o \in Objects
          PROVE  IF \E i \in DOMAIN request.objects : request.objects[i].name = o
                 THEN /\ held'[o] # None
                      /\ \E i \in DOMAIN request.objects :
                           request.objects[i].name = o /\ request.objects[i].rv = held'[o].rv
                 ELSE held'[o] = None
      BY <3>2, <3>3, <3>6
    <3> QED
      BY <2>5, <3>7
  <2> QED
    BY <2>4, <2>5
<1> QED
  BY <1>1, Invariance, PTL DEF Spec, ListIsAllOrNothing
=============================================================================
