------------------------------ MODULE Conversion ------------------------------
(***************************************************************************)
(* The conversion webhook (internal/endpoints/conversion.go) and the two   *)
(* versions of the API (internal/apis/v1/types.go and v1alpha1/types.go).  *)
(*                                                                         *)
(* The API server stores ChaosMonkeyConfigurations as v1. For a client     *)
(* that still speaks v1alpha1 it asks the webhook to convert what it reads *)
(* and what it writes, while other clients write v1 directly. The monkeys  *)
(* are configured from the stored object by UnmarshalJSON.                 *)
(*                                                                         *)
(* An object is its version, its identity, its resourceVersion and its     *)
(* spec, where None is a field that is not set: no field is required by    *)
(* the schema of v1, and those of v1alpha1 have defaults only if there is  *)
(* a spec. The other metadata that the conversions copy go the same way as *)
(* the identity. A timeout is a text; what time.ParseDuration and String   *)
(* make of it are constants, related by TimeoutAssumption.                 *)
(***************************************************************************)
EXTENDS Naturals, Sequences, FiniteSets

CONSTANTS Objects,       \* identities of the configurations
          Names,         \* names of deployments
          Texts,         \* texts that a timeout may be written as
          Durations,     \* what those mean
          TenMinutes,    \* the default timeout
          Zero,          \* the timeout of an object without spec
          ParseDuration, \* the duration of a text, or None
          String,        \* the canonical text of a duration
          V1Specs,       \* the specs that clients of v1 write
          OldSpecs,      \* the specs that the client of v1alpha1 writes
          MaxVersion,    \* bound: writes after which no new one is started
          None           \* a field, an object or a request that is not there

V1  == "cm.massix.github.io/v1"
Old == "cm.massix.github.io/v1alpha1"
V2  == "cm.massix.github.io/v2" \* one that there is not

Modes == {"randomScale", "antiPressure", "killPod"}

V1Spec == [deployment : Names \cup {None}, minReplicas : Nat \cup {None},
           maxReplicas : Nat \cup {None}, enabled : BOOLEAN \cup {None},
           scalingMode : Modes \cup {None}, timeout : Texts \cup {None}]

OldSpec == [deploymentName : Names \cup {None}, minReplicas : Nat \cup {None},
            maxReplicas : Nat \cup {None}, enabled : BOOLEAN \cup {None},
            podMode : BOOLEAN \cup {None}, timeout : Texts \cup {None}]

(* The spec of v1 as a struct, once it is read. *)
V1Config == [deployment : Names, minReplicas : Nat, maxReplicas : Nat,
             enabled : BOOLEAN, scalingMode : Modes, timeout : Durations]

Object(version, Spec_) == [apiVersion : {version}, name : Objects, rv : Nat, spec : Spec_]

ASSUME TimeoutAssumption ==
  /\ {TenMinutes, Zero} \subseteq Durations
  /\ ParseDuration \in [Texts -> Durations \cup {None}]
  /\ String \in [Durations -> Texts]
  /\ \A d \in Durations : ParseDuration[String[d]] = d

ASSUME ConversionAssumption ==
  /\ IsFiniteSet(Objects)
  /\ V1Specs \subseteq V1Spec
  /\ OldSpecs \subseteq OldSpec
  /\ MaxVersion \in Nat
  /\ None \notin Names /\ None \notin Texts /\ None \notin Durations
  /\ None \notin Modes /\ None \notin BOOLEAN /\ None \notin Nat
  /\ None \notin Object(V1, V1Spec) /\ None \notin Object(V1, V1Config)
  /\ None \notin Object(Old, OldSpec)

-----------------------------------------------------------------------------
(* The versions of the API. *)

Complete(spec) == \A f \in DOMAIN spec : spec[f] # None

(* An unparsable timeout is replaced by the default. *)
Timeout(text) == IF ParseDuration[text] = None THEN TenMinutes ELSE ParseDuration[text]

(* Mutant: the default for an unparsable timeout is forgotten. *)
V1FromUnstructuredZero(u) ==
  IF u.apiVersion = V1 /\ Complete(u.spec)
  THEN [u EXCEPT !.spec = [u.spec EXCEPT
          !.timeout = IF ParseDuration[@] = None THEN Zero ELSE ParseDuration[@]]]
  ELSE None

(* v1.FromUnstructured; None is the error. *)
V1FromUnstructured(u) ==
  IF u.apiVersion = V1 /\ Complete(u.spec)
  THEN [u EXCEPT !.spec = [u.spec EXCEPT !.timeout = Timeout(u.spec.timeout)]]
  ELSE None

(* Mutant: the duration is written as it is. *)
V1ToUnstructuredRaw(c) == c

(* v1.ToUnstructured *)
V1ToUnstructured(c) ==
  [c EXCEPT !.spec = [c.spec EXCEPT !.timeout = String[c.spec.timeout]]]

(* Mutant: fields that are not found keep their zero value. *)
OldFromUnstructuredUnchecked(u) ==
  LET OrZero(value, zero) == IF value = None THEN zero ELSE value
  IN  [u EXCEPT !.spec = [u.spec EXCEPT !.minReplicas = OrZero(@, 0),
                                        !.maxReplicas = OrZero(@, 0),
                                        !.enabled = OrZero(@, FALSE),
                                        !.podMode = OrZero(@, FALSE),
                                        !.timeout = OrZero(@, String[Zero])]]

(* v1alpha1.FromUnstructured: the timeout stays a text. *)
OldFromUnstructured(u) == IF u.apiVersion = Old /\ Complete(u.spec) THEN u ELSE None

(* v1.UnmarshalJSON: fields that are not set get their zero value, only the *)
(* timeout a default.                                                      *)
UnmarshalJSON(spec) ==
  LET OrZero(value, zero) == IF value = None THEN zero ELSE value
  IN  [deployment  |-> spec.deployment,
       minReplicas |-> OrZero(spec.minReplicas, 0),
       maxReplicas |-> OrZero(spec.maxReplicas, 0),
       enabled     |-> OrZero(spec.enabled, FALSE),
       scalingMode |-> spec.scalingMode,
       timeout     |-> IF spec.timeout = None THEN TenMinutes ELSE Timeout(spec.timeout)]

(* What the monkeys of an object are configured with. Without any spec,     *)
(* UnmarshalJSON is not called.                                            *)
Configured(spec) ==
  IF \A f \in DOMAIN spec : spec[f] = None
  THEN [UnmarshalJSON(spec) EXCEPT !.timeout = Zero]
  ELSE UnmarshalJSON(spec)

-----------------------------------------------------------------------------
(* The conversions. *)

(* Mutant: MaxReplicas is taken from the wrong field. *)
UpgradeBounds(u) ==
  LET s == OldFromUnstructured(u).spec
  IN  V1ToUnstructured(
        [apiVersion |-> V1, name |-> u.name, rv |-> u.rv,
         spec |-> [deployment  |-> s.deploymentName,
                   minReplicas |-> s.minReplicas,
                   maxReplicas |-> s.minReplicas,
                   enabled     |-> s.enabled,
                   scalingMode |-> IF s.podMode = TRUE THEN "killPod" ELSE "randomScale",
                   timeout     |-> Timeout(s.timeout)]])

(* The body of the loop of convertFromV1Alpha1ToV1. *)
Upgrade(u) ==
  LET s == OldFromUnstructured(u).spec
  IN  V1ToUnstructured(
        [apiVersion |-> V1, name |-> u.name, rv |-> u.rv,
         spec |-> [deployment  |-> s.deploymentName,
                   minReplicas |-> s.minReplicas,
                   maxReplicas |-> s.maxReplicas,
                   enabled     |-> s.enabled,
                   scalingMode |-> IF s.podMode = TRUE THEN "killPod" ELSE "randomScale",
                   timeout     |-> Timeout(s.timeout)]])

(* The body of the loop of convertFromV1ToV1Alpha1. *)
Downgrade(u) ==
  LET s == V1FromUnstructured(u).spec
  IN  [apiVersion |-> Old, name |-> u.name, rv |-> u.rv,
       spec |-> [deploymentName |-> s.deployment,
                 minReplicas    |-> s.minReplicas,
                 maxReplicas    |-> s.maxReplicas,
                 enabled        |-> s.enabled,
                 podMode        |-> s.scalingMode = "killPod",
                 timeout        |-> String[s.timeout]]]

Success(id, objects) == [id |-> id, status |-> "Success", objects |-> objects]
Failure(id) == [id |-> id, status |-> "Failure", objects |-> <<>>]

(* Mutant: each result is put in front of the others. *)
ToOldReversed(r) ==
  IF \E i \in DOMAIN r.objects : V1FromUnstructured(r.objects[i]) = None
  THEN <<Failure(r.id)>>
  ELSE <<Success(r.id, [i \in DOMAIN r.objects |->
                          Downgrade(r.objects[Len(r.objects) + 1 - i])])>>

(* One object that cannot be read fails the whole request. *)
ToOld(r) ==
  IF \E i \in DOMAIN r.objects : V1FromUnstructured(r.objects[i]) = None
  THEN <<Failure(r.id)>>
  ELSE <<Success(r.id, [i \in DOMAIN r.objects |-> Downgrade(r.objects[i])])>>

(* Here the failure is written, and then a success without objects.         *)
ToV1(r) ==
  IF \E i \in DOMAIN r.objects : OldFromUnstructured(r.objects[i]) = None
  THEN <<Failure(r.id), Success(r.id, <<>>)>>
  ELSE <<Success(r.id, [i \in DOMAIN r.objects |-> Upgrade(r.objects[i])])>>

(* ServeHTTP: the documents written for a request. A body without a request *)
(* is a nil pointer, a panic that net/http recovers from.                  *)
ServeHTTP(r) ==
  CASE r.body = "garbled"    -> <<Failure("")>>
    [] r.body = "no request" -> <<>>
    [] r.body = "review"     -> IF r.desired = Old THEN ToOld(r)
                                ELSE IF r.desired = V1 THEN ToV1(r) ELSE <<>>

-----------------------------------------------------------------------------
VARIABLES
  stored,  \* API server: each object as it is stored, or None
  version, \* API server: the last resourceVersion
  held,    \* the client of v1alpha1: what it last read of each object, or None
  op,      \* what the request under way is for, "idle" if there is none
  request, \* that request
  answer   \* the documents that ServeHTTP has written, or None

vars == <<stored, version, held, op, request, answer>>

Ops == {"list", "update", "create", "probe"}

Review(desired, objects) ==
  [body |-> "review", id |-> "id", desired |-> desired, objects |-> objects]

AnyObject == Object(V1, V1Spec) \cup Object(Old, OldSpec)

Request == [body : {"review", "garbled", "no request"}, id : {"", "id"},
            desired : {"", Old, V1, V2}, objects : Seq(AnyObject)]

Reply == [id : {"", "id"}, status : {"Success", "Failure"}, objects : Seq(AnyObject)]

NoRequest == [body |-> "garbled", id |-> "", desired |-> "", objects |-> <<>>]

(* What others than the API server may post. *)
Probes == {NoRequest, [NoRequest EXCEPT !.body = "no request"], Review(V2, <<>>)}

TypeOK ==
  /\ stored \in [Objects -> Object(V1, V1Spec) \cup {None}]
  /\ version \in 0 .. MaxVersion + 1 \* one more by the request under way
  /\ held \in [Objects -> Object(Old, OldSpec) \cup {None}]
  /\ op \in Ops \cup {"idle"}
  /\ request \in Request
  /\ answer # None => answer \in Seq(Reply)

Init ==
  /\ stored = [o \in Objects |-> None]
  /\ version = 0
  /\ held = [o \in Objects |-> None]
  /\ op = "idle"
  /\ request = NoRequest
  /\ answer = None

(* A client of v1 creates or replaces an object. *)
V1Write(o, spec) ==
  /\ version < MaxVersion
  /\ version' = version + 1
  /\ stored' = [stored EXCEPT ![o] =
                  [apiVersion |-> V1, name |-> o, rv |-> version + 1, spec |-> spec]]
  /\ UNCHANGED <<held, op, request, answer>>

V1Delete(o) ==
  /\ stored[o] # None
  /\ stored' = [stored EXCEPT ![o] = None]
  /\ UNCHANGED <<version, held, op, request, answer>>

Asks(what, r) ==
  /\ op = "idle"
  /\ op' = what
  /\ request' = r
  /\ UNCHANGED <<stored, version, held, answer>>

(* The client of v1alpha1 lists the objects; the API server has them        *)
(* converted all at once.                                                  *)
Existing == {o \in Objects : stored[o] # None}

OldList ==
  /\ Existing # {}
  /\ \E order \in [1 .. Cardinality(Existing) -> Existing] :
       /\ \A o \in Existing : \E i \in DOMAIN order : order[i] = o
       /\ Asks("list", Review(Old, [i \in DOMAIN order |-> stored[order[i]]]))

(* It replaces the spec of an object that it holds. *)
OldEdit(o, spec) ==
  /\ version < MaxVersion
  /\ held[o] # None
  /\ Asks("update", Review(V1, <<[held[o] EXCEPT !.spec = spec]>>))

OldCreate(o, spec) ==
  /\ version < MaxVersion
  /\ Asks("create",
          Review(V1, <<[apiVersion |-> Old, name |-> o, rv |-> 0, spec |-> spec]>>))

Probe(r) == Asks("probe", r)

(* The webhook handles the request. *)
Serve ==
  /\ op # "idle" /\ answer = None
  /\ answer' = ServeHTTP(request)
  /\ UNCHANGED <<stored, version, held, op, request>>

(* The API server uses one success that has the same objects, in the same   *)
(* order, in the version that it asked for.                                *)
Accepted ==
  /\ Len(answer) = 1
  /\ answer[1].status = "Success" /\ answer[1].id = request.id
  /\ DOMAIN answer[1].objects = DOMAIN request.objects
  /\ \A i \in DOMAIN request.objects :
       /\ answer[1].objects[i].apiVersion = request.desired
       /\ answer[1].objects[i].name = request.objects[i].name

Answered(what) == op = what /\ answer # None

Done == op' = "idle" /\ request' = NoRequest /\ answer' = None

ListReturns ==
  /\ Answered("list")
  /\ held' = IF Accepted
             THEN [o \in Objects |->
                     IF \E i \in DOMAIN answer[1].objects : answer[1].objects[i].name = o
                     THEN LET i == CHOOSE i \in DOMAIN answer[1].objects :
                                     answer[1].objects[i].name = o
                          IN  answer[1].objects[i]
                     ELSE None]
             ELSE held
  /\ Done
  /\ UNCHANGED <<stored, version>>

Store(u) ==
  /\ version' = version + 1
  /\ stored' = [stored EXCEPT ![u.name] = [u EXCEPT !.rv = version + 1]]

(* The object is stored if nobody has written it since it was read. *)
UpdateReturns ==
  /\ Answered("update")
  /\ LET u == answer[1].objects[1]
         current == Accepted /\ stored[u.name] # None /\ stored[u.name].rv = u.rv
     IN  IF current THEN Store(u) ELSE UNCHANGED <<stored, version>>
  /\ Done
  /\ UNCHANGED held

CreateReturns ==
  /\ Answered("create")
  /\ LET u == answer[1].objects[1]
     IN  IF Accepted /\ stored[u.name] = None
         THEN Store(u) ELSE UNCHANGED <<stored, version>>
  /\ Done
  /\ UNCHANGED held

ProbeReturns ==
  /\ Answered("probe")
  /\ Done
  /\ UNCHANGED <<stored, version, held>>

Next ==
  \/ \E o \in Objects : \/ \E spec \in V1Specs : V1Write(o, spec)
                        \/ V1Delete(o)
                        \/ \E spec \in OldSpecs : OldEdit(o, spec) \/ OldCreate(o, spec)
  \/ OldList
  \/ \E r \in Probes : Probe(r)
  \/ Serve
  \/ ListReturns \/ UpdateReturns \/ CreateReturns \/ ProbeReturns

Spec == Init /\ [][Next]_vars

-----------------------------------------------------------------------------
(* Safety. *)

(* The spec of v1alpha1 says of a configuration what the monkeys make of it.*)
Describes(old, c) ==
  /\ old.deploymentName = c.deployment
  /\ old.minReplicas = c.minReplicas
  /\ old.maxReplicas = c.maxReplicas
  /\ old.enabled = c.enabled
  /\ old.podMode = (c.scalingMode = "killPod")
  /\ Timeout(old.timeout) = c.timeout

(* What the client of v1alpha1 reads through the webhook is, until somebody *)
(* else writes the object, what UnmarshalJSON configures the monkeys with:  *)
(* the three places that parse a timeout agree on its default.             *)
ViewIsFaithful ==
  \A o \in Objects :
    held[o] # None /\ stored[o] # None /\ held[o].rv = stored[o].rv =>
      Describes(held[o].spec, Configured(stored[o].spec))

Counterpart == [deploymentName |-> "deployment", minReplicas |-> "minReplicas",
                maxReplicas |-> "maxReplicas", enabled |-> "enabled",
                podMode |-> "scalingMode", timeout |-> "timeout"]

(* A read, an edit and a write through v1alpha1, whatever other clients do  *)
(* in between, change for the monkeys what the edit changed and nothing     *)
(* else; only antiPressure, which v1alpha1 cannot express, gives way.       *)
EditIsPrecise ==
  op = "update" /\ op' = "idle" /\ stored' # stored =>
    LET o      == request.objects[1].name
        was    == held[o].spec
        new    == request.objects[1].spec
        before == Configured(stored[o].spec)
        after  == Configured(stored'[o].spec)
    IN  /\ Describes(new, after)
        /\ \A f \in DOMAIN Counterpart :
             new[f] = was[f] =>
               \/ after[Counterpart[f]] = before[Counterpart[f]]
               \/ f = "podMode" /\ before.scalingMode = "antiPressure"

OldEditDoesJustThat == [][EditIsPrecise]_vars

(* A list through v1alpha1 has every object that was there when it was      *)
(* asked for, in that version, or fails as a whole: exactly if some object  *)
(* has a field that is not set.                                            *)
ListIsAllOrNothing ==
  [][op = "list" /\ op' = "idle" =>
       IF \A i \in DOMAIN request.objects : Complete(request.objects[i].spec)
       THEN \A o \in Objects :
              IF \E i \in DOMAIN request.objects : request.objects[i].name = o
              THEN /\ held'[o] # None
                   /\ \E i \in DOMAIN request.objects :
                        request.objects[i].name = o /\ request.objects[i].rv = held'[o].rv
              ELSE held'[o] = None
       ELSE held' = held]_vars

(* What arrives in the store by way of the webhook has all its fields, so   *)
(* that it can be read again: a failed conversion stores nothing, although  *)
(* its answer has a success in it.                                         *)
NothingHalfConverted ==
  [][op # "idle" /\ op' = "idle" /\ stored' # stored =>
       Complete(stored'[request.objects[1].name].spec)]_vars

-----------------------------------------------------------------------------
(* What the documentation says, and the code does not do. *)

(* conversion.go:43: "Either "Success" or "Failure"". A failed conversion   *)
(* to v1 writes both.                                                      *)
OneReply == answer # None /\ request.body = "review" => Len(answer) = 1

(* README.md:198-199: "there is a conversion endpoint in case you are still *)
(* using the older version of the API". A client that edits another field   *)
(* turns antiPressure into randomScale.                                    *)
EditKeepsTheMode ==
  [][op = "update" /\ op' = "idle" /\ stored' # stored =>
       LET o == request.objects[1].name
       IN  request.objects[1].spec.podMode = held[o].spec.podMode =>
             stored'[o].spec.scalingMode = stored[o].spec.scalingMode]_vars

(* A configuration that the monkeys act on can be listed through v1alpha1:  *)
(* not one that leaves the timeout to its default.                         *)
ActedOnIsListed ==
  [][op = "list" /\ op' = "idle" /\ held' = held =>
       \E i \in DOMAIN request.objects :
         Configured(request.objects[i].spec).scalingMode = None]_vars
=============================================================================
