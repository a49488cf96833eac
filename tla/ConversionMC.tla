---------------------------- MODULE ConversionMC ----------------------------
(***************************************************************************)
(* Constants for TLC: specs in which every mode, every kind of timeout and *)
(* every way to leave out fields that the schemas allow occurs.            *)
(***************************************************************************)
EXTENDS Conversion

MCTexts == {"60s", "1m0s", "10m0s", "0s", "soon"}
MCDurations == {"one minute", "ten minutes", "nothing"}

MCParseDuration ==
  [t \in MCTexts |-> CASE t \in {"60s", "1m0s"} -> "one minute"
                       [] t = "10m0s" -> "ten minutes"
                       [] t = "0s" -> "nothing"
                       [] t = "soon" -> None]

MCString ==
  [d \in MCDurations |-> CASE d = "one minute" -> "1m0s"
                           [] d = "ten minutes" -> "10m0s"
                           [] d = "nothing" -> "0s"]

Scale == [deployment |-> "web", minReplicas |-> 1, maxReplicas |-> 2,
          enabled |-> TRUE, scalingMode |-> "randomScale", timeout |-> "60s"]

(* minReplicas and maxReplicas are compared by a rule of the schema, so that*)
(* they are set whenever there is a spec at all.                           *)
MCV1Specs == {
  Scale,
  [Scale EXCEPT !.scalingMode = "antiPressure", !.enabled = FALSE],
  [Scale EXCEPT !.scalingMode = "killPod", !.timeout = "soon"],
  [Scale EXCEPT !.timeout = None],
  [f \in DOMAIN Scale |-> None] }

OldScale == [deploymentName |-> "web", minReplicas |-> 1, maxReplicas |-> 2,
             enabled |-> TRUE, podMode |-> FALSE, timeout |-> "1m0s"]

(* With a spec, the fields that are not set get the defaults of the schema. *)
MCOldSpecs == {
  OldScale,
  [OldScale EXCEPT !.enabled = FALSE],
  [OldScale EXCEPT !.podMode = TRUE, !.deploymentName = "db"],
  [OldScale EXCEPT !.timeout = "soon"],
  [f \in DOMAIN OldScale |-> None] }
=============================================================================
