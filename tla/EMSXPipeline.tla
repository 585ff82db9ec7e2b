----------------------------- MODULE EMSXPipeline -----------------------------
(***************************************************************************)
(* EMSXExecution implements IntentPipeline: the one bus thread is the only *)
(* runner, and a key's live requests are the one on its way to the venue   *)
(* and the orders made from it.  Keys do not meet in the pipeline, so it   *)
(* may be watched for any set of them; what the service does with another  *)
(* key changes nothing there.                                              *)
(***************************************************************************)
EXTENDS EMSXExecution

CONSTANT PipelineKeys \* the keys watched

ASSUME WatchAssumption == NoKey \notin PipelineKeys

PhaseOf(p, k) ==
  CASE k \in PipelineKeys /\ p = "validate" -> "validating"
    [] k \in PipelineKeys /\ p = "claim"    -> "claiming"
    [] k \in PipelineKeys /\ p = "submit"   -> "submitting"
    [] OTHER                                -> "idle"

KeyIn(p, k) == IF PhaseOf(p, k) = "idle" THEN NoKey ELSE k

LiveOf(k) ==
  Cardinality({s \in DOMAIN orders : orders[s].key = k}) + (IF request = k THEN 1 ELSE 0)

Pipeline == INSTANCE IntentPipeline WITH
  Runners <- {"bus"},
  Keys    <- PipelineKeys,
  None    <- NoKey,
  phase   <- [r \in {"bus"} |-> PhaseOf(pc["bus"], intent)],
  key     <- [r \in {"bus"} |-> KeyIn(pc["bus"], intent)],
  claimed <- claimed \cap PipelineKeys,
  live    <- [k \in PipelineKeys |-> LiveOf(k)]

(* Every step of the execution service over EMSX, crashes and restarts     *)
(* included, is a step of the pipeline or changes nothing of it.           *)
ImplementsPipeline == Pipeline!Spec

=============================================================================
