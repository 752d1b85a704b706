------------------------ MODULE MCPhase3Coordinator -------------------------
(***************************************************************************)
(* The coordinator for TLC: one transaction, at most MaxFaults faults.     *)
(***************************************************************************)
EXTENDS Phase3Coordinator

MCTargets == {"automation.reload", "none"}
AutomationOnly == {"automation.reload"}
=============================================================================
