---------------------------- MODULE Phase3Outcome ----------------------------
(***************************************************************************)
(* What a guarded apply promises its caller, with none of the machinery:   *)
(* the file changes under the program's hands only while the transaction   *)
(* is open, the candidate is put in place at most once, and a settled      *)
(* outcome is final and tells the truth about the file and the running     *)
(* system, up to edits made since the file was inspected for it.           *)
(***************************************************************************)
EXTENDS Naturals

VARIABLES
  outcome,  \* none, open, verified, rolled_back or blocked
  reloads,  \* the change asked for a reload of what it touches
  live,     \* what the file holds
  loaded,   \* what the running system loaded
  landed,   \* how often the candidate was put in place
  quiet     \* nobody else wrote the file since it was last inspected

outcomeVars == <<outcome, reloads, live, loaded, landed, quiet>>

Outcomes == {"none", "open", "verified", "rolled_back", "blocked"}

InPlace(bytes) == live = bytes /\ (reloads => loaded = bytes)

Init ==
  /\ outcome = "none" /\ reloads = FALSE
  /\ live = "checkpoint" /\ loaded = "checkpoint"
  /\ landed = 0 /\ quiet = TRUE

Open ==
  /\ outcome = "none" /\ outcome' = "open"
  /\ reloads' \in BOOLEAN
  /\ UNCHANGED <<live, loaded, landed, quiet>>

Put ==
  /\ outcome = "open" /\ landed = 0
  /\ live' = "candidate" /\ landed' = 1
  /\ UNCHANGED <<outcome, reloads, loaded, quiet>>

Restore ==
  /\ outcome = "open"
  /\ live' = "checkpoint"
  /\ UNCHANGED <<outcome, reloads, loaded, landed, quiet>>

Inspect ==
  /\ outcome = "open"
  /\ live \in {"candidate", "checkpoint"}
  /\ quiet' = TRUE
  /\ UNCHANGED <<outcome, reloads, live, loaded, landed>>

SettleAs(verdict, bytes) ==
  /\ outcome = "open" /\ outcome' = verdict
  /\ quiet => InPlace(bytes)
  /\ UNCHANGED <<reloads, live, loaded, landed, quiet>>

Block ==
  /\ outcome = "open" /\ outcome' = "blocked"
  /\ UNCHANGED <<reloads, live, loaded, landed, quiet>>

Edit ==
  /\ live' \in {"checkpoint", "candidate", "other", "missing"}
  /\ quiet' = FALSE
  /\ UNCHANGED <<outcome, reloads, loaded, landed>>

Load ==
  /\ loaded' = IF live = "missing" THEN "other" ELSE live
  /\ UNCHANGED <<outcome, reloads, live, landed, quiet>>

Next ==
  \/ Open \/ Put \/ Restore \/ Inspect
  \/ SettleAs("verified", "candidate") \/ SettleAs("rolled_back", "checkpoint")
  \/ Block \/ Edit \/ Load

Spec == Init /\ [][Next]_outcomeVars
=============================================================================
