-------------------------- MODULE Phase3AtomicApply --------------------------
(***************************************************************************)
(* The native replace helper and the file it replaces.  The helper is a    *)
(* process of its own, spawned detached by NativePhase3AtomicApply: it     *)
(* stages the content under a pending name next to the target, rechecks    *)
(* the target, exchanges the two names, verifies both and removes the      *)
(* displaced file.  Its parent reads one frame from it and never acts on   *)
(* the file itself.  Digests are the bytes they identify.                  *)
(***************************************************************************)
EXTENDS Naturals

VARIABLES
  live,      \* what the target path holds
  pending,   \* a staged or displaced file is left beside the target
  helper,    \* the helper process, or NoHelper
  landed     \* history: how often the candidate was exchanged into place

applyVars == <<live, pending, helper, landed>>

Bytes == {"checkpoint", "candidate", "other"}
LiveBytes == Bytes \union {"missing"}

Running == {"running", "staged", "armed", "exchanged"}
CommitStatuses == {"before_commit", "committed", "commit_unknown"}

NoHelper == [stage |-> "none", content |-> "checkpoint", displaced |-> "missing"]

\* A replace of the candidate expects the checkpoint, and the other way round.
Expected(content) == IF content = "candidate" THEN "checkpoint" ELSE "candidate"

ApplyTypeOK ==
  /\ live \in LiveBytes
  /\ pending \in BOOLEAN
  /\ helper \in [stage : Running \union CommitStatuses \union {"none"},
                 content : {"checkpoint", "candidate"},
                 displaced : LiveBytes]
  /\ landed \in Nat

ApplyInit ==
  /\ live = "checkpoint"
  /\ pending = FALSE
  /\ helper = NoHelper
  /\ landed = 0

Stage(s) == helper' = [helper EXCEPT !.stage = s]

\* replace() starts the helper with the content on its standard input.
Spawn(content) ==
  /\ helper = NoHelper
  /\ helper' = [stage |-> "running", content |-> content, displaced |-> "missing"]
  /\ UNCHANGED <<live, pending, landed>>

\* Blocker scan, first digest check, write and link under the pending name.
HelperStage ==
  /\ helper.stage = "running"
  /\ ~pending
  /\ live = Expected(helper.content)
  /\ pending' = TRUE
  /\ Stage("staged")
  /\ UNCHANGED <<live, landed>>

\* Every refusal before anything is staged: a leftover pending entry, a target
\* with other bytes, bad input, a cancellation, a system call that failed.
HelperRefuse ==
  /\ helper.stage = "running"
  /\ Stage("before_commit")
  /\ UNCHANGED <<live, pending, landed>>

\* The recheck of target, root and parent just before the exchange.
HelperArm ==
  /\ helper.stage = "staged"
  /\ live = Expected(helper.content)
  /\ Stage("armed")
  /\ UNCHANGED <<live, pending, landed>>

\* A cancellation or a changed target after staging: the pending entry is
\* removed, best effort, and the frame says before_commit either way.
HelperBackOut ==
  /\ helper.stage = "staged"
  /\ pending' \in BOOLEAN
  /\ Stage("before_commit")
  /\ UNCHANGED <<live, landed>>

\* RENAME_EXCHANGE: whatever the target holds by now goes to the pending name.
HelperExchange ==
  /\ helper.stage = "armed"
  /\ live # "missing"
  /\ live' = helper.content
  /\ helper' = [stage |-> "exchanged", content |-> helper.content, displaced |-> live]
  /\ landed' = landed + (IF helper.content = "candidate" THEN 1 ELSE 0)
  /\ UNCHANGED pending

HelperExchangeFails ==
  /\ helper.stage = "armed"
  /\ Stage("commit_unknown")
  /\ UNCHANGED <<live, pending, landed>>

\* Both names verified, the displaced file removed, the directory synced.
HelperFinish ==
  /\ helper.stage = "exchanged"
  /\ helper.displaced = Expected(helper.content)
  /\ live = helper.content
  /\ pending' = FALSE
  /\ \E status \in {"committed", "commit_unknown"} : Stage(status)
  /\ UNCHANGED <<live, landed>>

\* The verification after the exchange failed: the displaced file stays.
HelperUncertain ==
  /\ helper.stage = "exchanged"
  /\ Stage("commit_unknown")
  /\ UNCHANGED <<live, pending, landed>>

\* Timeout or signal without a trusted frame, wherever the helper was.
HelperKilled ==
  /\ helper.stage \in Running
  /\ Stage("commit_unknown")
  /\ UNCHANGED <<live, pending, landed>>

HelperNext ==
  \/ HelperStage \/ HelperRefuse \/ HelperArm \/ HelperBackOut
  \/ HelperExchange \/ HelperExchangeFails
  \/ HelperFinish \/ HelperUncertain \/ HelperKilled

\* The parent has the frame and the helper is gone.
Reap(status) ==
  /\ helper.stage = status
  /\ helper' = NoHelper
  /\ UNCHANGED <<live, pending, landed>>

\* Home Assistant's own editors, or a person, write the file under no lock of
\* this program.
EditorWrite(bytes) ==
  /\ bytes # live
  /\ live' = bytes
  /\ UNCHANGED <<pending, helper, landed>>
=============================================================================
