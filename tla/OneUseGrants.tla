---------------------------- MODULE OneUseGrants -----------------------------
(***************************************************************************)
(* What the approval store promises its callers: a grant that was issued   *)
(* is spent at most once, and only what was issued is spent.  Time-outs,    *)
(* crashes and retries are no part of it.                                   *)
(***************************************************************************)
EXTENDS Naturals

CONSTANT Grants

VARIABLES
  issued,  \* the grants whose issue was answered
  spent    \* how often each grant's consumption was answered with success

OneUseInit ==
  /\ issued = {}
  /\ spent = [g \in Grants |-> 0]

Issue(g) ==
  /\ g \notin issued
  /\ issued' = issued \cup {g}
  /\ UNCHANGED spent

Spend(g) ==
  /\ g \in issued
  /\ spent[g] = 0
  /\ spent' = [spent EXCEPT ![g] = 1]
  /\ UNCHANGED issued

OneUseNext == \E g \in Grants : Issue(g) \/ Spend(g)

OneUseSpec == OneUseInit /\ [][OneUseNext]_<<issued, spent>>
===============================================================================
