------------------------------- MODULE MCStores -------------------------------
(* The two durable stores, checked side by side: a behaviour runs one of them *)
(* and leaves the other at its start, since no code calls across.             *)
EXTENDS ApprovalGrants, ProposalService, TLC

CONSTANTS a, b, t1, t2, u, v, o1, o2, o3, k1, k2

VARIABLE part

MCStoreSet == {a, b}
MCGrantTasks == {t1, t2}
MCHome == t1 :> a @@ t2 :> b
MCUuids == {u, v}
MCCalls == {o1, o2, o3}
MCKeys == {k1, k2}

Same == a :> a @@ b :> b @@ t1 :> t1 @@ t2 :> t2
Swap == a :> b @@ b :> a @@ t1 :> t2 @@ t2 :> t1
MCSymmetry ==
  {f @@ g : f \in {Same, Swap}, g \in Permutations(MCUuids)}
    \cup Permutations(MCCalls) \cup Permutations(MCKeys)

GrantsStep == part = "grants" /\ GrantsNext /\ UNCHANGED <<part, proposalVars>>
ProposalsStep == part = "proposals" /\ ProposalsNext /\ UNCHANGED <<part, grantVars>>
StoresInit == part \in {"grants", "proposals"} /\ GrantsInit /\ ProposalsInit
storesVars == <<part, grantVars, proposalVars>>

StoresSpec == StoresInit /\ [][GrantsStep \/ ProposalsStep]_storesVars

\* The types of both.
StoresTypeOK == GrantsTypeOK /\ ProposalsTypeOK

\* The proposal service by itself.
AloneInit == StoresInit /\ part = "proposals"
ProposalsAlone == AloneInit /\ [][ProposalsStep]_storesVars
===============================================================================
