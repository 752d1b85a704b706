----------------------------- MODULE Stores_proofs -----------------------------
(* The two durable stores side by side have the types of both, and what is     *)
(* proved of each holds of them together.                                      *)
EXTENDS MCStores, ApprovalGrants_proofs, ProposalService_proofs

\* A behaviour of the two side by side is a behaviour of each.
LEMMA BothRun == StoresSpec => GrantsSpec /\ ProposalsSpec
<1>1. StoresInit => GrantsInit /\ ProposalsInit
  BY DEF StoresInit
<1>2. [GrantsStep \/ ProposalsStep]_storesVars => [GrantsNext]_grantVars /\ [ProposalsNext]_proposalVars
  <2>1. GrantsStep => GrantsNext /\ UNCHANGED proposalVars
    BY DEF GrantsStep
  <2>2. ProposalsStep => ProposalsNext /\ UNCHANGED grantVars
    BY DEF ProposalsStep
  <2>3. UNCHANGED storesVars => UNCHANGED <<grantVars, proposalVars>>
    BY DEF storesVars
  <2> QED BY <2>1, <2>2, <2>3
<1> QED BY <1>1, <1>2, PTL DEF StoresSpec, GrantsSpec, ProposalsSpec

\* The types of both stores, whichever of them runs.
THEOREM StoresTyped == StoresSpec => []StoresTypeOK
BY BothRun, GrantsTyped, ProposalsTypesCorrect, PTL DEF StoresTypeOK
===============================================================================
