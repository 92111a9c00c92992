-------------------------- MODULE MCWalletDirectory -------------------------
(***************************************************************************)
(* The commands that write into a wallet's data directory: the custody of   *)
(* the personal signer, the provisioning of chain signers and the registry  *)
(* of policies.  They own different files; a behaviour is about one of      *)
(* them and the others stay as they started.                                *)
(***************************************************************************)
EXTENDS PersonalCustody, ChainProvision, MCPolicyRegistry, TLC

VARIABLE part   \* the component under study

directoryVars == <<part, custodyVars, provisionVars, policyVars>>

DirectoryInit ==
    /\ part \in {"custody", "provision", "policy"}
    /\ CustodyInit /\ ProvisionInit /\ PolicyInit

DirectoryNext ==
    \/ part = "custody" /\ CustodyNext /\ UNCHANGED <<part, provisionVars, policyVars>>
    \/ part = "provision" /\ ProvisionNext /\ UNCHANGED <<part, custodyVars, policyVars>>
    \/ part = "policy" /\ PolicyNext /\ UNCHANGED <<part, custodyVars, provisionVars>>

CustodySymmetry ==
    Permutations(Processes) \cup Permutations(OutDirs) \cup Permutations(DeviceKeys)

DirectorySpec == DirectoryInit /\ [][DirectoryNext]_directoryVars
=============================================================================
