------------------------------- MODULE Infra --------------------------------
(***************************************************************************)
(* pkg/infra: a Cluster of the v1 API is provisioned by the provider its   *)
(* spec names, and by that one for its whole life.                         *)
(***************************************************************************)
EXTENDS AliProvider, ContainerProvider

CONSTANT Providers   \* the provider names a spec may hold

VARIABLE provider    \* Cluster.Spec.Provider

InfraInit == provider \in Providers /\ AliInit /\ ContainerInit

\* NewDefaultProvider; any other name is refused.
NewDefaultProvider ==
  \/ provider = "ALI_CLOUD" /\ AliNext /\ UNCHANGED <<conVars, provider>>
  \/ provider = "CONTAINER" /\ ContainerNext /\ UNCHANGED <<aliVars, provider>>

InfraSpec == InfraInit /\ [][NewDefaultProvider]_<<aliVars, conVars, provider>>
=============================================================================
