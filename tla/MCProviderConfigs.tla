------------------------- MODULE MCProviderConfigs -------------------------
(***************************************************************************)
(* Instances of ProviderConfigs for TLC.                                   *)
(***************************************************************************)
EXTENDS ProviderConfigs

\* All Clusters have one name, in different namespaces.
SameName == [c \in Clusters |-> CHOOSE n \in Names : TRUE]
=============================================================================
