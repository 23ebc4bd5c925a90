--------------------------- MODULE MCAzureCluster ---------------------------
(***************************************************************************)
(* Instances of AzureClusterReconciler for TLC.                            *)
(***************************************************************************)
EXTENDS AzureClusterInvariants, TLC

CONSTANTS w1, w2

OneLink == {1}
TwoLinks == {1, 2}

\* Every workload cluster is private.
AllInternal == [w \in WorkloadClusters |-> "Internal"]

\* w1 is public, the others are private.
OnePublic == [w \in WorkloadClusters |-> IF w = w1 THEN "Public" ELSE "Internal"]

\* No resource group's name begins with the name of another one.
Distinct == {<<w, w>> : w \in WorkloadClusters}

\* The resource group of w1 is called "prod", say, and that of w2 "prod2".
W1PrefixOfW2 == Distinct \cup {<<w1, w2>>}

\* The private ones are alike.
Symmetry == Permutations(WorkloadClusters \ {w1})
=============================================================================
