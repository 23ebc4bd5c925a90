-------------------------- MODULE MCClusterBringUp --------------------------
(***************************************************************************)
(* Instances of ClusterBringUp for TLC.                                    *)
(***************************************************************************)
EXTENDS ClusterBringUp, MCAzureCluster
=============================================================================
