------------------------- MODULE MCControlPlaneGate -------------------------
(***************************************************************************)
(* Instances of ControlPlaneGate for TLC.                                  *)
(***************************************************************************)
EXTENDS ControlPlaneGate

\* azureClusterGates as the Helm chart sets them.
ChartGates == {"GSPrivateLinksReady", "GSDNSZoneReady"}

OneGate == {"GSPrivateLinksReady"}
=============================================================================
