-------------------------- MODULE PrivateEndpoints --------------------------
(***************************************************************************)
(* The operations of pkg/privatelinks and pkg/privateendpoints that do not *)
(* leave the process: which private links of a workload cluster the        *)
(* management cluster (MC) may use, and how the private endpoints in the   *)
(* node subnet of the MC change with them.                                 *)
(*                                                                         *)
(* The endpoint of private link L is named "L-privateendpoint", and the    *)
(* cluster chart puts the cluster's name into L, so an endpoint is the     *)
(* pair of a workload cluster and one of its links.  The endpoints of the  *)
(* MC are a set: an endpoint is added only if none has its name.           *)
(***************************************************************************)
EXTENDS AzureClusters

CONSTANT
    RGPrefix    \* <<w, v>>: the resource group path of w is a prefix of v's

ASSUME RGPrefixAssumption ==
    /\ RGPrefix \subseteq WorkloadClusters \X WorkloadClusters
    /\ \A w \in WorkloadClusters : <<w, w>> \in RGPrefix

Endpoint == [wc : WorkloadClusters, link : Links]

EndpointFor(w, l) == [wc |-> w, link |-> l]

\* The endpoints among eps that connect to a link of cluster w.
EndpointsOf(w, eps) == {e \in eps : e.wc = w}

-----------------------------------------------------------------------------
(* pkg/privatelinks: c is the AzureCluster of workload cluster w.          *)

GetPrivateLinksWithAllowedSubscription(c) ==
    {l \in c.privateLinks : l \in c.allowed}

\* Mutant: any link of the cluster will do.
LookupPrivateLinkByCluster(w, c, e) == e.wc = w

\* The resource ID of the endpoint's connection is that of one of w's links.
LookupPrivateLink(w, c, e) == e.wc = w /\ e.link \in c.privateLinks

-----------------------------------------------------------------------------
(* pkg/privateendpoints: eps are the endpoints in the MC's subnet.         *)

\* Mutant: the slice that append returns is not stored.
AddPrivateEndpointSpecLost(eps, e) == eps

AddPrivateEndpointSpec(eps, e) == eps \cup {e}

\* Mutant: the endpoints to all clusters.
GetAllPrivateEndpoints(w, eps) == eps

\* The ID of the connected link starts with
\* "/subscriptions/<subscription of w>/resourceGroups/<resource group of w>".
GetPrivateEndpointsToWorkloadCluster(w, eps) ==
    {e \in eps : <<w, e.wc>> \in RGPrefix}

\* The last part of ReconcileMcToWcApi: endpoints whose link is gone.
RemoveUnusedEndpoints(w, c, eps) ==
    eps \ {e \in GetPrivateEndpointsToWorkloadCluster(w, eps) :
                ~LookupPrivateLink(w, c, e)}

\* Mutant: the deletion reuses the clean-up of unused endpoints.
DeleteMcToWcApiUnused(w, c, eps) == RemoveUnusedEndpoints(w, c, eps)

DeleteMcToWcApi(w, c, eps) ==
    eps \ {EndpointFor(w, l) : l \in GetPrivateLinksWithAllowedSubscription(c)}
=============================================================================
