--------------------------- MODULE AzureClusters ---------------------------
(***************************************************************************)
(* The AzureCluster custom resource as far as the operator reads or writes *)
(* it, and how pkg/azurecluster writes it: NewBaseScope snapshots the      *)
(* object (patch.NewHelper), the reconciler changes the object in memory,  *)
(* and Close sends the difference between the two as a merge patch, in two *)
(* requests.                                                               *)
(***************************************************************************)
EXTENDS ApiServer, Naturals, FiniteSets

CONSTANTS
    WorkloadClusters,   \* names of the workload clusters
    Links,              \* private links of a cluster's API server load balancer
    IPs,                \* IP addresses Azure may give to a private endpoint
    NoIP                \* no address: annotation not set, endpoint not ready

\* Links are numbered by their place in the slice APIServerLB.PrivateLinks.
ASSUME LinksAssumption == Links \subseteq Nat

ASSUME NoIPAssumption == NoIP \notin IPs

MaybeIP == IPs \cup {NoIP}

\* The operator's own finalizer and the one of the CAPZ controller.
Finalizers == {"operator", "capz"}

AzureCluster ==
    [ deleting     : BOOLEAN,            \* DeletionTimestamp is set
      finalizers   : SUBSET Finalizers,
      privateLinks : SUBSET Links,       \* Spec...APIServerLB.PrivateLinks
      allowed      : SUBSET Links,       \* links that allow the MC's subscription
      linksReady   : BOOLEAN,            \* condition PrivateLinksReady, set by CAPZ
      gateway      : BOOLEAN,            \* endpoint to the MC gateway in the subnet
      apiServerIP  : MaybeIP,            \* annotation private-link-apiserver-ip
      mcIngressIP  : MaybeIP,            \* annotation private-link-mc-ingress-ip
      gsReady      : BOOLEAN ]           \* condition GSPrivateLinksReady

ASSUME AbsentAssumption == Absent \notin AzureCluster

\* A cluster as the cluster chart creates it, no controller having seen it.
NewAzureCluster ==
    [ deleting     |-> FALSE,
      finalizers   |-> {},
      privateLinks |-> Links,
      allowed      |-> Links,
      linksReady   |-> FALSE,
      gateway      |-> FALSE,
      apiServerIP  |-> NoIP,
      mcIngressIP  |-> NoIP,
      gsReady      |-> FALSE ]

-----------------------------------------------------------------------------
\* The patch helper sends metadata and spec, and status, as two requests.
PatchParts == {"object", "status"}

PatchedObject(before, after, current) ==
    [current EXCEPT
        !.finalizers  = Merged(before.finalizers, after.finalizers, @),
        !.gateway     = Merged(before.gateway, after.gateway, @),
        !.apiServerIP = Merged(before.apiServerIP, after.apiServerIP, @),
        !.mcIngressIP = Merged(before.mcIngressIP, after.mcIngressIP, @)]

PatchedStatus(before, after, current) ==
    [current EXCEPT !.gsReady = Merged(before.gsReady, after.gsReady, @)]

\* What is stored after one request of the patch helper.  A request for an
\* object that is gone, and one that is refused, change nothing.
AfterPatch(part, before, after, current) ==
    IF current = Absent THEN Absent
    ELSE IF part = "status" THEN PatchedStatus(before, after, current)
    ELSE LET new == PatchedObject(before, after, current)
         IN  IF Accepted(current, new) THEN Stored(new) ELSE current

\* No request is sent for a part in which nothing changed.
Changed(part, before, after) ==
    IF part = "status" THEN after.gsReady # before.gsReady
                       ELSE PatchedObject(before, after, before) # before

\* Whether the request for a part is sent and refused.
PatchRefused(part, before, after, current) ==
    /\ Changed(part, before, after)
    /\ \/ current = Absent
       \/ /\ part = "object"
          /\ ~Accepted(current, PatchedObject(before, after, current))
=============================================================================
