--------------------------- MODULE ClusterBringUp ---------------------------
(***************************************************************************)
(* The two controllers of one process that work on a new private cluster:  *)
(* AzureClusterReconciler, which connects it and then sets the condition   *)
(* GSPrivateLinksReady, and ControlPlaneGate, which waits for it before    *)
(* CAPI may initialize the control plane.  They share the AzureCluster,    *)
(* its informer and their process; each has a worker of its own.           *)
(***************************************************************************)
EXTENDS AzureClusterReconciler

CONSTANT
    New         \* the workload cluster that is brought up

ASSUME NewAssumption == New \in WorkloadClusters

VARIABLES
    kcp, cluster, kcpCache, clusterCache,
    gatePc, gateOrig, pause, working

gateVars == <<kcp, cluster, kcpCache, clusterCache, gatePc, gateOrig, pause, working>>
allVars == <<vars, gateVars>>

\* The conditions as ControlPlaneGate sees them in an AzureCluster.
ConditionsOf(c) ==
    [g \in {"GSPrivateLinksReady"} |->
        IF c # Absent /\ c.gsReady THEN "True" ELSE "none"]

Gate == INSTANCE ControlPlaneGate WITH
    Gates <- {"GSPrivateLinksReady"},
    MaxChanges <- 0, MaxPauses <- 0, changes <- 0, pauses <- 0,
    conditions <- ConditionsOf(wc[New]),
    conditionsCache <- IF wcCache[New] = Absent THEN Absent
                       ELSE ConditionsOf(wcCache[New]),
    met <- wc[New] # Absent /\ wc[New].gsReady,
    pc <- gatePc, orig <- gateOrig

\* CAPI has linked the control plane and the Cluster that the chart created;
\* the AzureCluster is still to come, and so is the first pause.
BringUpInit ==
    /\ Init
    /\ kcp = [owned |-> TRUE, deleting |-> FALSE, initialized |-> FALSE, paused |-> FALSE]
    /\ cluster = [paused |-> FALSE, infraRef |-> TRUE]
    /\ kcpCache = kcp /\ clusterCache = cluster
    /\ gatePc = "idle" /\ gateOrig = Absent /\ pause = FALSE
    /\ working = FALSE

\* A step of the one controller, its cluster's users or CAPZ.
InfraStep ==
    /\ \/ \E w \in WorkloadClusters : GetWorkloadCluster(w)
       \/ Continue \/ Failure \/ Sync \/ Users \/ Capz
    /\ UNCHANGED gateVars

\* A step of the other one, or of CAPI, in which nothing else changes.
Alone(A) == UNCHANGED vars /\ A

GateStep ==
    \/ Alone(Gate!GetControlPlane)
    \/ Alone(Gate!Continue)
    \/ Alone(Gate!SyncControlPlane)
    \/ Alone(Gate!CapiStart)
    \/ Alone(Gate!CapiInitialize)
    \/ Alone(Gate!CapiStop)
    \/ /\ UNCHANGED <<api, cache, azure, locals, creates, deletes, edits>>
       /\ Gate!Failure

\* The process dies with both reconciliations.
Die ==
    /\ pc # "idle" \/ gatePc # "idle"
    /\ Fault
    /\ ClearLocals
    /\ wcCache' = wc /\ mcCache' = mc
    /\ Gate!Return
    /\ kcpCache' = kcp /\ clusterCache' = cluster
    /\ UNCHANGED <<api, azure, creates, deletes, edits, kcp, cluster, working>>

BringUpNext == InfraStep \/ GateStep \/ Die

\* The fairness of the two controllers and CAPZ, and of CAPI: a control plane
\* on which it can work time and again gets initialized.
BringUpFairness ==
    /\ WF_locals(Continue) /\ WF_cache(Sync) /\ SF_locals(GetWorkloadCluster(New))
    /\ WF_<<api, azure>>(Create(New) \/ Capz)
    /\ WF_gateVars(Alone(Gate!Continue)) /\ SF_gateVars(Alone(Gate!GetControlPlane))
    /\ WF_gateVars(Alone(Gate!SyncControlPlane))
    /\ WF_gateVars(Alone(Gate!CapiStart)) /\ SF_gateVars(Alone(Gate!CapiInitialize))

BringUpSpec == BringUpInit /\ [][BringUpNext]_allVars /\ BringUpFairness

-----------------------------------------------------------------------------
\* When the gate opens, the cluster is connected in both directions: CAPZ has
\* created the gateway endpoint in it and the endpoints to all its links, and
\* Azure has given them addresses (ReconcileWcToMcIngress sets the condition,
\* the other controller sees it through a lagging cache).
ConnectedBeforeRelease ==
    [][(kcp.paused /\ ~kcp'.paused) =>
            /\ wc[New].gateway /\ gw[New] # NoIP
            /\ LBType[New] = "Internal" =>
                    \A l \in Links : pe[EndpointFor(New, l)] # NoIP]_allVars

\* Nobody waits for ever: the cluster ends up connected and its control plane
\* initialized, although the one controller holds CAPI back until the other
\* one has done its work.
BroughtUp == <>[](Reconciled(New) /\ kcp.initialized)
-----------------------------------------------------------------------------
(* Why ConnectedBeforeRelease holds.                                       *)

LinksUp == \A l \in Links : pe[EndpointFor(New, l)] # NoIP

Up == gw[New] # NoIP /\ (LBType[New] = "Internal" => LinksUp)

\* What every object of the cluster, wherever it is, tells.
Shows(c) ==
    c # Absent =>
        /\ ~c.deleting
        /\ c.gsReady => Up
        /\ LBType[New] = "Internal" => c.privateLinks = Links /\ c.allowed = Links

\* The objects that the API server, the cache and a reconciliation have.
ObjectsInv ==
    /\ Shows(wc[New]) /\ Shows(wcCache[New])
    /\ (pc # "idle" /\ req = New) => Shows(wcOrig) /\ Shows(wcCopy)

\* The gateway endpoint is not taken back.
GatewayInv ==
    /\ gw[New] # NoIP => wc[New] # Absent /\ wc[New].gateway
    /\ (pc # "idle" /\ req = New /\ wcOrig.gateway) => wcCopy.gateway

\* The control plane is about to be unpaused only if the cluster is connected.
OpeningInv ==
    /\ kcp \in Gate!ControlPlane /\ pause \in BOOLEAN
    /\ (gatePc = "patch" /\ ~pause) => Up

\* The endpoints of a private cluster are added one after the other, each when
\* the ones before it have their addresses.  So a list in which one is missing,
\* read from a stale cache, is written back only as it was read or with all
\* the endpoints that are stored: the loop stops at the first one that has no
\* address, and there is none behind it.
ListsInv ==
    /\ \A l \in Links : pe[EndpointFor(New, l)] # NoIP => EndpointFor(New, l) \in mc
    /\ \A k, l \in Links :
            (k < l /\ EndpointFor(New, l) \in mc \cup mcCopy) => pe[EndpointFor(New, k)] # NoIP
    /\ EndpointsOf(New, mcCache \cup mcOrig) \subseteq mc
    /\ (pc \in {"ingress", "closeMC"} /\ req # New) => mcCopy = mcOrig
    /\ pc = "api" =>
            /\ req = New
            /\ \A l \in Links \ todo : /\ pe[EndpointFor(New, l)] # NoIP
                                       /\ EndpointFor(New, l) \in mcCopy
    /\ (pc = "ingress" /\ req = New) => LinksUp /\ EndpointsOf(New, mc) \subseteq mcCopy
    /\ pc = "closeMC" => mcCopy = mcOrig \/ EndpointsOf(New, mc) \subseteq mcCopy

\* Whatever shows the condition, stale or about to be written, the cluster is
\* connected, and it stays so (the two deferred calls of the one reconciler
\* and the gate check of the other one).
BringUpInv ==
    /\ ObjectsInv /\ GatewayInv /\ OpeningInv
    /\ LBType[New] = "Internal" => ListsInv

\* Nobody deletes a cluster.  If the new one is private, it is the only one
\* that is, its links stay as they are, and no lookup of one of several fails:
\* else a stale list can take an endpoint back after the condition is set.
Undisturbed ==
    /\ MaxDeletes = 0
    /\ LBType[New] = "Internal" =>
        /\ MaxEdits = 0
        /\ \A w \in WorkloadClusters : LBType[w] = "Internal" => w = New
        /\ MaxFaults = 0 \/ \A k, l \in Links : k = l
=============================================================================
