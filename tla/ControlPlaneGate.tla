-------------------------- MODULE ControlPlaneGate --------------------------
(***************************************************************************)
(* controllers/kubeadmcontrolplane_controller.go: the reconciler keeps the *)
(* KubeadmControlPlane of a workload cluster paused until the AzureCluster *)
(* has all the conditions that the operator was started with as gates.     *)
(*                                                                         *)
(* One control plane, its Cluster and its AzureCluster: the reconciler     *)
(* reads no others, and its worker has no other state.  The three objects  *)
(* are in three informers, which lag independently.                        *)
(***************************************************************************)
EXTENDS ApiServer, Naturals

CONSTANTS
    Gates,          \* azureClusterGates
    McLBType,       \* APIServerLB.Type of the management cluster
    MaxChanges,     \* bound on the changes of conditions
    MaxPauses,      \* bound on pausing and unpausing the Cluster
    MaxFaults       \* bound on failed requests and operator crashes

ControlPlane ==
    [ owned       : BOOLEAN,    \* has a controller reference
      deleting    : BOOLEAN,    \* DeletionTimestamp is set
      initialized : BOOLEAN,    \* Status.Initialization.ControlPlaneInitialized
      paused      : BOOLEAN ]   \* PausedAnnotation

Cluster == [paused : BOOLEAN, infraRef : BOOLEAN]

\* Status of the first condition of each gate's type.
Conditions == [Gates -> {"True", "False", "none"}]

ASSUME ValuesAssumption ==
    Absent \notin ControlPlane \cup Cluster \cup Conditions

ASSUME BoundsAssumption ==
    MaxChanges \in Nat /\ MaxPauses \in Nat /\ MaxFaults \in Nat

VARIABLES
    kcp,            \* API server: the KubeadmControlPlane
    cluster,        \* API server: its Cluster
    conditions,     \* API server: the conditions of its AzureCluster
    kcpCache, clusterCache, conditionsCache,    \* the operator's informers
    pc,             \* where the running reconciliation is
    orig,           \* the control plane as it was read
    pause,          \* whether its copy is paused
    working,        \* the CAPI controller is working on the control plane
    met,            \* history: all gates have been met at one moment
    changes, pauses, faults     \* how often each has happened

objects == <<kcp, cluster, conditions>>
cache == <<kcpCache, clusterCache, conditionsCache>>
locals == <<pc, orig, pause>>
bounds == <<changes, pauses, faults>>
vars == <<objects, cache, locals, working, met, bounds>>

TypeOK ==
    /\ kcp \in ControlPlane \cup {Absent}
    /\ cluster \in Cluster
    /\ conditions \in Conditions
    /\ kcpCache \in ControlPlane \cup {Absent}
    /\ clusterCache \in Cluster \cup {Absent}
    /\ conditionsCache \in Conditions \cup {Absent}
    /\ pc \in {"idle", "getCluster", "getInfra", "patch"}
    /\ pc # "idle" => orig \in ControlPlane
    /\ pause \in BOOLEAN /\ working \in BOOLEAN /\ met \in BOOLEAN
    /\ changes \in 0..MaxChanges /\ pauses \in 0..MaxPauses /\ faults \in 0..MaxFaults

-----------------------------------------------------------------------------
\* Mutant: a condition that is not there at all does not count.
FindFalseStatusConditions(c) == {g \in Gates : c[g] = "False"}

\* util.FindUnmetStatusConditions for the gates.
FindUnmetStatusConditions(c) == {g \in Gates : c[g] # "True"}

\* What the gates are for, without the function that checks them.
AllTrue(c) == \A g \in Gates : c[g] = "True"

\* The objects as the cluster chart creates them; the cache is still empty.
Init ==
    /\ kcp = [owned |-> FALSE, deleting |-> FALSE, initialized |-> FALSE, paused |-> FALSE]
    /\ cluster = [paused |-> FALSE, infraRef |-> FALSE]
    /\ conditions = [g \in Gates |-> "none"]
    /\ kcpCache = Absent /\ clusterCache = Absent /\ conditionsCache = Absent
    /\ pc = "idle" /\ orig = Absent /\ pause = FALSE
    /\ working = FALSE
    /\ met = (Gates = {})
    /\ changes = 0 /\ pauses = 0 /\ faults = 0

Fault == faults < MaxFaults /\ faults' = faults + 1

\* Reconcile returns, with or without an error, or the process dies.
Return == pc' = "idle" /\ orig' = Absent /\ pause' = FALSE

\* Nothing but the worker moves.
LocalStep == UNCHANGED <<objects, cache, working, met, changes, pauses>>

-----------------------------------------------------------------------------
(* Reconcile.  A request that a preflight check cancels, or one for an     *)
(* object that is not found, returns with nothing changed.                 *)

PreflightCheckManagementCluster == McLBType = "Internal"

PreflightCheckControlPlane(c) == c.owned /\ ~c.deleting /\ ~c.initialized

PreflightCheckCluster(c) == ~c.paused /\ c.infraRef

\* Mutant: a control plane that is not found is not an early return.
GetControlPlaneUnchecked ==
    /\ pc = "idle"
    /\ Gates # {} /\ PreflightCheckManagementCluster
    /\ kcpCache # Absent => PreflightCheckControlPlane(kcpCache)
    /\ pc' = "getCluster"
    /\ orig' = kcpCache
    /\ LocalStep /\ UNCHANGED <<pause, faults>>

GetControlPlane ==
    /\ pc = "idle"
    /\ Gates # {} /\ PreflightCheckManagementCluster
    /\ kcpCache # Absent
    /\ PreflightCheckControlPlane(kcpCache)
    /\ pc' = "getCluster"
    /\ orig' = kcpCache
    /\ LocalStep /\ UNCHANGED <<pause, faults>>

GetOwnerCluster ==
    /\ pc = "getCluster"
    /\ clusterCache # Absent
    /\ PreflightCheckCluster(clusterCache)
    /\ pc' = "getInfra"
    /\ LocalStep /\ UNCHANGED <<orig, pause, faults>>

ClusterCancels ==
    /\ pc = "getCluster"
    /\ clusterCache # Absent => ~PreflightCheckCluster(clusterCache)
    /\ Return
    /\ LocalStep /\ UNCHANGED faults

\* Mutant: a control plane that is paused stays so.
CheckGatesPausesOnly ==
    /\ pc = "getInfra"
    /\ conditionsCache # Absent
    /\ pause' = (orig.paused \/ FindUnmetStatusConditions(conditionsCache) # {})
    /\ pc' = "patch"
    /\ LocalStep /\ UNCHANGED <<orig, faults>>

\* The gates are checked and the copy is paused or unpaused.
CheckGates ==
    /\ pc = "getInfra"
    /\ conditionsCache # Absent
    /\ pause' = (FindUnmetStatusConditions(conditionsCache) # {})
    /\ pc' = "patch"
    /\ LocalStep /\ UNCHANGED <<orig, faults>>

NoInfraCluster ==
    /\ pc = "getInfra"
    /\ conditionsCache = Absent
    /\ Return
    /\ LocalStep /\ UNCHANGED faults

PatchControlPlane ==
    kcp' = IF kcp = Absent THEN Absent
           ELSE [kcp EXCEPT !.paused = Merged(orig.paused, pause, @)]

\* The deferred call.
Patch ==
    /\ pc = "patch"
    /\ PatchControlPlane
    /\ Return
    /\ UNCHANGED <<cluster, conditions, cache, working, met, bounds>>

\* The request fails, or it is carried out and its answer is lost; the error
\* is written to the log and not returned.
PatchFails ==
    /\ pc = "patch"
    /\ pause # orig.paused
    /\ Fault
    /\ UNCHANGED kcp \/ PatchControlPlane
    /\ Return
    /\ UNCHANGED <<cluster, conditions, cache, working, met, changes, pauses>>

GetFails ==
    /\ pc \in {"getCluster", "getInfra"}
    /\ Fault
    /\ Return
    /\ LocalStep

Crash ==
    /\ pc # "idle"
    /\ Fault
    /\ Return
    /\ kcpCache' = kcp /\ clusterCache' = cluster /\ conditionsCache' = conditions
    /\ UNCHANGED <<objects, working, met, changes, pauses>>

SyncControlPlane ==
    /\ kcpCache' = kcp
    /\ UNCHANGED <<objects, clusterCache, conditionsCache, locals, working, met, bounds>>

SyncCluster ==
    /\ clusterCache' = cluster
    /\ UNCHANGED <<objects, kcpCache, conditionsCache, locals, working, met, bounds>>

SyncInfra ==
    /\ conditionsCache' = conditions
    /\ UNCHANGED <<objects, kcpCache, clusterCache, locals, working, met, bounds>>

-----------------------------------------------------------------------------
(* CAPI, the controllers that set conditions, and users.                   *)

CapiSetOwner ==
    /\ kcp # Absent /\ ~kcp.owned
    /\ kcp' = [kcp EXCEPT !.owned = TRUE]
    /\ UNCHANGED <<cluster, conditions, cache, locals, working, met, bounds>>

SetInfraRef ==
    /\ ~cluster.infraRef
    /\ cluster' = [cluster EXCEPT !.infraRef = TRUE]
    /\ UNCHANGED <<kcp, conditions, cache, locals, working, met, bounds>>

\* The CAPI controller looks at the annotation when it starts, and may be
\* at work on the control plane while the annotation is set.
CapiStart ==
    /\ ~working
    /\ kcp # Absent /\ kcp.owned
    /\ ~kcp.deleting /\ ~kcp.initialized
    /\ ~kcp.paused /\ ~cluster.paused
    /\ working' = TRUE
    /\ UNCHANGED <<objects, cache, locals, met, bounds>>

CapiInitialize ==
    /\ working
    /\ kcp # Absent
    /\ kcp' = [kcp EXCEPT !.initialized = TRUE]
    /\ working' = FALSE
    /\ UNCHANGED <<cluster, conditions, cache, locals, met, bounds>>

CapiStop ==
    /\ working
    /\ working' = FALSE
    /\ UNCHANGED <<objects, cache, locals, met, bounds>>

SetCondition(g, s) ==
    /\ conditions[g] # s
    /\ changes < MaxChanges
    /\ changes' = changes + 1
    /\ conditions' = [conditions EXCEPT ![g] = s]
    /\ met' = (met \/ AllTrue(conditions'))
    /\ UNCHANGED <<kcp, cluster, cache, locals, working, pauses, faults>>

PauseCluster ==
    /\ pauses < MaxPauses
    /\ pauses' = pauses + 1
    /\ cluster' = [cluster EXCEPT !.paused = ~@]
    /\ UNCHANGED <<kcp, conditions, cache, locals, working, met, changes, faults>>

DeleteControlPlane ==
    /\ kcp # Absent /\ ~kcp.deleting
    /\ kcp' = Marked(kcp)
    /\ UNCHANGED <<cluster, conditions, cache, locals, working, met, bounds>>

CapiDelete ==
    /\ kcp # Absent /\ kcp.deleting
    /\ kcp' = Absent
    /\ UNCHANGED <<cluster, conditions, cache, locals, working, met, bounds>>

-----------------------------------------------------------------------------
\* The steps of a running reconciliation in which nothing fails.
Continue ==
    \/ GetOwnerCluster \/ ClusterCancels
    \/ CheckGates \/ NoInfraCluster
    \/ Patch

Failure == GetFails \/ PatchFails

Sync == SyncControlPlane \/ SyncCluster \/ SyncInfra

Others ==
    \/ CapiSetOwner \/ SetInfraRef
    \/ CapiStart \/ CapiInitialize \/ CapiStop
    \/ \E g \in Gates, s \in {"True", "False"} : SetCondition(g, s)
    \/ PauseCluster
    \/ DeleteControlPlane \/ CapiDelete

Next == GetControlPlane \/ Continue \/ Failure \/ Crash \/ Sync \/ Others

Spec == Init /\ [][Next]_vars

\* The worker finishes what it started, each watch delivers, and the control
\* plane is queued again and again.  The last is SyncPeriod alone: an error
\* of the patch is not returned, and the Cluster is not watched.
Fairness ==
    /\ WF_vars(Continue)
    /\ WF_vars(SyncControlPlane)
    /\ WF_vars(SyncCluster)
    /\ WF_vars(SyncInfra)
    /\ SF_vars(GetControlPlane)

FairSpec == Spec /\ Fairness

-----------------------------------------------------------------------------
(* What the reconciler has to guarantee.                                   *)

\* A control plane that is paused is unpaused only after all gates have been
\* met together, however stale, interrupted or repeated the reconciliations
\* are and whatever the conditions did since (the check and the patch).
GateHolds ==
    [][(kcp # Absent /\ kcp' # Absent /\ kcp.paused /\ ~kcp'.paused) => met']_vars

\* The reconciler is responsible for the control plane.
Gated ==
    /\ Gates # {} /\ McLBType = "Internal"
    /\ kcp # Absent /\ kcp.owned /\ ~kcp.deleting
    /\ cluster.infraRef /\ ~cluster.paused

\* As long as it is not initialized, the control plane ends up paused if some
\* gate stays unmet, and ends up unpaused if all stay met, although errors of
\* the patch are dropped (Reconcile and its resync).
GateSettles ==
    /\ <>[](Gated /\ ~kcp.initialized /\ ~AllTrue(conditions)) => <>[](kcp # Absent => kcp.paused)
    /\ <>[](Gated /\ ~kcp.initialized /\ AllTrue(conditions)) => <>[](kcp # Absent => ~kcp.paused)

\* Paused only for as long as the gates are unmet, as the comment on the
\* reconciler has it: "will remain so until all status conditions pass".
PausedOnlyUntilMet ==
    <>[](Gated /\ AllTrue(conditions)) => <>[](kcp # Absent => ~kcp.paused)

-----------------------------------------------------------------------------
(* Why GateHolds holds.                                                    *)

\* Whatever shows all gates as met, the API server, the cache or a copy that
\* is about to be unpaused, they have been met.
GateInv ==
    /\ AllTrue(conditions) => met
    /\ (conditionsCache # Absent /\ AllTrue(conditionsCache)) => met
    /\ (pc = "patch" /\ ~pause) => met
=============================================================================
