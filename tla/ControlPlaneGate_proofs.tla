---------------------- MODULE ControlPlaneGate_proofs ----------------------
(***************************************************************************)
(* Proofs about ControlPlaneGate, for every set of gates and all bounds.   *)
(***************************************************************************)
EXTENDS ControlPlaneGate, TLAPS

\* A merged field is one of two values, so it keeps its type.
LEMMA MergedType ==
    ASSUME NEW a \in BOOLEAN, NEW b \in BOOLEAN, NEW c \in BOOLEAN
    PROVE  Merged(a, b, c) \in BOOLEAN
BY DEF Merged

\* What the patch stores is a control plane, or still nothing.
LEMMA PatchType ==
    ASSUME TypeOK, pc = "patch", PatchControlPlane
    PROVE  kcp' \in ControlPlane \cup {Absent}
<1>1. CASE kcp = Absent
  BY <1>1 DEF PatchControlPlane
<1>2. CASE kcp \in ControlPlane
  <2>1. kcp # Absent
    BY <1>2, ValuesAssumption
  <2>2. Merged(orig.paused, pause, kcp.paused) \in BOOLEAN
    BY <1>2, MergedType DEF TypeOK, ControlPlane
  <2> QED
    BY <1>2, <2>1, <2>2 DEF PatchControlPlane, ControlPlane
<1> QED
  BY <1>1, <1>2 DEF TypeOK

\* A fault stays within its bound.
LEMMA FaultType ==
    ASSUME TypeOK, Fault
    PROVE  faults' \in 0..MaxFaults
BY BoundsAssumption DEF TypeOK, Fault

\* Every step leaves the variables in their types.
LEMMA TypeStep == TypeOK /\ [Next]_vars => TypeOK'
<1> SUFFICES ASSUME TypeOK, [Next]_vars PROVE TypeOK'
  OBVIOUS
<1> USE DEF objects, cache, locals, bounds, LocalStep, Return
<1>1. CASE GetControlPlane
  BY <1>1 DEF GetControlPlane, TypeOK
<1>2. CASE GetOwnerCluster \/ ClusterCancels \/ CheckGates \/ NoInfraCluster
  BY <1>2 DEF GetOwnerCluster, ClusterCancels, CheckGates, NoInfraCluster, TypeOK
<1>3. CASE Patch
  <2>1. kcp' \in ControlPlane \cup {Absent}
    BY <1>3, PatchType DEF Patch
  <2> QED
    BY <1>3, <2>1 DEF Patch, TypeOK
<1>4. CASE PatchFails
  <2>1. kcp' \in ControlPlane \cup {Absent}
    BY <1>4, PatchType DEF PatchFails, TypeOK
  <2>2. faults' \in 0..MaxFaults
    BY <1>4, FaultType DEF PatchFails
  <2> QED
    BY <1>4, <2>1, <2>2 DEF PatchFails, TypeOK
<1>5. CASE GetFails \/ Crash
  <2>1. faults' \in 0..MaxFaults
    BY <1>5, FaultType DEF GetFails, Crash
  <2>2. CASE GetFails
    BY <2>1, <2>2 DEF GetFails, TypeOK
  <2>3. CASE Crash
    BY <2>1, <2>3 DEF Crash, TypeOK
  <2> QED
    BY <1>5, <2>2, <2>3
<1>6. CASE Sync
  BY <1>6 DEF Sync, SyncControlPlane, SyncCluster, SyncInfra, TypeOK
<1>7. CASE CapiSetOwner \/ CapiInitialize \/ DeleteControlPlane \/ CapiDelete
  <2>1. kcp \in ControlPlane
    BY <1>7 DEF CapiSetOwner, CapiInitialize, DeleteControlPlane, CapiDelete, TypeOK
  <2>2. kcp' \in ControlPlane \cup {Absent}
    BY <1>7, <2>1 DEF CapiSetOwner, CapiInitialize, DeleteControlPlane, CapiDelete,
                      Marked, ControlPlane
  <2> QED
    BY <1>7, <2>2 DEF CapiSetOwner, CapiInitialize, DeleteControlPlane, CapiDelete, TypeOK
<1>8. CASE CapiStart \/ CapiStop
  BY <1>8 DEF CapiStart, CapiStop, TypeOK
<1>9. CASE SetInfraRef \/ PauseCluster
  <2>1. cluster' \in Cluster
    BY <1>9 DEF SetInfraRef, PauseCluster, Cluster, TypeOK
  <2> QED
    BY <1>9, <2>1, BoundsAssumption DEF SetInfraRef, PauseCluster, TypeOK
<1>10. ASSUME NEW g \in Gates, NEW s \in {"True", "False"}, SetCondition(g, s)
       PROVE  TypeOK'
  <2>1. conditions' \in Conditions
    BY <1>10 DEF SetCondition, Conditions, TypeOK
  <2>2. met' \in BOOLEAN
    BY <1>10 DEF SetCondition, AllTrue, TypeOK
  <2> QED
    BY <1>10, <2>1, <2>2, BoundsAssumption DEF SetCondition, TypeOK
<1>11. CASE UNCHANGED vars
  BY <1>11 DEF vars, TypeOK
<1> QED
  BY <1>1, <1>2, <1>3, <1>4, <1>5, <1>6, <1>7, <1>8, <1>9, <1>10, <1>11
     DEF Next, Continue, Failure, Others

\* Every reachable state is well typed (the types of the three objects that
\* Reconcile reads and of its local variables).
THEOREM GateTypeCorrect == Spec => []TypeOK
<1>1. ASSUME Init PROVE TypeOK
  <2>1. /\ kcp \in ControlPlane
        /\ cluster \in Cluster
        /\ conditions \in Conditions
    BY <1>1 DEF Init, ControlPlane, Cluster, Conditions
  <2>2. met \in BOOLEAN /\ working \in BOOLEAN /\ pause \in BOOLEAN
    BY <1>1 DEF Init
  <2>3. changes \in 0..MaxChanges /\ pauses \in 0..MaxPauses /\ faults \in 0..MaxFaults
    BY <1>1, BoundsAssumption DEF Init
  <2> QED
    BY <1>1, <2>1, <2>2, <2>3 DEF Init, TypeOK
<1> QED
  BY <1>1, TypeStep, PTL DEF Spec

-----------------------------------------------------------------------------
\* All gates are true in a set of conditions exactly when none is unmet.
LEMMA NoneUnmet ==
    ASSUME NEW c
    PROVE  FindUnmetStatusConditions(c) = {} <=> AllTrue(c)
BY DEF FindUnmetStatusConditions, AllTrue

\* Every step keeps GateInv, and gates that have been met at one moment stay
\* recorded as such.
LEMMA GateStep == TypeOK /\ GateInv /\ [Next]_vars => GateInv' /\ (met => met')
<1> SUFFICES ASSUME TypeOK, GateInv, [Next]_vars PROVE GateInv' /\ (met => met')
  OBVIOUS
<1> USE DEF GateInv, objects, cache, locals, bounds, LocalStep, Return
<1>1. CASE GetControlPlane \/ GetOwnerCluster \/ ClusterCancels \/ NoInfraCluster
  BY <1>1 DEF GetControlPlane, GetOwnerCluster, ClusterCancels, NoInfraCluster, AllTrue
<1>2. CASE CheckGates
  <2>1. /\ conditionsCache # Absent
        /\ pause' = ~AllTrue(conditionsCache)
        /\ UNCHANGED <<conditions, conditionsCache, met>>
    BY <1>2, NoneUnmet DEF CheckGates, AllTrue
  <2> QED
    BY <2>1 DEF AllTrue
<1>3. CASE Patch \/ PatchFails \/ GetFails
  BY <1>3 DEF Patch, PatchFails, GetFails, AllTrue
<1>4. CASE Crash
  BY <1>4 DEF Crash, AllTrue
<1>5. CASE Sync
  BY <1>5 DEF Sync, SyncControlPlane, SyncCluster, SyncInfra, AllTrue
<1>6. CASE CapiSetOwner \/ SetInfraRef \/ CapiStart \/ CapiInitialize \/ CapiStop
  BY <1>6 DEF CapiSetOwner, SetInfraRef, CapiStart, CapiInitialize, CapiStop, AllTrue
<1>7. CASE PauseCluster \/ DeleteControlPlane \/ CapiDelete
  BY <1>7 DEF PauseCluster, DeleteControlPlane, CapiDelete, AllTrue
<1>8. ASSUME NEW g \in Gates, NEW s \in {"True", "False"}, SetCondition(g, s)
      PROVE  GateInv' /\ (met => met')
  <2>1. /\ met => met'
        /\ AllTrue(conditions') => met'
        /\ UNCHANGED <<conditionsCache, pc, pause>>
    BY <1>8 DEF SetCondition
  <2> QED
    BY <2>1 DEF AllTrue
<1>9. CASE UNCHANGED vars
  BY <1>9 DEF vars, AllTrue
<1> QED
  BY <1>1, <1>2, <1>3, <1>4, <1>5, <1>6, <1>7, <1>8, <1>9
     DEF Next, Continue, Failure, Others

\* A control plane is unpaused by a patch of the operator that was computed
\* as such, and by nothing else.
LEMMA UnpausedByPatch ==
    ASSUME TypeOK, [Next]_vars,
           kcp # Absent, kcp' # Absent, kcp.paused, ~kcp'.paused
    PROVE  pc = "patch" /\ ~pause
<1> USE DEF objects, LocalStep
<1>1. kcp \in ControlPlane
  BY DEF TypeOK
<1>2. ASSUME pc = "patch", PatchControlPlane PROVE ~pause
  <2>1. kcp'.paused = Merged(orig.paused, pause, kcp.paused)
    BY <1>1, <1>2 DEF PatchControlPlane, ControlPlane
  <2> QED
    BY <2>1 DEF Merged
<1>3. CASE Patch \/ PatchFails
  BY <1>2, <1>3 DEF Patch, PatchFails
<1>4. CASE CapiSetOwner \/ CapiInitialize \/ DeleteControlPlane \/ CapiDelete
  BY <1>1, <1>4 DEF CapiSetOwner, CapiInitialize, DeleteControlPlane, CapiDelete,
                    Marked, ControlPlane
<1>5. CASE GetControlPlane \/ GetOwnerCluster \/ ClusterCancels \/ CheckGates \/ NoInfraCluster
  BY <1>5 DEF GetControlPlane, GetOwnerCluster, ClusterCancels, CheckGates, NoInfraCluster
<1>6. CASE GetFails \/ Crash \/ Sync
  BY <1>6 DEF GetFails, Crash, Sync, SyncControlPlane, SyncCluster, SyncInfra
<1>7. CASE SetInfraRef \/ CapiStart \/ CapiStop \/ PauseCluster
  BY <1>7 DEF SetInfraRef, CapiStart, CapiStop, PauseCluster
<1>8. ASSUME NEW g \in Gates, NEW s \in {"True", "False"}, SetCondition(g, s) PROVE FALSE
  BY <1>8 DEF SetCondition
<1>9. CASE UNCHANGED vars
  BY <1>9 DEF vars
<1> QED
  BY <1>3, <1>4, <1>5, <1>6, <1>7, <1>8, <1>9 DEF Next, Continue, Failure, Others

\* GateInv holds in every reachable state: no stale or copied set of
\* conditions shows the gates as met when they never were (the reads of
\* Reconcile before its deferred patch).
THEOREM GateInvariant == Spec => []GateInv
<1>1. Init => GateInv
  BY DEF Init, GateInv, AllTrue
<1>2. TypeOK /\ GateInv /\ [Next]_vars => GateInv'
  BY GateStep
<1> QED
  BY <1>1, <1>2, GateTypeCorrect, PTL DEF Spec

\* A paused control plane is unpaused only after all gates were met together,
\* for any gates, stale reads of all three objects, dropped patch errors and
\* crashes (the check of the gates and the deferred patch).
THEOREM GateSafe == Spec => GateHolds
<1>1. TypeOK /\ GateInv /\ [Next]_vars =>
        [(kcp # Absent /\ kcp' # Absent /\ kcp.paused /\ ~kcp'.paused) => met']_vars
  <2> SUFFICES ASSUME TypeOK, GateInv, [Next]_vars,
                      kcp # Absent, kcp' # Absent, kcp.paused, ~kcp'.paused
               PROVE  met'
    OBVIOUS
  <2> QED
    BY GateStep, UnpausedByPatch DEF GateInv
<1> QED
  BY <1>1, GateTypeCorrect, GateInvariant, PTL DEF Spec, GateHolds
=============================================================================
