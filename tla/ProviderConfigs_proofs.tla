----------------------- MODULE ProviderConfigs_proofs -----------------------
(***************************************************************************)
(* Proofs about ProviderConfigs, for all Clusters, names and bounds.       *)
(***************************************************************************)
EXTENDS ProviderConfigs, TLAPS

\* Adding and removing the finalizer yields a Cluster.
LEMMA FinalizerType ==
    ASSUME NEW c \in Cluster
    PROVE  AddFinalizer(c) \in Cluster /\ RemoveFinalizer(c) \in Cluster
BY DEF AddFinalizer, RemoveFinalizer, Cluster, Finalizers

\* A patch stores a Cluster or nothing.
LEMMA AfterPatchType ==
    ASSUME NEW before \in Cluster, NEW after \in Cluster,
           NEW current \in Cluster \cup {Absent}
    PROVE  AfterPatch(before, after, current) \in Cluster \cup {Absent}
BY DEF AfterPatch, PatchRefused, Patched, Merged, Stored, Cluster

\* What others write to a Cluster or a ProviderConfig keeps its type.
LEMMA UpdateType ==
    /\ \A c \in Cluster : /\ Marked(c) \in Cluster
                         /\ WithoutCapi(c) \in Cluster
                         /\ Stored(c) \in Cluster \cup {Absent}
    /\ \A p \in ProviderConfig :
            /\ Marked(p) \in ProviderConfig
            /\ \A i \in Infos : WithInfo(p, i) \in ProviderConfig \cup {Absent}
BY DEF Cluster, ProviderConfig, Stored, Marked, WithoutCapi, WithInfo

\* Every step leaves the variables in their types.
LEMMA TypeStep == TypeOK /\ [Next]_vars => TypeOK'
<1> SUFFICES ASSUME TypeOK, [Next]_vars PROVE TypeOK'
  OBVIOUS
<1> USE DEF TypeOK, PCs, cache, locals, bounds
<1>1. ASSUME NEW c \in Clusters, GetCluster(c) PROVE TypeOK'
  BY <1>1 DEF GetCluster
<1>2. CASE GetIdentity
  BY <1>2 DEF GetIdentity
<1>3. CASE NoIdentity \/ HoldRefused
  BY <1>3 DEF NoIdentity, HoldRefused, Return
<1>4. CASE HoldCluster
  BY <1>4, AfterPatchType, FinalizerType DEF HoldCluster, PatchCluster
<1>5. CASE GetConfig
  BY <1>5 DEF GetConfig
<1>6. ASSUME CreateConfig \/ PatchConfig PROVE config' \in [Names -> ProviderConfig \cup {Absent}]
  <2>1. NameOf[req] \in Names /\ config[NameOf[req]] \in ProviderConfig \cup {Absent} /\ info \in Infos
    BY <1>6, NamesAssumption DEF CreateConfig, PatchConfig
  <2>2. [deleting |-> FALSE, info |-> info] \in ProviderConfig
    BY <2>1 DEF ProviderConfig
  <2> QED
    BY <1>6, <2>1, <2>2, UpdateType DEF CreateConfig, PatchConfig, WithInfo
<1>7. CASE WriteConfig
  BY <1>6, <1>7 DEF WriteConfig, Return
<1>8. ASSUME pc # "idle", RemoveConfig PROVE config' \in [Names -> ProviderConfig \cup {Absent}]
  BY <1>8, NamesAssumption, UpdateType DEF RemoveConfig
<1>9. CASE DeleteConfig
  BY <1>8, <1>9 DEF DeleteConfig
<1>10. CASE ReleaseCluster
  BY <1>10, AfterPatchType, FinalizerType DEF ReleaseCluster, PatchCluster, Return
<1>11. CASE Failure
  <2> USE BoundsAssumption DEF Fault, Return
  <2>1. CASE GetFails
    BY <2>1 DEF GetFails
  <2>2. CASE HoldFails
    BY <2>2, AfterPatchType, FinalizerType DEF HoldFails, PatchCluster
  <2>3. CASE WriteConfigFails
    BY <1>6, <2>3 DEF WriteConfigFails
  <2>4. CASE DeleteConfigFails
    BY <1>8, <2>4 DEF DeleteConfigFails
  <2>5. CASE ReleaseFails
    BY <2>5 DEF ReleaseFails
  <2>6. CASE Crash
    BY <2>6 DEF Crash
  <2> QED
    BY <1>11, <2>1, <2>2, <2>3, <2>4, <2>5, <2>6 DEF Failure
<1>12. CASE SyncClusters \/ SyncIdentities
  BY <1>12 DEF SyncClusters, SyncIdentities
<1>13. CASE Others
  <2> USE BoundsAssumption
  <2>1. ASSUME NEW c \in Clusters, Create(c) PROVE TypeOK'
    BY <2>1 DEF Create, Cluster
  <2>2. ASSUME NEW c \in Clusters, Delete(c) PROVE TypeOK'
    BY <2>2, UpdateType DEF Delete
  <2>3. ASSUME NEW c \in Clusters, CapiAddFinalizer(c) PROVE TypeOK'
    BY <2>3 DEF CapiAddFinalizer, Cluster, Finalizers
  <2>4. ASSUME NEW c \in Clusters, CapiRemoveFinalizer(c) PROVE TypeOK'
    BY <2>4, UpdateType DEF CapiRemoveFinalizer
  <2>5. ASSUME NEW c \in Clusters, NEW i \in Infos \cup {NoInfo}, SetIdentity(c, i) PROVE TypeOK'
    BY <2>5 DEF SetIdentity
  <2>6. ASSUME NEW n \in Names, CrossplaneRemove(n) PROVE TypeOK'
    BY <2>6 DEF CrossplaneRemove
  <2> QED
    BY <1>13, <2>1, <2>2, <2>3, <2>4, <2>5, <2>6 DEF Others
<1>14. CASE UNCHANGED vars
  BY <1>14 DEF vars
<1> QED
  BY <1>1, <1>2, <1>3, <1>4, <1>5, <1>7, <1>9, <1>10, <1>11, <1>12, <1>13, <1>14
     DEF Next, Continue

\* Every reachable state is well typed.
THEOREM ConfigTypeCorrect == Spec => []TypeOK
<1>1. Init => TypeOK
  BY BoundsAssumption DEF Init, TypeOK, PCs
<1> QED
  BY <1>1, TypeStep, PTL DEF Spec

-----------------------------------------------------------------------------
(* HoldInv is inductive.                                                   *)

\* The patch that adds the finalizer leaves a Cluster as it is or makes it a
\* held one; if it is not refused, the latter.
LEMMA AddPatch ==
    ASSUME NEW before \in Cluster, NEW current \in Cluster \cup {Absent},
           NEW stored, stored = AfterPatch(before, AddFinalizer(before), current)
    PROVE  /\ \/ stored = current
              \/ /\ current # Absent /\ stored # Absent
                 /\ stored.deleting = current.deleting
                 /\ "providerconfig" \in stored.finalizers
                 /\ "providerconfig" \notin before.finalizers
                 /\ current.deleting => "providerconfig" \in current.finalizers
           /\ ( /\ ~PatchRefused(before, AddFinalizer(before), current)
                /\ "providerconfig" \notin before.finalizers )
              => stored # Absent /\ "providerconfig" \in stored.finalizers
<1> DEFINE after == AddFinalizer(before)
           new == Patched(before, after, current)
<1>1. /\ after \in Cluster
      /\ after.finalizers = before.finalizers \cup {"providerconfig"}
      /\ "providerconfig" \in before.finalizers <=> after = before
  BY DEF AddFinalizer, Cluster, Finalizers
<1>2. CASE after = before
  BY <1>1, <1>2 DEF AfterPatch
<1>3. CASE after # before /\ PatchRefused(before, after, current)
  BY <1>3 DEF AfterPatch
<1>4. CASE after # before /\ ~PatchRefused(before, after, current)
  <2>1. current \in Cluster /\ Accepted(current, new) /\ stored = Stored(new)
    BY <1>4 DEF AfterPatch, PatchRefused
  <2>2. new \in Cluster /\ new.deleting = current.deleting /\ new.finalizers = after.finalizers
    BY <1>1, <1>4, <2>1 DEF Patched, Merged, Cluster
  <2>3. stored = new
    BY <1>1, <2>1, <2>2 DEF Stored
  <2> QED
    BY <1>1, <1>4, <2>1, <2>2, <2>3, ValuesAssumption DEF Accepted
<1> QED
  BY <1>2, <1>3, <1>4

\* The patch that removes the finalizer leaves a Cluster as it is, or the copy
\* had the finalizer and the Cluster has not got it any more.
LEMMA RemovePatch ==
    ASSUME NEW before \in Cluster, NEW current \in Cluster \cup {Absent},
           NEW stored, stored = AfterPatch(before, RemoveFinalizer(before), current)
    PROVE  \/ stored = current
           \/ /\ current # Absent /\ "providerconfig" \in before.finalizers
              /\ stored # Absent => /\ "providerconfig" \notin stored.finalizers
                                    /\ stored.deleting = current.deleting
<1> DEFINE after == RemoveFinalizer(before)
           new == Patched(before, after, current)
<1>1. /\ after \in Cluster
      /\ after.finalizers = before.finalizers \ {"providerconfig"}
      /\ "providerconfig" \in before.finalizers <=> after # before
  BY DEF RemoveFinalizer, Cluster, Finalizers
<1>2. CASE after = before \/ PatchRefused(before, after, current)
  BY <1>2 DEF AfterPatch
<1>3. CASE after # before /\ ~PatchRefused(before, after, current)
  <2>1. current \in Cluster /\ stored = Stored(new)
    BY <1>3 DEF AfterPatch, PatchRefused
  <2>2. new.deleting = current.deleting /\ new.finalizers = after.finalizers
    BY <1>1, <1>3, <2>1 DEF Patched, Merged, Cluster
  <2> QED
    BY <1>1, <1>3, <2>1, <2>2, ValuesAssumption DEF Stored
<1> QED
  BY <1>2, <1>3

\* What users and CAPI do to a Cluster: the operator's finalizer stays, a
\* deletion is not taken back, and a new Cluster does not have the finalizer.
WrittenByOthers(c) ==
    Create(c) \/ Delete(c) \/ CapiAddFinalizer(c) \/ CapiRemoveFinalizer(c)

LEMMA OthersStep ==
    ASSUME TypeOK, NEW c \in Clusters, WrittenByOthers(c)
    PROVE  /\ UNCHANGED <<config, identity, cache, locals>>
           /\ \A d \in Clusters \ {c} : cluster'[d] = cluster[d]
           /\ Held(c)' <=> Held(c)
           /\ Holding(cluster'[c]) => Holding(cluster[c])
           /\ Leaving(cluster[c]) => Leaving(cluster'[c])
<1> USE DEF TypeOK, Held, Holding, Leaving, locals, cache
<1>1. CASE Create(c)
  BY <1>1 DEF Create
<1>2. CASE Delete(c)
  <2>1. /\ cluster[c] \in Cluster
        /\ Marked(cluster[c]).deleting
        /\ Marked(cluster[c]).finalizers = cluster[c].finalizers
    BY <1>2 DEF Delete, Marked, Cluster
  <2>2. cluster'[c] = Stored(Marked(cluster[c]))
    BY <1>2 DEF Delete
  <2>3. Marked(cluster[c]) \in Cluster
    BY <2>1, UpdateType
  <2>4. "providerconfig" \in cluster[c].finalizers => cluster'[c] = Marked(cluster[c])
    BY <2>1, <2>2 DEF Stored
  <2>5. cluster'[c] \in {Absent, Marked(cluster[c])}
    BY <2>2 DEF Stored
  <2> QED
    BY <1>2, <2>1, <2>3, <2>4, <2>5, ValuesAssumption DEF Delete
<1>3. CASE CapiAddFinalizer(c)
  <2>1. /\ cluster[c] \in Cluster
        /\ cluster'[c] = [cluster[c] EXCEPT !.finalizers = @ \cup {"capi"}]
    BY <1>3 DEF CapiAddFinalizer
  <2>2. /\ cluster'[c].deleting = cluster[c].deleting
        /\ cluster'[c].finalizers = cluster[c].finalizers \cup {"capi"}
        /\ cluster'[c] \in Cluster
    BY <2>1 DEF Cluster, Finalizers
  <2> QED
    BY <1>3, <2>1, <2>2, ValuesAssumption DEF CapiAddFinalizer
<1>4. CASE CapiRemoveFinalizer(c)
  <2>1. /\ cluster[c] \in Cluster /\ cluster[c].deleting
        /\ WithoutCapi(cluster[c]).deleting
        /\ WithoutCapi(cluster[c]).finalizers = cluster[c].finalizers \ {"capi"}
    BY <1>4 DEF CapiRemoveFinalizer, WithoutCapi, Cluster
  <2>2. cluster'[c] = Stored(WithoutCapi(cluster[c]))
    BY <1>4 DEF CapiRemoveFinalizer
  <2>3. WithoutCapi(cluster[c]) \in Cluster
    BY <2>1, UpdateType
  <2>4. "providerconfig" \in cluster[c].finalizers => cluster'[c] = WithoutCapi(cluster[c])
    BY <2>1, <2>2 DEF Stored
  <2>5. cluster'[c] \in {Absent, WithoutCapi(cluster[c])}
    BY <2>2 DEF Stored
  <2> QED
    BY <1>4, <2>1, <2>3, <2>4, <2>5, ValuesAssumption DEF CapiRemoveFinalizer
<1> QED
  BY <1>1, <1>2, <1>3, <1>4 DEF WrittenByOthers

\* Every step keeps HoldInv.
LEMMA HoldStep ==
    ASSUME TypeOK, HoldInv, [Next]_vars
    PROVE  HoldInv'
<1> USE DEF TypeOK, PCs, HoldInv, ConfigHeld, NormalPCs, DeletePCs
<1>1. ASSUME NEW c \in Clusters, GetCluster(c) PROVE HoldInv'
  BY <1>1 DEF GetCluster, cache, Held, Live, Holding, Leaving
<1>2. CASE GetIdentity
  BY <1>2 DEF GetIdentity, cache, Held, Live, Holding, Leaving
<1>3. CASE GetConfig
  BY <1>3 DEF GetConfig, cache, Held, Live, Holding, Leaving
<1>4. CASE NoIdentity \/ HoldRefused \/ GetFails \/ ReleaseFails
  BY <1>4 DEF NoIdentity, HoldRefused, GetFails, ReleaseFails, Return, cache,
     Held, Live, Holding, Leaving
<1>5. ASSUME HoldCluster \/ HoldFails PROVE HoldInv'
  <2> DEFINE stored == AfterPatch(orig, AddFinalizer(orig), cluster[req])
  <2>1. /\ pc = "hold" /\ req \in Clusters /\ orig \in Cluster /\ ~orig.deleting
        /\ UNCHANGED <<config, clusterCache>>
    BY <1>5 DEF HoldCluster, HoldFails, cache
  <2>2. UNCHANGED cluster \/ cluster' = [cluster EXCEPT ![req] = stored]
    BY <1>5 DEF HoldCluster, HoldFails, PatchCluster
  <2>3. /\ \A d \in Clusters \ {req} : cluster'[d] = cluster[d]
        /\ cluster'[req] \in {cluster[req], stored}
    BY <2>1, <2>2
  <2>4. \/ cluster'[req] = cluster[req]
        \/ /\ cluster[req] # Absent /\ cluster'[req] # Absent
           /\ cluster'[req].deleting = cluster[req].deleting
           /\ "providerconfig" \in cluster'[req].finalizers
           /\ cluster[req].deleting => "providerconfig" \in cluster[req].finalizers
    BY <2>1, <2>3, AddPatch
  <2>5. HoldCluster => Held(req)'
    <3> SUFFICES ASSUME HoldCluster PROVE Held(req)'
      OBVIOUS
    <3>1. /\ ~PatchRefused(orig, AddFinalizer(orig), cluster[req])
          /\ cluster'[req] = stored /\ req' = req
      BY <2>1 DEF HoldCluster, PatchCluster
    <3>2. CASE "providerconfig" \notin orig.finalizers
      BY <2>1, <3>1, <3>2, AddPatch DEF Held
    <3>3. CASE "providerconfig" \in orig.finalizers
      BY <2>1, <2>4, <3>1, <3>3, ValuesAssumption DEF Holding, Held
    <3> QED
      BY <3>2, <3>3
  <2>6. \A c \in Clusters : Held(c) => Held(c)'
    BY <2>3, <2>4 DEF Held
  <2>7. \A c \in Clusters : Leaving(clusterCache[c]) => ~Holding(cluster'[c])
    BY <2>1, <2>3, <2>4 DEF Holding, Leaving
  <2>8. ConfigHeld'
    BY <2>1, <2>6 DEF Live
  <2>9. CASE HoldCluster
    BY <2>1, <2>5, <2>6, <2>7, <2>8, <2>9 DEF HoldCluster, Holding
  <2>10. CASE HoldFails
    BY <2>1, <2>6, <2>7, <2>8, <2>10 DEF HoldFails, Return, Holding
  <2> QED
    BY <1>5, <2>9, <2>10
<1>6. ASSUME WriteConfig \/ WriteConfigFails PROVE HoldInv'
  <2>1. /\ pc \in {"create", "patch"} /\ UNCHANGED <<cluster, clusterCache>>
        /\ pc' = "idle"
        /\ \A n \in Names \ {NameOf[req]} : config'[n] = config[n]
    BY <1>6, NamesAssumption
       DEF WriteConfig, WriteConfigFails, CreateConfig, PatchConfig, Return, cache
  <2>2. req \in Clusters /\ Held(req)
    BY <2>1
  <2>3. ConfigHeld'
    BY <2>1, <2>2 DEF Live, Held
  <2> QED
    BY <2>1, <2>3 DEF Held, Holding, Leaving
<1>7. ASSUME DeleteConfig \/ DeleteConfigFails PROVE HoldInv'
  <2>1. /\ pc = "delete" /\ UNCHANGED <<cluster, clusterCache>>
        /\ UNCHANGED config \/ RemoveConfig
        /\ req \in Clusters /\ NameOf[req] \in Names
    BY <1>7, NamesAssumption DEF DeleteConfig, DeleteConfigFails, cache
  <2>2. /\ \A n \in Names : Live(n)' => Live(n)
        /\ RemoveConfig => ~(config'[NameOf[req]] # Absent /\ ~config'[NameOf[req]].deleting)
    <3>1. config[NameOf[req]] # Absent => Marked(config[NameOf[req]]).deleting
      BY <2>1 DEF Marked, ProviderConfig
    <3> QED
      BY <2>1, <3>1 DEF RemoveConfig, Live
  <2>3. ConfigHeld'
    BY <2>1, <2>2 DEF Held
  <2>4. CASE DeleteConfig
    BY <2>1, <2>2, <2>3, <2>4 DEF DeleteConfig, Live, Held, Holding, Leaving
  <2>5. CASE DeleteConfigFails
    BY <2>1, <2>3, <2>5 DEF DeleteConfigFails, Return, Held, Holding, Leaving
  <2> QED
    BY <1>7, <2>4, <2>5
<1>8. CASE ReleaseCluster
  <2> DEFINE stored == AfterPatch(orig, RemoveFinalizer(orig), cluster[req])
  <2>1. /\ pc = "release" /\ req \in Clusters /\ orig \in Cluster /\ orig.deleting
        /\ UNCHANGED <<config, clusterCache>> /\ pc' = "idle"
        /\ cluster' = [cluster EXCEPT ![req] = stored]
    BY <1>8 DEF ReleaseCluster, PatchCluster, Return, cache
  <2>2. /\ \A d \in Clusters \ {req} : cluster'[d] = cluster[d]
        /\ cluster'[req] = stored
    BY <2>1
  <2>3. \/ cluster'[req] = cluster[req]
        \/ /\ Leaving(orig)
           /\ cluster'[req] # Absent => "providerconfig" \notin cluster'[req].finalizers
    BY <2>1, <2>2, RemovePatch, ValuesAssumption DEF Leaving
  <2>4. ConfigHeld'
    BY <2>1, <2>2 DEF Live, Held
  <2>5. \A c \in Clusters : /\ Holding(clusterCache[c]) => Held(c)'
                            /\ Leaving(clusterCache[c]) => ~Holding(cluster'[c])
    BY <2>1, <2>2, <2>3 DEF Held, Holding
  <2> QED
    BY <2>1, <2>4, <2>5
<1>9. CASE SyncClusters \/ SyncIdentities
  BY <1>9 DEF SyncClusters, SyncIdentities, locals, Held, Live, Holding, Leaving
<1>10. CASE Crash
  BY <1>10 DEF Crash, Return, Held, Live, Holding, Leaving
<1>11. ASSUME NEW c \in Clusters, WrittenByOthers(c) PROVE HoldInv'
  <2>1. /\ UNCHANGED <<config, clusterCache, pc, req, orig>>
    BY <1>11, OthersStep DEF cache, locals
  <2>2. \A d \in Clusters : Held(d) => Held(d)'
    BY <1>11, OthersStep DEF Held
  <2>3. \A d \in Clusters : /\ Holding(cluster'[d]) => Holding(cluster[d])
                            /\ Leaving(cluster[d]) => Leaving(cluster'[d])
    BY <1>11, OthersStep
  <2>4. ConfigHeld'
    BY <2>1, <2>2 DEF Live
  <2> QED
    BY <2>1, <2>2, <2>3, <2>4 DEF Live
<1>12. ASSUME NEW c \in Clusters, NEW i \in Infos \cup {NoInfo}, SetIdentity(c, i)
       PROVE  HoldInv'
  BY <1>12 DEF SetIdentity, cache, locals, Held, Live, Holding, Leaving
<1>13. ASSUME NEW n \in Names, CrossplaneRemove(n) PROVE HoldInv'
  BY <1>13, NamesAssumption DEF CrossplaneRemove, cache, locals, Held, Live, Holding, Leaving
<1>14. CASE UNCHANGED vars
  BY <1>14 DEF vars, cache, locals, Held, Live, Holding, Leaving
<1> QED
  BY <1>1, <1>2, <1>3, <1>4, <1>5, <1>6, <1>7, <1>8, <1>9, <1>10, <1>11, <1>12, <1>13, <1>14
     DEF Next, Continue, Failure, Others, WrittenByOthers

\* HoldInv holds in every reachable state: what the cache and the worker's
\* copy say of a Cluster never justifies a release that its successor of the
\* same name would suffer from (the single worker, the order of its writes).
THEOREM HoldInvariant == Spec => []HoldInv
<1>1. Init => HoldInv
  BY DEF Init, HoldInv, ConfigHeld, Live, Held, Holding, Leaving, NormalPCs, DeletePCs
<1>2. TypeOK /\ HoldInv /\ [Next]_vars => HoldInv'
  BY HoldStep
<1> QED
  BY <1>1, <1>2, ConfigTypeCorrect, PTL DEF Spec

\* Whatever is deleted, created again, lost or interrupted, every ProviderConfig
\* has a Cluster that holds the finalizer and will remove it (the order of the
\* writes in reconcileNormal and reconcileDelete).
THEOREM ConfigSafe == Spec => []ConfigHeld
<1>1. HoldInv => ConfigHeld
  BY DEF HoldInv
<1> QED
  BY <1>1, HoldInvariant, PTL
=============================================================================
