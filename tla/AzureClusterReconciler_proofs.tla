-------------------- MODULE AzureClusterReconciler_proofs --------------------
(***************************************************************************)
(* Proofs about AzureClusterReconciler, for any number of clusters, links, *)
(* addresses, creations, edits and failures.                               *)
(***************************************************************************)
EXTENDS AzureClusterInvariants, TLAPS

-----------------------------------------------------------------------------
(* What the operators on objects return.                                   *)

\* A fresh object is an AzureCluster.
LEMMA NewType == NewAzureCluster \in AzureCluster
BY DEF NewAzureCluster, AzureCluster, MaybeIP, Finalizers

\* Storing an AzureCluster leaves one, or none.
LEMMA StoredType ==
    ASSUME NEW c \in AzureCluster
    PROVE  Stored(c) \in AzureCluster \cup {Absent}
BY DEF Stored

\* A merge patch leaves an AzureCluster an AzureCluster.
LEMMA PatchedType ==
    ASSUME NEW before \in AzureCluster, NEW after \in AzureCluster,
           NEW current \in AzureCluster
    PROVE  /\ PatchedObject(before, after, current) \in AzureCluster
           /\ PatchedStatus(before, after, current) \in AzureCluster
BY DEF PatchedObject, PatchedStatus, Merged, AzureCluster

\* So does one request of the patch helper, unless the object goes away.
LEMMA AfterPatchType ==
    ASSUME NEW before \in AzureCluster, NEW after \in AzureCluster,
           NEW current \in AzureCluster \cup {Absent}, NEW part
    PROVE  AfterPatch(part, before, after, current) \in AzureCluster \cup {Absent}
BY PatchedType, StoredType DEF AfterPatch

\* Changing the finalizers in memory leaves an AzureCluster.
LEMMA FinalizerType ==
    ASSUME NEW c \in AzureCluster
    PROVE  setFinalizer(c) \in AzureCluster /\ removeFinalizer(c) \in AzureCluster
BY DEF setFinalizer, removeFinalizer, AzureCluster, Finalizers

\* The endpoint operations stay within the endpoints and what they are given.
LEMMA EndpointOpsType ==
    ASSUME NEW eps \in SUBSET Endpoint, NEW w \in WorkloadClusters, NEW c
    PROVE  /\ RemoveUnusedEndpoints(w, c, eps) \in SUBSET eps
           /\ DeleteMcToWcApi(w, c, eps) \in SUBSET eps
           /\ \A l \in Links : /\ EndpointFor(w, l) \in Endpoint
                               /\ AddPrivateEndpointSpec(eps, EndpointFor(w, l))
                                        \in SUBSET Endpoint
BY DEF RemoveUnusedEndpoints, DeleteMcToWcApi, AddPrivateEndpointSpec,
       EndpointFor, Endpoint

-----------------------------------------------------------------------------
(* Type correctness.                                                       *)

\* What is read is an object or nothing, and a set of endpoints.
LEMMA ReadType ==
    ASSUME TypeOK, NEW w \in WorkloadClusters
    PROVE  /\ ReadWC(w) \in AzureCluster \cup {Absent}
           /\ ReadMC \in SUBSET Endpoint
BY DEF ReadWC, ReadMC, TypeOK

\* Every step of the specification, a stuttering one too, keeps the types.
LEMMA TypeStep == TypeOK /\ [Next]_vars => TypeOK'
<1> SUFFICES ASSUME TypeOK, [Next]_vars PROVE TypeOK'
  OBVIOUS
<1> USE DEF TypeOK, api, cache, azure, copies, locals, bounds
<1>1. ASSUME NEW w \in WorkloadClusters, GetWorkloadCluster(w) PROVE TypeOK'
  BY <1>1, ReadType DEF GetWorkloadCluster, PCs
<1>2. CASE ReadFails
  BY <1>2, BoundsAssumption DEF ReadFails, ClearLocals, Fault, PCs, Outcomes, PatchParts
<1>3. ASSUME OpenNormal PROVE wcCopy' \in AzureCluster /\ mcCopy' \subseteq Endpoint
                              /\ mcOrig' \subseteq Endpoint
  BY <1>3, ReadType, FinalizerType DEF OpenNormal, OpenScopes
<1>4. CASE ReconcilePublic
  BY <1>4, <1>3 DEF ReconcilePublic, OpenNormal, OpenScopes, ContinueWithIngress,
     CloseWith, PCs, Outcomes
<1>5. CASE NoAllowedLinks
  BY <1>5, <1>3 DEF NoAllowedLinks, OpenNormal, OpenScopes, CloseWith,
     CloseWithError, PCs, Outcomes
<1>6. CASE PrivateLinksNotReady
  BY <1>6, <1>3 DEF PrivateLinksNotReady, OpenNormal, OpenScopes, CloseWith,
     CloseWithError, PCs, Outcomes
<1>7. CASE ReconcileMcToWcApi
  <2>1. GetPrivateLinksWithAllowedSubscription(wcCopy) \subseteq Links
    BY <1>7 DEF ReconcileMcToWcApi, OpenNormal, OpenScopes,
       GetPrivateLinksWithAllowedSubscription, AzureCluster
  <2> QED
    BY <1>7, <1>3, <2>1 DEF ReconcileMcToWcApi, OpenNormal, OpenScopes, PCs
<1>8. CASE ReconcileDelete
  <2>1. mcOrig' \subseteq Endpoint /\ mcCopy' \subseteq Endpoint /\ wcCopy' \in AzureCluster
    BY <1>8, ReadType, EndpointOpsType, FinalizerType DEF ReconcileDelete, OpenScopes
  <2> QED
    BY <1>8, <2>1 DEF ReconcileDelete, OpenScopes, CloseWith, PCs, Outcomes
<1>9. ASSUME NEW l \in Links, VisitLink(l)
      PROVE  mcCopy' \subseteq Endpoint /\ EndpointFor(req, l) \in Endpoint
  BY <1>9, EndpointOpsType DEF VisitLink
<1>10. ASSUME NEW l \in Links, EndpointFound(l) PROVE TypeOK'
  <2>1. wcCopy' \in AzureCluster
    BY <1>10, <1>9 DEF EndpointFound, VisitLink, AzureCluster
  <2> QED
    BY <1>10, <1>9, <2>1 DEF EndpointFound, VisitLink
<1>11. ASSUME NEW l \in Links, EndpointPending(l) PROVE TypeOK'
  BY <1>11, <1>9 DEF EndpointPending, VisitLink, CloseWith, CloseWithError, PCs, Outcomes
<1>12. ASSUME NEW l \in Links, EndpointLookupFails(l) PROVE TypeOK'
  BY <1>12, <1>9, BoundsAssumption
     DEF EndpointLookupFails, VisitLink, Fault, CloseWith, PCs, Outcomes
<1>13. CASE LinksVisited
  <2>1. mcCopy' \subseteq Endpoint
    BY <1>13, EndpointOpsType DEF LinksVisited
  <2> QED
    BY <1>13, <2>1 DEF LinksVisited, ContinueWithIngress, CloseWith, PCs, Outcomes
<1>14. CASE GatewayFound
  <2>1. wcCopy' \in AzureCluster
    BY <1>14 DEF GatewayFound, VisitGateway, AzureCluster
  <2> QED
    BY <1>14, <2>1 DEF GatewayFound, VisitGateway, CloseWith, PCs, Outcomes
<1>15. CASE GatewayPending
  <2>1. wcCopy' \in AzureCluster
    BY <1>15 DEF GatewayPending, VisitGateway, AzureCluster
  <2> QED
    BY <1>15, <2>1 DEF GatewayPending, VisitGateway, CloseWith, CloseWithError, PCs, Outcomes
<1>16. CASE GatewayLookupFails
  <2>1. wcCopy' \in AzureCluster
    BY <1>16 DEF GatewayLookupFails, VisitGateway, AzureCluster
  <2> QED
    BY <1>16, <2>1, BoundsAssumption
       DEF GatewayLookupFails, VisitGateway, Fault, CloseWith, PCs, Outcomes
<1>17. CASE PatchMC
  BY <1>17 DEF PatchMC, Merged, PCs
<1>18. CASE PatchMCFails
  BY <1>18, BoundsAssumption DEF PatchMCFails, Fault, Merged, PCs, Outcomes
<1>19. ASSUME NEW part \in PatchParts, PatchWC(part) PROVE TypeOK'
  BY <1>19, AfterPatchType DEF PatchWC, Outcomes
<1>20. ASSUME NEW part \in PatchParts, PatchWCFails(part) PROVE TypeOK'
  BY <1>20, AfterPatchType, BoundsAssumption DEF PatchWCFails, Fault, Outcomes
<1>21. CASE Return
  BY <1>21 DEF Return, ClearLocals, PCs, Outcomes
<1>22. CASE Sync
  BY <1>22 DEF Sync
<1>23. CASE Crash
  BY <1>23, BoundsAssumption DEF Crash, ClearLocals, Fault, PCs, Outcomes
<1>24. ASSUME NEW w \in WorkloadClusters, Create(w) PROVE TypeOK'
  BY <1>24, NewType, BoundsAssumption DEF Create
<1>25. ASSUME NEW w \in WorkloadClusters, Delete(w) PROVE TypeOK'
  <2>1. Marked(wc[w]) \in AzureCluster
    BY <1>25 DEF Delete, AzureCluster, Marked
  <2> QED
    BY <1>25, <2>1, StoredType, BoundsAssumption DEF Delete
<1>26. ASSUME NEW w \in WorkloadClusters, NEW links \in SUBSET Links,
              NEW allowed \in SUBSET links, EditPrivateLinks(w, links, allowed)
       PROVE  TypeOK'
  <2>1. [wc[w] EXCEPT !.privateLinks = links, !.allowed = allowed] \in AzureCluster
    BY <1>26 DEF EditPrivateLinks, AzureCluster
  <2> QED
    BY <1>26, <2>1, BoundsAssumption DEF EditPrivateLinks
<1>27. ASSUME NEW w \in WorkloadClusters, CapzAddFinalizer(w) PROVE TypeOK'
  BY <1>27 DEF CapzAddFinalizer, AzureCluster, Finalizers
<1>28. ASSUME NEW w \in WorkloadClusters, CapzPrivateLinksReady(w) PROVE TypeOK'
  BY <1>28 DEF CapzPrivateLinksReady, AzureCluster
<1>29. ASSUME NEW w \in WorkloadClusters, CapzDeleteCluster(w) PROVE TypeOK'
  <2>1. [wc[w] EXCEPT !.finalizers = @ \ {"capz"}] \in AzureCluster
    BY <1>29 DEF CapzDeleteCluster, AzureCluster, Finalizers
  <2> QED
    BY <1>29, <2>1, StoredType DEF CapzDeleteCluster, MaybeIP
<1>30. ASSUME NEW w \in WorkloadClusters, CapzCreateGateway(w) PROVE TypeOK'
  BY <1>30 DEF CapzCreateGateway, MaybeIP
<1>31. ASSUME NEW e \in Endpoint, CapzEndpoint(e) PROVE TypeOK'
  BY <1>31 DEF CapzEndpoint, CapzCreateEndpoint, CapzDeleteEndpoint, MaybeIP
<1>32. CASE UNCHANGED vars
  BY <1>32 DEF vars
<1> QED
  BY <1>1, <1>2, <1>4, <1>5, <1>6, <1>7, <1>8, <1>10, <1>11, <1>12, <1>13, <1>14,
     <1>15, <1>16, <1>17, <1>18, <1>19, <1>20, <1>21, <1>22, <1>23, <1>24, <1>25,
     <1>26, <1>27, <1>28, <1>29, <1>30, <1>31, <1>32
     DEF Next, Operator, Continue, Failure, Users, Capz, CapzCluster

\* The types hold in every reachable state.
THEOREM TypeCorrect == Spec => []TypeOK
<1>1. Init => TypeOK
  BY BoundsAssumption DEF Init, Start, TypeOK, PCs, Outcomes, MaybeIP
<1> QED
  BY <1>1, TypeStep, PTL DEF Spec

-----------------------------------------------------------------------------
(* Steps grouped by what they can disturb.                                 *)

\* A write to the object of w by someone else than the operator.
WrittenByOthers(w) ==
    \/ Create(w)
    \/ Delete(w)
    \/ \E links \in SUBSET Links : \E allowed \in SUBSET links :
            EditPrivateLinks(w, links, allowed)
    \/ CapzCluster(w)

\* The steps in the body of Reconcile after the scopes are open.
Body ==
    \/ \E l \in Links : EndpointFound(l) \/ EndpointPending(l) \/ EndpointLookupFails(l)
    \/ LinksVisited \/ GatewayFound \/ GatewayPending \/ GatewayLookupFails

\* The steps that read the MC and decide on a path.
Open ==
    \/ ReconcilePublic \/ NoAllowedLinks \/ PrivateLinksNotReady
    \/ ReconcileMcToWcApi \/ ReconcileDelete

\* The steps after which no reconciliation is running.
Leave == ReadFails \/ Return \/ Crash

\* The requests of the MC's and the WC's deferred call.
WriteMC == PatchMC \/ PatchMCFails
WriteWC(part) == PatchWC(part) \/ PatchWCFails(part)

\* Every step belongs to one of the groups.
LEMMA Groups ==
    ASSUME [Next]_vars
    PROVE  \/ \E w \in WorkloadClusters : GetWorkloadCluster(w)
           \/ Open \/ Body \/ WriteMC \/ Leave \/ Sync
           \/ \E part \in PatchParts : WriteWC(part)
           \/ \E w \in WorkloadClusters : WrittenByOthers(w)
           \/ \E e \in Endpoint : CapzEndpoint(e)
           \/ UNCHANGED vars
BY DEF Next, Operator, Continue, Failure, Users, Capz, WrittenByOthers, Body, Open,
       Leave, WriteMC, WriteWC

\* The finalizer of the operator and the deletion of w after such a write.
KeptByOthers(w) ==
    /\ UNCHANGED <<mc, wcCache, mcCache, pc, req, wcOrig, wcCopy,
                   mcOrig, mcCopy, todo, parts, outcome>>
    /\ \A v \in WorkloadClusters \ {w} : wc'[v] = wc[v]
    /\ Held(w) <=> Held(w)'
    /\ Held(w) /\ wc[w].deleting => wc'[w].deleting

\* The write changes nothing else that the operator looks at.
OnlyWC == UNCHANGED <<mc, wcCache, mcCache, pc, req, wcOrig, wcCopy,
                      mcOrig, mcCopy, todo, parts, outcome>>

\* It is enough that the new object agrees with the old one on the operator's
\* finalizer and is in deletion if the old one was.
LEMMA OthersWrite ==
    ASSUME TypeOK, NEW w \in WorkloadClusters, NEW c \in AzureCluster,
           wc[w] \in AzureCluster,
           "operator" \in c.finalizers <=> "operator" \in wc[w].finalizers,
           wc[w].deleting => c.deleting,
           wc' = [wc EXCEPT ![w] = c] \/ wc' = [wc EXCEPT ![w] = Stored(c)],
           OnlyWC
    PROVE  KeptByOthers(w)
<1>1. wc[w] # Absent /\ c # Absent
  BY AbsentAssumption
<1>2. wc'[w] = c \/ (wc'[w] = Absent /\ "operator" \notin c.finalizers)
  BY DEF TypeOK, Stored
<1>3. \A v \in WorkloadClusters \ {w} : wc'[v] = wc[v]
  BY DEF TypeOK
<1> QED
  BY <1>1, <1>2, <1>3 DEF KeptByOthers, OnlyWC, Held

\* A write by someone else neither gives nor takes the operator's finalizer,
\* and does not revive a cluster.
LEMMA OthersStep ==
    ASSUME TypeOK, NEW w \in WorkloadClusters, WrittenByOthers(w)
    PROVE  KeptByOthers(w)
<1> USE DEF TypeOK
<1>1. CASE Create(w)
  BY <1>1, NewType, AbsentAssumption
     DEF Create, NewAzureCluster, KeptByOthers, Held, cache, locals, copies
<1>2. CASE Delete(w)
  <2> DEFINE c == Marked(wc[w])
  <2>1. /\ wc[w] \in AzureCluster /\ c \in AzureCluster /\ c.deleting
        /\ c.finalizers = wc[w].finalizers
    BY <1>2 DEF Delete, AzureCluster, Marked
  <2>2. wc' = [wc EXCEPT ![w] = Stored(c)]
    BY <1>2 DEF Delete
  <2>3. OnlyWC
    BY <1>2 DEF Delete, OnlyWC, cache, locals, copies
  <2> HIDE DEF c
  <2> QED
    BY <2>1, <2>2, <2>3, OthersWrite
<1>3. ASSUME NEW links \in SUBSET Links, NEW allowed \in SUBSET links,
             EditPrivateLinks(w, links, allowed)
      PROVE  KeptByOthers(w)
  <2> DEFINE c == [wc[w] EXCEPT !.privateLinks = links, !.allowed = allowed]
  <2>1. /\ wc[w] \in AzureCluster /\ c \in AzureCluster /\ c.deleting = wc[w].deleting
        /\ c.finalizers = wc[w].finalizers
    BY <1>3 DEF EditPrivateLinks, AzureCluster
  <2>2. wc' = [wc EXCEPT ![w] = c]
    BY <1>3 DEF EditPrivateLinks
  <2>3. OnlyWC
    BY <1>3 DEF EditPrivateLinks, OnlyWC, cache, locals, copies
  <2> HIDE DEF c
  <2> QED
    BY <2>1, <2>2, <2>3, OthersWrite
<1>4. CASE CapzAddFinalizer(w)
  <2> DEFINE c == [wc[w] EXCEPT !.finalizers = @ \cup {"capz"}]
  <2>1. /\ wc[w] \in AzureCluster /\ c \in AzureCluster /\ c.deleting = wc[w].deleting
        /\ c.finalizers = wc[w].finalizers \cup {"capz"}
    BY <1>4 DEF CapzAddFinalizer, AzureCluster, Finalizers
  <2>2. wc' = [wc EXCEPT ![w] = c]
    BY <1>4 DEF CapzAddFinalizer
  <2>3. OnlyWC
    BY <1>4 DEF CapzAddFinalizer, OnlyWC, cache, locals, copies
  <2> HIDE DEF c
  <2> QED
    BY <2>1, <2>2, <2>3, OthersWrite
<1>5. CASE CapzPrivateLinksReady(w)
  <2> DEFINE c == [wc[w] EXCEPT !.linksReady = TRUE]
  <2>1. /\ wc[w] \in AzureCluster /\ c \in AzureCluster /\ c.deleting = wc[w].deleting
        /\ c.finalizers = wc[w].finalizers
    BY <1>5 DEF CapzPrivateLinksReady, AzureCluster
  <2>2. wc' = [wc EXCEPT ![w] = c]
    BY <1>5 DEF CapzPrivateLinksReady
  <2>3. OnlyWC
    BY <1>5 DEF CapzPrivateLinksReady, OnlyWC, cache, locals, copies
  <2> HIDE DEF c
  <2> QED
    BY <2>1, <2>2, <2>3, OthersWrite
<1>6. CASE CapzDeleteCluster(w)
  <2> DEFINE c == [wc[w] EXCEPT !.finalizers = @ \ {"capz"}]
  <2>1. /\ wc[w] \in AzureCluster /\ c \in AzureCluster /\ c.deleting = wc[w].deleting
        /\ c.finalizers = wc[w].finalizers \ {"capz"}
    BY <1>6 DEF CapzDeleteCluster, AzureCluster, Finalizers
  <2>2. wc' = [wc EXCEPT ![w] = Stored(c)]
    BY <1>6 DEF CapzDeleteCluster
  <2>3. OnlyWC
    BY <1>6 DEF CapzDeleteCluster, OnlyWC, cache, locals, copies
  <2> HIDE DEF c
  <2> QED
    BY <2>1, <2>2, <2>3, OthersWrite
<1>7. CASE CapzCreateGateway(w)
  BY <1>7 DEF CapzCreateGateway, KeptByOthers, Held, api, cache, locals, copies
<1> QED
  BY <1>1, <1>2, <1>3, <1>4, <1>5, <1>6, <1>7 DEF WrittenByOthers, CapzCluster

-----------------------------------------------------------------------------
(* The finalizers of the copy.                                             *)

\* What the body of Reconcile leaves alone.
KeptByBody ==
    /\ UNCHANGED <<wc, mc, wcCache, mcCache, req, wcOrig, mcOrig, parts>>
    /\ wcCopy'.finalizers = wcCopy.finalizers
    /\ wcCopy'.deleting = wcCopy.deleting
    /\ wcCopy'.privateLinks = wcCopy.privateLinks
    /\ wcCopy'.allowed = wcCopy.allowed
    /\ pc \in {"api", "ingress"}
    /\ pc' \in {"api", "ingress", "closeMC"}

\* The body of Reconcile keeps what was read, and what it changes in the copy
\* is neither the finalizers, nor the deletion, nor the links.
LEMMA BodyStep ==
    ASSUME TypeOK, Body
    PROVE  KeptByBody
<1> USE DEF TypeOK, AzureCluster, VisitLink, VisitGateway, CloseWith, CloseWithError,
        api, cache, KeptByBody
<1>1. ASSUME NEW l \in Links, EndpointFound(l) PROVE KeptByBody
  BY <1>1 DEF EndpointFound
<1>2. ASSUME NEW l \in Links, EndpointPending(l) PROVE KeptByBody
  BY <1>2 DEF EndpointPending
<1>3. ASSUME NEW l \in Links, EndpointLookupFails(l) PROVE KeptByBody
  BY <1>3 DEF EndpointLookupFails
<1>4. CASE LinksVisited
  BY <1>4 DEF LinksVisited, ContinueWithIngress
<1>5. CASE GatewayFound
  BY <1>5 DEF GatewayFound
<1>6. CASE GatewayPending
  BY <1>6 DEF GatewayPending
<1>7. CASE GatewayLookupFails
  BY <1>7 DEF GatewayLookupFails
<1> QED
  BY <1>1, <1>2, <1>3, <1>4, <1>5, <1>6, <1>7 DEF Body

\* What the steps that open the scopes leave alone, and how they set the
\* finalizers of the copy.
KeptByOpen ==
    /\ UNCHANGED <<wc, mc, wcCache, mcCache, req, wcOrig, parts>>
    /\ pc = "getMC"
    /\ pc' \in {"api", "ingress", "closeMC"}
    /\ pc' \in {"api", "ingress"} => ~wcCopy.deleting
    /\ mcOrig' = ReadMC
    /\ wcCopy'.deleting = wcCopy.deleting
    /\ wcCopy'.privateLinks = wcCopy.privateLinks
    /\ wcCopy'.allowed = wcCopy.allowed
    /\ wcCopy'.finalizers = IF wcCopy.deleting
                            THEN wcCopy.finalizers \ {"operator"}
                            ELSE wcCopy.finalizers \cup {"operator"}

\* Setting and removing the finalizer in memory changes nothing else.
LEMMA OpenStep ==
    ASSUME TypeOK, Open
    PROVE  KeptByOpen
<1>1. \A c \in AzureCluster :
        /\ setFinalizer(c).finalizers = c.finalizers \cup {"operator"}
        /\ removeFinalizer(c).finalizers = c.finalizers \ {"operator"}
        /\ setFinalizer(c).deleting = c.deleting
        /\ removeFinalizer(c).deleting = c.deleting
        /\ setFinalizer(c).privateLinks = c.privateLinks
        /\ removeFinalizer(c).privateLinks = c.privateLinks
        /\ setFinalizer(c).allowed = c.allowed
        /\ removeFinalizer(c).allowed = c.allowed
  BY DEF setFinalizer, removeFinalizer, AzureCluster
<1>2. OpenScopes
  BY DEF Open, ReconcilePublic, NoAllowedLinks, PrivateLinksNotReady,
     ReconcileMcToWcApi, ReconcileDelete, OpenNormal
<1>3. /\ UNCHANGED <<wc, mc, wcCache, mcCache, req, wcOrig, parts>>
      /\ pc = "getMC" /\ mcOrig' = ReadMC /\ wcCopy \in AzureCluster
  BY <1>2 DEF OpenScopes, api, cache, TypeOK
<1>4. CASE OpenNormal
  BY <1>1, <1>3, <1>4 DEF Open, OpenNormal, ReconcilePublic, NoAllowedLinks,
     PrivateLinksNotReady, ReconcileMcToWcApi, ReconcileDelete, ContinueWithIngress,
     CloseWith, CloseWithError, KeptByOpen
<1>5. CASE ReconcileDelete
  BY <1>1, <1>3, <1>5 DEF ReconcileDelete, CloseWith, KeptByOpen
<1> QED
  BY <1>4, <1>5 DEF Open, ReconcilePublic, NoAllowedLinks, PrivateLinksNotReady,
     ReconcileMcToWcApi

\* The copy's finalizers are those that were read, with the operator's own
\* removed if the cluster is being deleted, and added otherwise.
LEMMA CopyStep ==
    ASSUME TypeOK, CopyInv, [Next]_vars
    PROVE  CopyInv'
<1>1. ASSUME NEW w \in WorkloadClusters, GetWorkloadCluster(w) PROVE CopyInv'
  BY <1>1 DEF GetWorkloadCluster, CopyInv
<1>2. CASE Open
  BY <1>2, OpenStep DEF KeptByOpen, CopyInv
<1>3. CASE Body
  BY <1>3, BodyStep DEF KeptByBody, CopyInv
<1>4. CASE WriteMC
  BY <1>4 DEF WriteMC, PatchMC, PatchMCFails, copies, CopyInv
<1>5. CASE Leave
  BY <1>5 DEF Leave, ReadFails, Return, Crash, ClearLocals, CopyInv
<1>6. ASSUME NEW part \in PatchParts, WriteWC(part) PROVE CopyInv'
  BY <1>6 DEF WriteWC, PatchWC, PatchWCFails, copies, CopyInv
<1>7. CASE Sync \/ (\E e \in Endpoint : CapzEndpoint(e)) \/ UNCHANGED vars
  BY <1>7 DEF Sync, CapzEndpoint, CapzCreateEndpoint, CapzDeleteEndpoint, vars,
     locals, copies, CopyInv
<1>8. ASSUME NEW w \in WorkloadClusters, WrittenByOthers(w) PROVE CopyInv'
  BY <1>8, OthersStep DEF KeptByOthers, CopyInv
<1> QED
  BY <1>1, <1>2, <1>3, <1>4, <1>5, <1>6, <1>7, <1>8, Groups
-----------------------------------------------------------------------------
(* The finalizer is released only from a cluster that is being deleted.    *)

\* What one request of the WC's patch does to the operator's finalizer: it
\* goes, or comes, only if the copy differs from what was read in just that.
LEMMA AfterPatchFinalizer ==
    ASSUME NEW before \in AzureCluster, NEW after \in AzureCluster,
           NEW current \in AzureCluster, NEW part \in PatchParts,
           NEW stored, stored = AfterPatch(part, before, after, current)
    PROVE  /\ /\ "operator" \in current.finalizers
              /\ stored = Absent \/ "operator" \notin stored.finalizers
              => /\ part = "object"
                 /\ after.finalizers # before.finalizers
                 /\ "operator" \notin after.finalizers
           /\ /\ "operator" \notin current.finalizers
              /\ stored # Absent
              /\ "operator" \in stored.finalizers
              => /\ part = "object"
                 /\ after.finalizers # before.finalizers
                 /\ "operator" \in after.finalizers
           /\ stored # Absent => stored.deleting = current.deleting
<1>1. current # Absent
  BY AbsentAssumption
<1>2. CASE part = "status"
  <2>1. stored = PatchedStatus(before, after, current)
    BY <1>1, <1>2 DEF AfterPatch
  <2>2. stored \in AzureCluster /\ stored.finalizers = current.finalizers
        /\ stored.deleting = current.deleting
    BY <2>1, PatchedType DEF PatchedStatus, AzureCluster
  <2> QED
    BY <2>2, AbsentAssumption
<1>3. CASE part = "object"
  <2> DEFINE p == PatchedObject(before, after, current)
  <2>1. /\ p \in AzureCluster
        /\ p.deleting = current.deleting
        /\ p.finalizers = Merged(before.finalizers, after.finalizers, current.finalizers)
    BY PatchedType DEF PatchedObject, AzureCluster
  <2> HIDE DEF p
  <2>2. stored = IF Accepted(current, p) THEN Stored(p) ELSE current
    BY <1>1, <1>3 DEF AfterPatch, p
  <2>3. stored = current \/ stored = p \/ (stored = Absent /\ p.finalizers = {})
    BY <2>2 DEF Stored
  <2> QED
    BY <1>1, <1>3, <2>1, <2>3, AbsentAssumption DEF Merged
<1> QED
  BY <1>2, <1>3 DEF PatchParts

\* What a request of the WC's deferred call leaves alone, and when it gives
\* or takes the operator's finalizer.
KeptByWriteWC(part) ==
    /\ UNCHANGED <<mc, wcCache, mcCache, pc, req, wcOrig, wcCopy, mcOrig, mcCopy>>
    /\ pc = "closeWC" /\ part \in parts /\ parts' = parts \ {part}
    /\ \A v \in WorkloadClusters \ {req} : wc'[v] = wc[v]
    /\ Held(req) /\ ~Held(req)' => Leaving(wcOrig)
    /\ ~Held(req) /\ Held(req)' => HoldPending
    /\ Held(req) /\ Held(req)' => wc'[req].deleting = wc[req].deleting
    /\ part = "status" => (Held(req) <=> Held(req)')

\* The finalizer is taken from the stored object only by the deletion path,
\* and given only to one that was read without it.
LEMMA WriteWCStep ==
    ASSUME TypeOK, CopyInv, NEW part \in PatchParts, WriteWC(part)
    PROVE  KeptByWriteWC(part)
<1>1. /\ UNCHANGED <<mc, wcCache, mcCache, pc, req, wcOrig, wcCopy, mcOrig, mcCopy>>
      /\ pc = "closeWC" /\ part \in parts /\ parts' = parts \ {part}
  BY DEF WriteWC, PatchWC, PatchWCFails, NextPart, cache, copies
<1>2. /\ req \in WorkloadClusters /\ wcOrig \in AzureCluster /\ wcCopy \in AzureCluster
      /\ wc \in [WorkloadClusters -> AzureCluster \cup {Absent}]
  BY <1>1 DEF TypeOK
<1>3. wcCopy.finalizers = IF wcOrig.deleting
                          THEN wcOrig.finalizers \ {"operator"}
                          ELSE wcOrig.finalizers \cup {"operator"}
  BY <1>1 DEF CopyInv
<1>4. CASE wc' = wc
  BY <1>1, <1>4 DEF KeptByWriteWC, Held
<1>5. CASE wc' = [wc EXCEPT ![req] = AfterPatch(part, wcOrig, wcCopy, wc[req])]
  <2>1. wc'[req] = AfterPatch(part, wcOrig, wcCopy, wc[req])
        /\ \A v \in WorkloadClusters \ {req} : wc'[v] = wc[v]
    BY <1>2, <1>5
  <2>2. CASE wc[req] = Absent
    BY <1>1, <2>1, <2>2 DEF AfterPatch, KeptByWriteWC, Held
  <2>3. CASE wc[req] \in AzureCluster
    <3>1. wc[req] # Absent
      BY <2>3, AbsentAssumption
    <3>2. ASSUME Held(req), ~Held(req)' PROVE part = "object" /\ Leaving(wcOrig)
      <4>1. /\ part = "object"
            /\ wcCopy.finalizers # wcOrig.finalizers
            /\ "operator" \notin wcCopy.finalizers
        BY <1>1, <1>2, <2>1, <2>3, <3>2, AfterPatchFinalizer DEF Held
      <4>2. wcOrig.deleting /\ "operator" \in wcOrig.finalizers
        BY <1>3, <4>1
      <4> QED
        BY <1>2, <4>1, <4>2, AbsentAssumption DEF Leaving
    <3>3. ASSUME ~Held(req), Held(req)' PROVE part = "object" /\ HoldPending
      <4>1. /\ part = "object"
            /\ wcCopy.finalizers # wcOrig.finalizers
            /\ "operator" \in wcCopy.finalizers
        BY <1>1, <1>2, <2>1, <2>3, <3>1, <3>3, AfterPatchFinalizer DEF Held
      <4>2. ~wcOrig.deleting /\ "operator" \notin wcOrig.finalizers
        BY <1>3, <4>1
      <4> QED
        BY <1>1, <4>1, <4>2 DEF HoldPending
    <3>4. Held(req) /\ Held(req)' => wc'[req].deleting = wc[req].deleting
      BY <1>1, <1>2, <2>1, <2>3, AfterPatchFinalizer DEF Held
    <3> QED
      BY <1>1, <2>1, <3>2, <3>3, <3>4 DEF KeptByWriteWC
  <2> QED
    BY <1>2, <2>2, <2>3
<1> QED
  BY <1>4, <1>5 DEF WriteWC, PatchWC, PatchWCFails
\* Every step keeps ReleaseInv.
LEMMA ReleaseStep ==
    ASSUME TypeOK, ReleaseInv, [Next]_vars
    PROVE  ReleaseInv'
<1> USE DEF ReleaseInv
<1>0. CopyInv'
  BY CopyStep
<1>1. ASSUME NEW w \in WorkloadClusters, GetWorkloadCluster(w) PROVE ReleaseInv'
  <2>1. /\ UNCHANGED <<wc, wcCache>> /\ req' = w /\ wcOrig' = ReadWC(w)
        /\ ReadWC(w) # Absent
    BY <1>1 DEF GetWorkloadCluster, api, cache
  <2> QED
    BY <1>0, <2>1 DEF ReadWC, Leaving, Held, HoldPending
<1>2. CASE Open
  BY <1>0, <1>2, OpenStep DEF KeptByOpen, Held, HoldPending
<1>3. CASE Body
  BY <1>0, <1>3, BodyStep DEF KeptByBody, Held, HoldPending
<1>4. CASE WriteMC
  <2>1. /\ UNCHANGED <<wc, wcCache, req, wcOrig>>
        /\ pc = "closeMC" /\ pc' = "closeWC"
    BY <1>4 DEF WriteMC, PatchMC, PatchMCFails, cache, copies
  <2> QED
    BY <1>0, <2>1 DEF Held, HoldPending
<1>5. CASE Leave
  <2>1. wc' = wc /\ pc' = "idle" /\ wcCache' \in {wcCache, wc}
    BY <1>5 DEF Leave, ReadFails, Return, Crash, ClearLocals, api, cache
  <2> QED
    BY <1>0, <2>1 DEF Held, HoldPending, Leaving
<1>6. ASSUME NEW part \in PatchParts, WriteWC(part) PROVE ReleaseInv'
  <2>1. KeptByWriteWC(part) /\ req \in WorkloadClusters
    BY <1>6, WriteWCStep DEF KeptByWriteWC, TypeOK
  <2>2. ASSUME NEW w \in WorkloadClusters, Leaving(wcCache[w]), Held(w)'
        PROVE  wc'[w].deleting
    <3>1. CASE w # req
      BY <2>1, <2>2, <3>1 DEF KeptByWriteWC, Held
    <3>2. CASE w = req
      <4>1. Held(req)
        BY <2>1, <2>2, <3>2 DEF KeptByWriteWC, Held, Leaving
      <4> QED
        BY <2>1, <2>2, <3>2, <4>1 DEF KeptByWriteWC, Held
    <3> QED
      BY <3>1, <3>2
  <2>3. ASSUME Leaving(wcOrig), Held(req)' PROVE wc'[req].deleting
    <3>1. Held(req)
      BY <2>1, <2>3 DEF KeptByWriteWC, HoldPending, Leaving
    <3> QED
      BY <2>1, <2>3, <3>1 DEF KeptByWriteWC, Held
  <2>4. ASSUME HoldPending', Leaving(wcCache[req]) PROVE Leaving(wc[req])'
    <3>1. part = "status" /\ HoldPending
      BY <2>1, <2>4 DEF KeptByWriteWC, HoldPending, PatchParts
    <3>2. Leaving(wc[req])
      BY <2>4, <3>1
    <3> QED
      BY <2>1, <3>1, <3>2 DEF KeptByWriteWC, Leaving, Held
  <2> QED
    BY <1>0, <2>1, <2>2, <2>3, <2>4 DEF KeptByWriteWC
<1>7. CASE Sync
  BY <1>0, <1>7 DEF Sync, api, locals, copies, Held, HoldPending, Leaving
<1>8. ASSUME NEW w \in WorkloadClusters, WrittenByOthers(w) PROVE ReleaseInv'
  <2>1. KeptByOthers(w)
    BY <1>8, OthersStep
  <2>2. \A v \in WorkloadClusters :
            /\ Held(v) <=> Held(v)'
            /\ Held(v) /\ wc[v].deleting => wc'[v].deleting
    BY <2>1 DEF KeptByOthers, Held
  <2>3. pc # "idle" => req \in WorkloadClusters
    BY DEF TypeOK
  <2> QED
    BY <1>0, <2>1, <2>2, <2>3 DEF KeptByOthers, Held, HoldPending, Leaving
<1>9. CASE (\E e \in Endpoint : CapzEndpoint(e)) \/ UNCHANGED vars
  BY <1>0, <1>9 DEF CapzEndpoint, CapzCreateEndpoint, CapzDeleteEndpoint, vars,
     api, cache, locals, copies, Held, HoldPending
<1> QED
  BY <1>1, <1>2, <1>3, <1>4, <1>5, <1>6, <1>7, <1>8, <1>9, Groups

\* Only the WC's deferred call and others write workload clusters.
LEMMA WCWritten ==
    ASSUME TypeOK, [Next]_vars,
           ~(\E part \in PatchParts : WriteWC(part)),
           ~(\E w \in WorkloadClusters : WrittenByOthers(w))
    PROVE  wc' = wc
<1>1. CASE (\E w \in WorkloadClusters : GetWorkloadCluster(w)) \/ WriteMC \/ Leave \/ Sync
           \/ (\E e \in Endpoint : CapzEndpoint(e)) \/ UNCHANGED vars
  BY <1>1 DEF GetWorkloadCluster, WriteMC, PatchMC, PatchMCFails, Leave, ReadFails, Return, Crash, Sync, CapzEndpoint, CapzCreateEndpoint, CapzDeleteEndpoint, api, vars
<1>2. CASE Open \/ Body
  BY <1>2, OpenStep, BodyStep DEF KeptByOpen, KeptByBody
<1> QED
  BY <1>1, <1>2, Groups

\* Under ReleaseInv a step takes the finalizer only from a cluster in deletion.
LEMMA ReleaseAction ==
    ASSUME TypeOK, ReleaseInv, [Next]_vars,
           NEW w \in WorkloadClusters, Held(w), ~Held(w)'
    PROVE  wc[w].deleting
<1>1. ASSUME NEW part \in PatchParts, WriteWC(part) PROVE wc[w].deleting
  BY <1>1, WriteWCStep DEF ReleaseInv, KeptByWriteWC, Held
<1>2. ASSUME NEW v \in WorkloadClusters, WrittenByOthers(v) PROVE FALSE
  BY <1>2, OthersStep DEF KeptByOthers, Held
<1>3. ASSUME ~(\E part \in PatchParts : WriteWC(part)),
             ~(\E v \in WorkloadClusters : WrittenByOthers(v))
      PROVE  wc' = wc
  BY <1>3, WCWritten
<1> QED
  BY <1>1, <1>2, <1>3 DEF Held

\* ReleaseInv holds in every reachable state: no stale object in deletion, in
\* the cache or in hand, belongs to a living cluster that is held by now.
THEOREM ReleaseInvariant == Spec => []ReleaseInv
<1>1. Init => ReleaseInv
  BY DEF Init, Start, ReleaseInv, CopyInv, HoldPending, Leaving, Held
<1>2. TypeOK /\ ReleaseInv /\ [Next]_vars => ReleaseInv'
  BY ReleaseStep
<1> QED
  BY <1>1, <1>2, TypeCorrect, PTL DEF Spec

\* Whatever is stale, fails or crashes, and however clusters are created anew
\* under an old name, removeFinalizer never releases a cluster that lives.
THEOREM ReleaseSafe == Spec => ReleasedOnlyWhenDeleting
<1>1. TypeOK /\ ReleaseInv /\ [Next]_vars
      => [\A w \in WorkloadClusters : Held(w) /\ ~Held(w)' => wc[w].deleting]_vars
  BY ReleaseAction
<1> QED
  BY <1>1, TypeCorrect, ReleaseInvariant, PTL DEF Spec, ReleasedOnlyWhenDeleting

-----------------------------------------------------------------------------
(* A reconciliation leaves the endpoints of other clusters alone.          *)

\* What the steps do to the list of endpoints that is going to be written.
OpenedEndpoints ==
    \/ mcCopy' = ReadMC
    \/ mcCopy' = DeleteMcToWcApi(req, wcCopy, ReadMC)

ChangedEndpoints ==
    \/ mcCopy' = mcCopy
    \/ \E l \in Links : pc = "api"
                        /\ mcCopy' = AddPrivateEndpointSpec(mcCopy, EndpointFor(req, l))
    \/ mcCopy' = RemoveUnusedEndpoints(req, wcCopy, mcCopy)

\* The two paths start from the list that was read.
LEMMA OpenEndpoints == ASSUME Open PROVE OpenedEndpoints
BY DEF Open, ReconcilePublic, NoAllowedLinks, PrivateLinksNotReady,
   ReconcileMcToWcApi, ReconcileDelete, OpenNormal, OpenedEndpoints

\* The body adds an endpoint of the cluster at hand, or removes unused ones.
LEMMA BodyEndpoints == ASSUME Body PROVE ChangedEndpoints
BY DEF Body, EndpointFound, EndpointPending, EndpointLookupFails, VisitLink, LinksVisited,
   GatewayFound, GatewayPending, GatewayLookupFails, VisitGateway, ChangedEndpoints

\* What the body's operations on the list do to the endpoints of another
\* cluster: nothing, but for the clean-up if its resource group continues the
\* name.
LEMMA ForeignEndpoints ==
    ASSUME NEW w \in WorkloadClusters, NEW v \in WorkloadClusters \ {w},
           NEW eps \in SUBSET Endpoint, NEW c
    PROVE  /\ EndpointsOf(v, RemoveUnusedEndpoints(w, c, eps))
                    = IF <<w, v>> \in RGPrefix THEN {} ELSE EndpointsOf(v, eps)
           /\ \A l \in Links :
                EndpointsOf(v, AddPrivateEndpointSpec(eps, EndpointFor(w, l)))
                    = EndpointsOf(v, eps)
<1>1. \A e \in eps : e.wc = v => (e \in GetPrivateEndpointsToWorkloadCluster(w, eps)
                                        <=> <<w, v>> \in RGPrefix)
  BY DEF GetPrivateEndpointsToWorkloadCluster
<1>2. \A e : e.wc = v => ~LookupPrivateLink(w, c, e)
  BY DEF LookupPrivateLink
<1>3. EndpointsOf(v, RemoveUnusedEndpoints(w, c, eps))
        = IF <<w, v>> \in RGPrefix THEN {} ELSE EndpointsOf(v, eps)
  BY <1>1, <1>2 DEF EndpointsOf, RemoveUnusedEndpoints
<1>4. \A k : EndpointFor(w, k).wc = w
  BY DEF EndpointFor
<1> QED
  BY <1>3, <1>4 DEF EndpointsOf, AddPrivateEndpointSpec

\* Every step keeps ForeignInv.
LEMMA ForeignStep ==
    ASSUME TypeOK, CopyInv, ForeignInv, [Next]_vars
    PROVE  ForeignInv'
<1> USE DEF ForeignInv
<1>1. ASSUME NEW w \in WorkloadClusters, GetWorkloadCluster(w) PROVE ForeignInv'
  BY <1>1 DEF GetWorkloadCluster
<1>2. CASE Open
  <2>1. KeptByOpen /\ OpenedEndpoints
    BY <1>2, OpenStep, OpenEndpoints
  <2>2. \A w \in WorkloadClusters \ {req} :
            EndpointsOf(w, DeleteMcToWcApi(req, wcCopy, mcCache)) = EndpointsOf(w, mcCache)
    BY DEF EndpointsOf, DeleteMcToWcApi, EndpointFor
  <2> QED
    BY <2>1, <2>2 DEF KeptByOpen, OpenedEndpoints, ReadMC
<1>3. CASE Body
  <2>1. KeptByBody /\ ChangedEndpoints
    BY <1>3, BodyStep, BodyEndpoints
  <2>2. req \in WorkloadClusters /\ mcCopy \in SUBSET Endpoint /\ ~wcOrig.deleting
    BY <2>1 DEF TypeOK, KeptByBody, CopyInv
  <2>3. \A w \in WorkloadClusters \ {req} :
            \/ EndpointsOf(w, mcCopy') = EndpointsOf(w, mcCopy)
            \/ <<req, w>> \in RGPrefix /\ EndpointsOf(w, mcCopy') = {}
    <3>1. \A w \in WorkloadClusters \ {req} :
            /\ EndpointsOf(w, RemoveUnusedEndpoints(req, wcCopy, mcCopy))
                    = IF <<req, w>> \in RGPrefix THEN {} ELSE EndpointsOf(w, mcCopy)
            /\ \A l \in Links :
                    EndpointsOf(w, AddPrivateEndpointSpec(mcCopy, EndpointFor(req, l)))
                        = EndpointsOf(w, mcCopy)
      BY <2>2, ForeignEndpoints
    <3> QED
      BY <2>1, <3>1 DEF ChangedEndpoints
  <2> QED
    BY <2>1, <2>2, <2>3 DEF KeptByBody
<1>4. CASE WriteMC
  BY <1>4 DEF WriteMC, PatchMC, PatchMCFails
<1>5. CASE Leave
  BY <1>5 DEF Leave, ReadFails, Return, Crash, ClearLocals
<1>6. ASSUME NEW part \in PatchParts, WriteWC(part) PROVE ForeignInv'
  BY <1>6 DEF WriteWC, PatchWC, PatchWCFails
<1>7. CASE Sync \/ (\E e \in Endpoint : CapzEndpoint(e)) \/ UNCHANGED vars
  BY <1>7 DEF Sync, CapzEndpoint, CapzCreateEndpoint, CapzDeleteEndpoint, vars,
     locals, copies
<1>8. ASSUME NEW w \in WorkloadClusters, WrittenByOthers(w) PROVE ForeignInv'
  BY <1>8, OthersStep DEF KeptByOthers
<1> QED
  BY <1>1, <1>2, <1>3, <1>4, <1>5, <1>6, <1>7, <1>8, Groups

\* Only the deferred call for the MC changes its endpoints.
LEMMA EndpointsWritten ==
    ASSUME TypeOK, CopyInv, [Next]_vars, ~WriteMC
    PROVE  mc' = mc
<1>1. ASSUME NEW part \in PatchParts, WriteWC(part) PROVE mc' = mc
  BY <1>1, WriteWCStep DEF KeptByWriteWC
<1>2. ASSUME NEW w \in WorkloadClusters, WrittenByOthers(w) PROVE mc' = mc
  BY <1>2, OthersStep DEF KeptByOthers
<1>3. CASE (\E w \in WorkloadClusters : GetWorkloadCluster(w)) \/ Leave \/ Sync
           \/ (\E e \in Endpoint : CapzEndpoint(e)) \/ UNCHANGED vars
  BY <1>3 DEF GetWorkloadCluster, Leave, ReadFails, Return, Crash, Sync, CapzEndpoint,
     CapzCreateEndpoint, CapzDeleteEndpoint, api, vars
<1>4. CASE Open \/ Body
  BY <1>4, OpenStep, BodyStep DEF KeptByOpen, KeptByBody
<1> QED
  BY <1>1, <1>2, <1>3, <1>4, Groups

\* CopyInv holds in every reachable state.
LEMMA CopyInvariant == Spec => []CopyInv
<1>1. Init => CopyInv
  BY DEF Init, Start, CopyInv
<1>2. TypeOK /\ CopyInv /\ [Next]_vars => CopyInv'
  BY CopyStep
<1> QED
  BY <1>1, <1>2, TypeCorrect, PTL DEF Spec

\* ForeignInv holds in every reachable state: from the read of the MC to its
\* patch, the list in hand is the one that was read but for the endpoints to
\* the cluster, and to clusters whose resource group continues its name.
THEOREM ForeignInvariant == Spec => []ForeignInv
<1>1. Init => ForeignInv
  BY DEF Init, Start, ForeignInv
<1>2. TypeOK /\ CopyInv /\ ForeignInv /\ [Next]_vars => ForeignInv'
  BY ForeignStep
<1> QED
  BY <1>1, <1>2, TypeCorrect, CopyInvariant, PTL DEF Spec

\* However stale its reads are, and in spite of edits, concurrent deletions,
\* failures and crashes, what a reconciliation does to the endpoints of another
\* cluster is at most to bring back those it read, unless its own resource
\* group's name is the beginning of the other's.
THEOREM ForeignEndpointsSafe == Spec => OnlyOwnEndpoints
<1>1. TypeOK /\ ForeignInv /\ CopyInv /\ [Next]_vars
      => [\A w \in WorkloadClusters \ {req} :
                <<req, w>> \notin RGPrefix => LeftAlone(w)]_vars
  <2> SUFFICES ASSUME TypeOK, ForeignInv, CopyInv, [Next]_vars,
                      NEW w \in WorkloadClusters \ {req}, <<req, w>> \notin RGPrefix
               PROVE  LeftAlone(w)
    OBVIOUS
  <2>1. CASE WriteMC
    <3>1. pc = "closeMC" /\ mc' \in {mc, mcCopy}
      BY <2>1 DEF WriteMC, PatchMC, PatchMCFails, Merged
    <3>2. EndpointsOf(w, mcCopy) = EndpointsOf(w, mcOrig)
      BY <3>1 DEF ForeignInv
    <3> QED
      BY <3>1, <3>2 DEF LeftAlone
  <2>2. CASE ~WriteMC
    BY <2>2, EndpointsWritten DEF LeftAlone
  <2> QED
    BY <2>1, <2>2
<1> QED
  BY <1>1, TypeCorrect, CopyInvariant, ForeignInvariant, PTL DEF Spec, OnlyOwnEndpoints

-----------------------------------------------------------------------------
(* The finalizer is released after the endpoints are gone, or with an error. *)

\* Every step keeps CleanInv.
LEMMA CleanStep ==
    ASSUME TypeOK, CleanInv, [Next]_vars
    PROVE  CleanInv'
<1>0. CopyInv'
  BY CopyStep DEF CleanInv
<1> USE DEF CleanInv
<1>1. ASSUME NEW w \in WorkloadClusters, GetWorkloadCluster(w) PROVE CleanInv'
  BY <1>0, <1>1 DEF GetWorkloadCluster, api, cache
<1>2. CASE Open
  <2>1. KeptByOpen /\ OpenedEndpoints
    BY <1>2, OpenStep, OpenEndpoints
  <2>2. req \in WorkloadClusters /\ mcCache \in SUBSET Endpoint /\ wcCopy = wcOrig
    BY <2>1 DEF TypeOK, KeptByOpen, CopyInv
  <2>3. mcOrig' = mcCache /\ mcCopy' \subseteq mcCache
    BY <2>1 DEF OpenedEndpoints, DeleteMcToWcApi, ReadMC, KeptByOpen
  <2>4. pc' = "api" => LBType[req] = "Internal"
    BY <1>2 DEF Open, ReconcilePublic, NoAllowedLinks, PrivateLinksNotReady,
       ReconcileMcToWcApi, ReconcileDelete, ContinueWithIngress, CloseWith, CloseWithError
  <2>5. ASSUME wcOrig.deleting PROVE mcCopy' \cap Removable(req)' = {}
    <3>1. mcCopy' = IF LBType[req] = "Internal"
                    THEN DeleteMcToWcApi(req, wcOrig, mcCache) ELSE mcCache
      BY <1>2, <2>2, <2>5 DEF Open, ReconcilePublic, NoAllowedLinks, ReadMC,
         PrivateLinksNotReady, ReconcileMcToWcApi, OpenNormal, ReconcileDelete
    <3>2. Removable(req)' = {e \in EndpointsOf(req, mcCache) :
                                e.link \in GetPrivateLinksWithAllowedSubscription(wcOrig)}
      BY <2>1, <2>3 DEF Removable, KeptByOpen
    <3>3. CASE LBType[req] # "Internal"
      BY <3>2, <3>3 DEF EndpointsOf
    <3>4. CASE LBType[req] = "Internal"
      <4>1. \A e \in Endpoint : e.wc = req => e = EndpointFor(req, e.link)
        BY DEF Endpoint, EndpointFor
      <4> QED
        BY <2>2, <3>1, <3>2, <3>4, <4>1 DEF EndpointsOf, DeleteMcToWcApi
    <3> QED
      BY <3>3, <3>4
  <2> QED
    BY <1>0, <2>1, <2>2, <2>3, <2>4, <2>5 DEF KeptByOpen
<1>3. CASE Body
  <2>1. KeptByBody /\ ChangedEndpoints
    BY <1>3, BodyStep, BodyEndpoints
  <2>2. \A e \in mcCopy' : LBType[e.wc] = "Internal"
    BY <2>1 DEF ChangedEndpoints, AddPrivateEndpointSpec, RemoveUnusedEndpoints, EndpointFor
  <2>3. pc' = "api" => pc = "api"
    BY <1>3 DEF Body, EndpointFound, EndpointPending, EndpointLookupFails, VisitLink,
       LinksVisited, ContinueWithIngress, GatewayFound, GatewayPending,
       GatewayLookupFails, CloseWith, CloseWithError
  <2>4. ~wcOrig.deleting
    BY <2>1 DEF KeptByBody, CopyInv
  <2> QED
    BY <1>0, <2>1, <2>2, <2>3, <2>4 DEF KeptByBody
<1>4. CASE WriteMC
  <2>1. /\ pc = "closeMC" /\ pc' = "closeWC"
        /\ UNCHANGED <<req, wcOrig, wcCopy, mcOrig, mcCopy, mcCache>>
        /\ mc' \in {mc, mcCopy}
    BY <1>4 DEF WriteMC, PatchMC, PatchMCFails, copies, cache, Merged
  <2>2. Removable(req)' = Removable(req) /\ Removable(req) \subseteq mcOrig
    BY <2>1 DEF Removable, EndpointsOf
  <2>3. ASSUME PatchMC, wcOrig.deleting PROVE mc' \cap Removable(req) = {}
    <3>1. CASE mcCopy = mcOrig
      BY <2>1, <2>2, <2>3, <3>1
    <3>2. CASE mcCopy # mcOrig
      BY <2>1, <2>3, <3>2 DEF PatchMC, Merged
    <3> QED
      BY <3>1, <3>2
  <2>4. PatchMCFails => faults' > 0 /\ outcome' = "error"
    BY DEF PatchMCFails, Fault, TypeOK
  <2> QED
    BY <1>0, <1>4, <2>1, <2>2, <2>3, <2>4 DEF WriteMC
<1>5. CASE Leave
  BY <1>0, <1>5 DEF Leave, ReadFails, Return, Crash, ClearLocals, api, cache
<1>6. ASSUME NEW part \in PatchParts, WriteWC(part) PROVE CleanInv'
  <2>1. KeptByWriteWC(part)
    BY <1>6, WriteWCStep
  <2>2. (faults > 0 /\ outcome = "error") => (faults' > 0 /\ outcome' = "error")
    BY <1>6 DEF WriteWC, PatchWC, PatchWCFails, Fault, bounds, TypeOK
  <2> QED
    BY <1>0, <2>1, <2>2 DEF KeptByWriteWC, Removable
<1>7. CASE Sync \/ (\E e \in Endpoint : CapzEndpoint(e)) \/ UNCHANGED vars
  BY <1>0, <1>7 DEF Sync, CapzEndpoint, CapzCreateEndpoint, CapzDeleteEndpoint, vars,
     api, cache, locals, copies, bounds, Removable
<1>8. ASSUME NEW w \in WorkloadClusters, WrittenByOthers(w) PROVE CleanInv'
  <2>1. faults' = faults
    BY <1>8 DEF WrittenByOthers, Create, Delete, EditPrivateLinks, CapzCluster,
       CapzAddFinalizer, CapzPrivateLinksReady, CapzDeleteCluster, CapzCreateGateway, bounds
  <2> QED
    BY <1>0, <1>8, <2>1, OthersStep DEF KeptByOthers, Removable
<1> QED
  BY <1>1, <1>2, <1>3, <1>4, <1>5, <1>6, <1>7, <1>8, Groups

\* Under CleanInv a step takes the finalizer only when no endpoint that was to
\* be removed is left, or when a failure is reported.
LEMMA CleanAction ==
    ASSUME TypeOK, CleanInv, [Next]_vars,
           NEW w \in WorkloadClusters, Held(w), ~Held(w)'
    PROVE  mc' \cap Removable(w) = {} \/ (faults' > 0 /\ outcome' = "error")
<1>1. ASSUME NEW part \in PatchParts, WriteWC(part)
      PROVE  mc' \cap Removable(w) = {} \/ (faults' > 0 /\ outcome' = "error")
  <2>1. KeptByWriteWC(part)
    BY <1>1, WriteWCStep DEF CleanInv
  <2>2. w = req /\ wcOrig.deleting
    BY <2>1 DEF KeptByWriteWC, Held, Leaving
  <2>3. (faults > 0 /\ outcome = "error") => (faults' > 0 /\ outcome' = "error")
    BY <1>1 DEF WriteWC, PatchWC, PatchWCFails, Fault, bounds, TypeOK
  <2> QED
    BY <2>1, <2>2, <2>3 DEF CleanInv, KeptByWriteWC
<1>2. ASSUME NEW v \in WorkloadClusters, WrittenByOthers(v) PROVE FALSE
  BY <1>2, OthersStep DEF KeptByOthers, Held
<1>3. ASSUME ~(\E part \in PatchParts : WriteWC(part)),
             ~(\E v \in WorkloadClusters : WrittenByOthers(v))
      PROVE  wc' = wc
  BY <1>3, WCWritten
<1> QED
  BY <1>1, <1>2, <1>3 DEF Held

\* CleanInv holds in every reachable state, whatever is stale, edited or fails.
THEOREM CleanInvariant == Spec => []CleanInv
<1>1. Init => CleanInv
  BY DEF Init, Start, CleanInv, CopyInv
<1>2. TypeOK /\ CleanInv /\ [Next]_vars => CleanInv'
  BY CleanStep
<1> QED
  BY <1>1, <1>2, TypeCorrect, PTL DEF Spec

\* No stale read, edit, failed request, lost answer or crash makes the operator
\* drop what it set out to remove: the reconciliation that releases a cluster
\* has removed every endpoint it read for a usable link, or returns an error.
THEOREM CleanReported == Spec => CleanOrReported
<1>1. TypeOK /\ CleanInv /\ [Next]_vars
      => [\A w \in WorkloadClusters :
            Held(w) /\ ~Held(w)' =>
                mc' \cap Removable(w) = {} \/ (faults' > 0 /\ outcome' = "error")]_vars
  BY CleanAction
<1> QED
  BY <1>1, TypeCorrect, CleanInvariant, PTL DEF Spec, CleanOrReported
=============================================================================
