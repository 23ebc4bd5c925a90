----------------------- MODULE ReadyCondition_proofs -----------------------
(***************************************************************************)
(* The condition GSPrivateLinksReady is on a cluster only together with    *)
(* what it announces, for any number of clusters and links, and however    *)
(* stale the cache is.                                                     *)
(***************************************************************************)
EXTENDS AzureClusterReconciler_proofs

-----------------------------------------------------------------------------
(* What the steps do to the published fields.                              *)

\* Keeps is transitive.
LEMMA KeepsTrans ==
    ASSUME NEW a, NEW b, NEW c, Keeps(a, b), Keeps(b, c)
    PROVE  Keeps(a, c)
BY DEF Keeps

\* The two objects agree on what is published.
SameFields(c, d) ==
    /\ d.gateway = c.gateway
    /\ d.apiServerIP = c.apiServerIP
    /\ d.mcIngressIP = c.mcIngressIP

\* A request of the patch helper that only adds to what is published does so
\* in the stored object, whatever that is by then.
LEMMA AfterPatchFields ==
    ASSUME NEW before \in AzureCluster, NEW after \in AzureCluster,
           NEW current \in AzureCluster, NEW part \in PatchParts,
           NEW stored, stored = AfterPatch(part, before, after, current),
           stored # Absent, Keeps(before, after)
    PROVE  /\ stored \in AzureCluster
           /\ Keeps(current, stored)
           /\ SameFields(before, after) => SameFields(current, stored)
           /\ part = "status" =>
                /\ SameFields(current, stored)
                /\ stored.finalizers = current.finalizers
           /\ (part = "object" \/ after.gsReady = before.gsReady) =>
                stored.gsReady = current.gsReady
           /\ (part = "object" /\ ~current.deleting) =>
                stored = PatchedObject(before, after, current)
<1>1. current # Absent
  BY AbsentAssumption
<1>2. CASE part = "status"
  <2>1. stored = PatchedStatus(before, after, current)
    BY <1>1, <1>2 DEF AfterPatch
  <2>2. /\ stored \in AzureCluster /\ SameFields(current, stored)
        /\ stored.finalizers = current.finalizers
        /\ after.gsReady = before.gsReady => stored.gsReady = current.gsReady
    BY <2>1, PatchedType DEF PatchedStatus, AzureCluster, SameFields, Merged
  <2> QED
    BY <1>2, <2>2 DEF SameFields, Keeps
<1>3. CASE part = "object"
  <2> DEFINE p == PatchedObject(before, after, current)
  <2>1. /\ p \in AzureCluster
        /\ p.deleting = current.deleting /\ p.gsReady = current.gsReady
        /\ p.gateway = Merged(before.gateway, after.gateway, current.gateway)
        /\ p.apiServerIP = Merged(before.apiServerIP, after.apiServerIP, current.apiServerIP)
        /\ p.mcIngressIP = Merged(before.mcIngressIP, after.mcIngressIP, current.mcIngressIP)
    BY PatchedType DEF PatchedObject, AzureCluster
  <2>2. before.gateway \in BOOLEAN /\ after.gateway \in BOOLEAN
    BY DEF AzureCluster
  <2> HIDE DEF p
  <2>3. stored = IF Accepted(current, p) THEN Stored(p) ELSE current
    BY <1>1, <1>3 DEF AfterPatch, p
  <2>4. stored = current \/ stored = p
    BY <2>3 DEF Stored
  <2>5. ~current.deleting => stored = p
    BY <2>1, <2>3 DEF Stored, Accepted
  <2>6. Keeps(current, p) /\ (SameFields(before, after) => SameFields(current, p))
    BY <2>1, <2>2 DEF Keeps, SameFields, Merged
  <2>7. Keeps(current, current) /\ SameFields(current, current)
    BY DEF Keeps, SameFields
  <2> QED
    BY <1>3, <2>1, <2>4, <2>5, <2>6, <2>7 DEF p
<1> QED
  BY <1>2, <1>3 DEF PatchParts

\* What a write by someone else does to the published fields and the condition
\* of w: nothing, or the cluster comes or goes.
OthersKeep(w) ==
    /\ (wc[w] = Absent /\ wc'[w] # Absent) => wc'[w] = NewAzureCluster
    /\ (wc[w] # Absent /\ wc'[w] # Absent) =>
            /\ SameFields(wc[w], wc'[w])
            /\ wc'[w].gsReady = wc[w].gsReady
            /\ wc[w].deleting => wc'[w].deleting

\* Users and CAPZ write none of what the operator publishes.
LEMMA OthersFields ==
    ASSUME TypeOK, NEW w \in WorkloadClusters, WrittenByOthers(w)
    PROVE  OthersKeep(w)
<1>1. wc \in [WorkloadClusters -> AzureCluster \cup {Absent}]
  BY DEF TypeOK
<1>2. ASSUME NEW c \in AzureCluster, wc[w] \in AzureCluster, SameFields(wc[w], c),
             c.gsReady = wc[w].gsReady, wc[w].deleting => c.deleting,
             wc'[w] = c \/ wc'[w] = Stored(c)
      PROVE  OthersKeep(w)
  BY <1>2, AbsentAssumption DEF OthersKeep, Stored
<1> USE DEF AzureCluster
<1>3. CASE Create(w)
  BY <1>1, <1>3 DEF Create, OthersKeep
<1>4. CASE Delete(w)
  <2>1. wc[w] \in AzureCluster /\ wc'[w] = Stored(Marked(wc[w]))
    BY <1>1, <1>4 DEF Delete
  <2>2. /\ Marked(wc[w]) \in AzureCluster /\ SameFields(wc[w], Marked(wc[w]))
        /\ Marked(wc[w]).gsReady = wc[w].gsReady /\ Marked(wc[w]).deleting
    BY <2>1 DEF Marked, SameFields
  <2> QED
    BY <1>2, <2>1, <2>2
<1>5. ASSUME NEW links \in SUBSET Links, NEW allowed \in SUBSET links,
             EditPrivateLinks(w, links, allowed)
      PROVE  OthersKeep(w)
  <2> DEFINE c == [wc[w] EXCEPT !.privateLinks = links, !.allowed = allowed]
  <2>1. wc[w] \in AzureCluster /\ wc'[w] = c
    BY <1>1, <1>5 DEF EditPrivateLinks
  <2>2. /\ c \in AzureCluster /\ SameFields(wc[w], c)
        /\ c.gsReady = wc[w].gsReady /\ c.deleting = wc[w].deleting
    BY <2>1 DEF SameFields
  <2> QED
    BY <1>2, <2>1, <2>2
<1>6. CASE CapzAddFinalizer(w)
  <2> DEFINE c == [wc[w] EXCEPT !.finalizers = @ \cup {"capz"}]
  <2>1. wc[w] \in AzureCluster /\ wc'[w] = c
    BY <1>1, <1>6 DEF CapzAddFinalizer
  <2>2. /\ c \in AzureCluster /\ SameFields(wc[w], c)
        /\ c.gsReady = wc[w].gsReady /\ c.deleting = wc[w].deleting
    BY <2>1 DEF SameFields, Finalizers
  <2> QED
    BY <1>2, <2>1, <2>2
<1>7. CASE CapzPrivateLinksReady(w)
  <2> DEFINE c == [wc[w] EXCEPT !.linksReady = TRUE]
  <2>1. wc[w] \in AzureCluster /\ wc'[w] = c
    BY <1>1, <1>7 DEF CapzPrivateLinksReady
  <2>2. /\ c \in AzureCluster /\ SameFields(wc[w], c)
        /\ c.gsReady = wc[w].gsReady /\ c.deleting = wc[w].deleting
    BY <2>1 DEF SameFields
  <2> QED
    BY <1>2, <2>1, <2>2
<1>8. CASE CapzDeleteCluster(w)
  <2> DEFINE c == [wc[w] EXCEPT !.finalizers = @ \ {"capz"}]
  <2>1. wc[w] \in AzureCluster /\ wc'[w] = Stored(c)
    BY <1>1, <1>8 DEF CapzDeleteCluster
  <2>2. /\ c \in AzureCluster /\ SameFields(wc[w], c)
        /\ c.gsReady = wc[w].gsReady /\ c.deleting = wc[w].deleting
    BY <2>1 DEF SameFields, Finalizers
  <2> QED
    BY <1>2, <2>1, <2>2
<1>9. CASE CapzCreateGateway(w)
  BY <1>9 DEF CapzCreateGateway, api, OthersKeep, SameFields
<1> QED
  BY <1>3, <1>4, <1>5, <1>6, <1>7, <1>8, <1>9 DEF WrittenByOthers, CapzCluster

\* Opening the scopes publishes nothing yet.
LEMMA OpenFields ==
    ASSUME TypeOK, Open
    PROVE  SameFields(wcCopy, wcCopy') /\ wcCopy'.gsReady = wcCopy.gsReady
<1>1. wcCopy \in AzureCluster
  BY OpenStep DEF KeptByOpen, TypeOK
<1>2. /\ SameFields(wcCopy, setFinalizer(wcCopy))
      /\ SameFields(wcCopy, removeFinalizer(wcCopy))
      /\ setFinalizer(wcCopy).gsReady = wcCopy.gsReady
      /\ removeFinalizer(wcCopy).gsReady = wcCopy.gsReady
  BY <1>1 DEF setFinalizer, removeFinalizer, AzureCluster, SameFields
<1> QED
  BY <1>2 DEF Open, ReconcilePublic, NoAllowedLinks, PrivateLinksNotReady,
     ReconcileMcToWcApi, ReconcileDelete, OpenNormal

\* The body of Reconcile only adds to the copy.
LEMMA BodyFields ==
    ASSUME TypeOK, Body
    PROVE  Keeps(wcCopy, wcCopy')
<1>1. wcCopy \in AzureCluster
  BY BodyStep DEF KeptByBody, TypeOK
<1>2. ASSUME NEW l \in Links, EndpointFound(l) PROVE Keeps(wcCopy, wcCopy')
  BY <1>1, <1>2 DEF EndpointFound, AzureCluster, Keeps
<1>3. ASSUME NEW l \in Links, EndpointPending(l) \/ EndpointLookupFails(l)
      PROVE  Keeps(wcCopy, wcCopy')
  BY <1>3 DEF EndpointPending, EndpointLookupFails, Keeps
<1>4. CASE LinksVisited
  BY <1>4 DEF LinksVisited, Keeps
<1>5. CASE GatewayFound \/ GatewayPending \/ GatewayLookupFails
  BY <1>1, <1>5 DEF GatewayFound, GatewayPending, GatewayLookupFails, AzureCluster, Keeps
<1> QED
  BY <1>2, <1>3, <1>4, <1>5 DEF Body

-----------------------------------------------------------------------------
(* HistoryInv is inductive.                                                *)

\* The part of HistoryInv about the stored and the cached clusters.
WorldInv ==
    \A w \in WorkloadClusters :
        /\ Fresh(wc[w]) => Blank(wc[w])
        /\ Fresh(wcCache[w]) => Blank(wcCache[w])
        /\ Holding(wcCache[w]) => Held(w) /\ Keeps(wcCache[w], wc[w])

\* The part about the running reconciliation.
HandInv ==
    pc # "idle" =>
        /\ Fresh(wcOrig) => Blank(wcOrig)
        /\ Holding(wcOrig) => Held(req) /\ Keeps(wcOrig, wc[req])
        /\ Leaving(wcOrig) => ~Holding(wcCache[req])
        /\ Keeps(wcOrig, wcCopy)
        /\ wcOrig.deleting => SameFields(wcOrig, wcCopy)

\* HistoryInv has these parts.
LEMMA HistoryParts == HistoryInv <=> ReleaseInv /\ WorldInv /\ HandInv
BY DEF HistoryInv, WorldInv, HandInv, SameFields

\* They are stable under steps that change neither stored nor cached objects.
LEMMA WorldKept ==
    ASSUME WorldInv, UNCHANGED <<wc, wcCache>>
    PROVE  WorldInv'
BY DEF WorldInv, Held

\* A request of the WC's patch leaves the published fields on a living cluster
\* that is held, and gives them to one that was not held together with the
\* finalizer only.
LEMMA WriteWCHistory ==
    ASSUME TypeOK, HistoryInv, NEW part \in PatchParts, WriteWC(part)
    PROVE  WorldInv' /\ HandInv'
<1>0. ReleaseInv /\ WorldInv /\ HandInv /\ CopyInv
  BY HistoryParts DEF ReleaseInv
<1>1. PICK w \in WorkloadClusters : w = req
  BY <1>0, WriteWCStep DEF KeptByWriteWC, TypeOK
<1>2. KeptByWriteWC(part)
  BY <1>0, WriteWCStep
<1>3. /\ UNCHANGED <<wcCache, pc, req, wcOrig, wcCopy>> /\ pc = "closeWC"
      /\ \A v \in WorkloadClusters \ {w} : wc'[v] = wc[v]
      /\ Held(w) /\ ~Held(w)' => Leaving(wcOrig)
      /\ ~Held(w) /\ Held(w)' => HoldPending
      /\ wcOrig \in AzureCluster /\ wcCopy \in AzureCluster
      /\ wc \in [WorkloadClusters -> AzureCluster \cup {Absent}]
  BY <1>1, <1>2 DEF KeptByWriteWC, Held, TypeOK
<1>4. \/ wc'[w] = wc[w]
      \/ wc'[w] = AfterPatch(part, wcOrig, wcCopy, wc[w])
  BY <1>1, <1>3 DEF WriteWC, PatchWC, PatchWCFails
<1>5. Keeps(wcOrig, wcCopy) /\ (wcOrig.deleting => SameFields(wcOrig, wcCopy))
  BY <1>0, <1>3 DEF HandInv
<1>6. ASSUME wc[w] # Absent, wc'[w] # Absent
      PROVE  /\ Keeps(wc[w], wc'[w])
             /\ wcOrig.deleting => SameFields(wc[w], wc'[w])
             /\ wc'[w].deleting = wc[w].deleting
  <2>1. CASE wc'[w] = wc[w]
    BY <2>1 DEF Keeps, SameFields
  <2>2. CASE wc'[w] = AfterPatch(part, wcOrig, wcCopy, wc[w])
    <3>1. wc[w] \in AzureCluster
      BY <1>3, <1>6
    <3> QED
      BY <1>3, <1>5, <1>6, <2>2, <3>1, AfterPatchFields, AfterPatchFinalizer
  <2> QED
    BY <1>4, <2>1, <2>2
<1>7. wc[w] = Absent => wc'[w] = Absent
  BY <1>4 DEF AfterPatch
<1>8. ASSUME Held(w), Held(w)' PROVE Keeps(wc[w], wc'[w])
  BY <1>6, <1>8 DEF Held
<1>9. ASSUME Fresh(wc'[w]) PROVE Blank(wc'[w])
  <2>1. /\ wc[w] # Absent /\ wc'[w] # Absent /\ ~wc'[w].deleting /\ ~Held(w)'
        /\ ~wc[w].deleting
    BY <1>6, <1>7, <1>9 DEF Fresh, Held
  <2>2. ~Held(w)
    BY <1>0, <1>1, <1>3, <2>1 DEF ReleaseInv
  <2>3. Fresh(wc[w]) /\ Blank(wc[w])
    BY <1>0, <2>1, <2>2 DEF Fresh, Held, WorldInv
  <2>4. CASE wcOrig.deleting
    BY <1>6, <2>1, <2>3, <2>4 DEF SameFields, Blank
  <2>5. CASE ~wcOrig.deleting
    <3>1. Fresh(wcOrig)
      <4>1. ~Holding(wcOrig)
        BY <1>0, <1>1, <1>3, <2>2 DEF HandInv
      <4> QED
        BY <1>3, <2>5, <4>1, AbsentAssumption DEF Fresh, Holding
    <3>2. "operator" \in wcCopy.finalizers /\ "operator" \notin wcOrig.finalizers
      BY <1>0, <1>3, <2>5, <3>1 DEF CopyInv, Fresh
    <3>3. CASE wc'[w] = wc[w]
      BY <2>3, <3>3
    <3>4. CASE wc'[w] = AfterPatch(part, wcOrig, wcCopy, wc[w])
      <4>1. wc[w] \in AzureCluster
        BY <1>3, <2>1
      <4>2. CASE part = "status"
        BY <1>3, <1>5, <2>1, <2>3, <3>4, <4>1, <4>2, AfterPatchFields DEF SameFields, Blank
      <4>3. CASE part = "object"
        <5>1. wc'[w] = PatchedObject(wcOrig, wcCopy, wc[w])
          BY <1>3, <1>5, <2>1, <3>4, <4>1, <4>3, AfterPatchFields
        <5>2. wc'[w].finalizers = Merged(wcOrig.finalizers, wcCopy.finalizers,
                                         wc[w].finalizers)
          BY <4>1, <5>1 DEF PatchedObject, AzureCluster
        <5>3. "operator" \in wc'[w].finalizers
          BY <3>2, <5>2 DEF Merged
        <5> QED
          BY <1>9, <5>3 DEF Fresh
      <4> QED
        BY <4>2, <4>3 DEF PatchParts
    <3> QED
      BY <1>4, <3>3, <3>4
  <2> QED
    BY <2>4, <2>5
<1>10. ASSUME Holding(wcCache[w]) PROVE Held(w)' /\ Keeps(wcCache[w], wc'[w])
  <2>1. Held(w) /\ Keeps(wcCache[w], wc[w])
    BY <1>0, <1>10 DEF WorldInv
  <2>2. Held(w)'
    BY <1>0, <1>1, <1>3, <1>10, <2>1 DEF HandInv
  <2> QED
    BY <1>8, <2>1, <2>2, KeepsTrans
<1>11. ASSUME Holding(wcOrig) PROVE Held(w)' /\ Keeps(wcOrig, wc'[w])
  <2>1. Held(w) /\ Keeps(wcOrig, wc[w])
    BY <1>0, <1>1, <1>3, <1>11 DEF HandInv
  <2>2. Held(w)'
    BY <1>3, <1>11, <2>1 DEF Holding, Leaving
  <2> QED
    BY <1>8, <2>1, <2>2, KeepsTrans
<1>12. WorldInv'
  BY <1>0, <1>3, <1>9, <1>10 DEF WorldInv, Held
<1>13. HandInv'
  BY <1>0, <1>1, <1>3, <1>11 DEF HandInv
<1> QED
  BY <1>12, <1>13

\* Every step keeps HistoryInv.
LEMMA HistoryStep ==
    ASSUME TypeOK, HistoryInv, [Next]_vars
    PROVE  HistoryInv'
<1>0. ReleaseInv /\ WorldInv /\ HandInv /\ CopyInv
  BY HistoryParts DEF ReleaseInv
<1> SUFFICES WorldInv' /\ HandInv'
  <2>1. ReleaseInv'
    BY <1>0, ReleaseStep
  <2> QED
    BY <2>1, HistoryParts, PTL
<1>1. ASSUME NEW w \in WorkloadClusters, GetWorkloadCluster(w) PROVE WorldInv' /\ HandInv'
  <2>1. /\ UNCHANGED <<wc, wcCache>> /\ req' = w /\ wcOrig' = ReadWC(w)
        /\ wcCopy' = ReadWC(w)
    BY <1>1 DEF GetWorkloadCluster, api, cache
  <2>2. Keeps(ReadWC(w), ReadWC(w)) /\ SameFields(ReadWC(w), ReadWC(w))
    BY DEF Keeps, SameFields
  <2> QED
    BY <1>0, <2>1, <2>2, WorldKept DEF ReadWC, WorldInv, HandInv, Held, Holding, Leaving
<1>2. CASE Open
  <2>1. KeptByOpen /\ SameFields(wcCopy, wcCopy') /\ wcCopy = wcOrig
    BY <1>0, <1>2, OpenStep, OpenFields DEF KeptByOpen, CopyInv
  <2> QED
    BY <1>0, <2>1, WorldKept DEF KeptByOpen, HandInv, Held, SameFields, Keeps
<1>3. CASE Body
  <2>1. KeptByBody /\ Keeps(wcCopy, wcCopy') /\ ~wcOrig.deleting
    BY <1>0, <1>3, BodyStep, BodyFields DEF KeptByBody, CopyInv
  <2>2. Keeps(wcOrig, wcCopy')
    BY <1>0, <2>1, KeepsTrans DEF HandInv, KeptByBody
  <2> QED
    BY <1>0, <2>1, <2>2, WorldKept DEF KeptByBody, HandInv, Held
<1>4. CASE WriteMC
  <2>1. UNCHANGED <<wc, wcCache, req, wcOrig, wcCopy>> /\ pc = "closeMC"
    BY <1>4 DEF WriteMC, PatchMC, PatchMCFails, cache, copies
  <2> QED
    BY <1>0, <2>1, WorldKept DEF HandInv, Held
<1>5. CASE Leave
  <2>1. wc' = wc /\ pc' = "idle" /\ (wcCache' = wcCache \/ wcCache' = wc)
    BY <1>5 DEF Leave, ReadFails, Return, Crash,
       ClearLocals, api, cache
  <2> QED
    BY <1>0, <2>1 DEF WorldInv, HandInv, Held, Holding, Keeps
<1>6. ASSUME NEW part \in PatchParts, WriteWC(part) PROVE WorldInv' /\ HandInv'
  BY <1>6, WriteWCHistory
<1>7. CASE Sync
  <2>1. wc' = wc /\ wcCache' = wc /\ UNCHANGED <<pc, req, wcOrig, wcCopy>>
    BY <1>7 DEF Sync, api, locals, copies
  <2>2. WorldInv'
    BY <1>0, <2>1 DEF WorldInv, Held, Holding, Keeps
  <2>3. pc # "idle" /\ Leaving(wcOrig) => ~Holding(wc[req])
    BY <1>0 DEF ReleaseInv, Held, Holding
  <2> QED
    BY <1>0, <2>1, <2>2, <2>3 DEF HandInv, Held
<1>8. ASSUME NEW w \in WorkloadClusters, WrittenByOthers(w) PROVE WorldInv' /\ HandInv'
  <2>1. KeptByOthers(w) /\ OthersKeep(w)
    BY <1>8, OthersStep, OthersFields
  <2>2. /\ UNCHANGED <<wcCache, pc, req, wcOrig, wcCopy>>
        /\ \A v \in WorkloadClusters \ {w} : wc'[v] = wc[v]
        /\ Held(w) <=> Held(w)'
    BY <2>1 DEF KeptByOthers
  <2>3. Held(w) => Keeps(wc[w], wc'[w])
    BY <2>1, <2>2 DEF OthersKeep, SameFields, Keeps, Held
  <2>4. Fresh(wc'[w]) => Blank(wc'[w])
    <3>1. CASE wc[w] = Absent
      BY <2>1, <3>1 DEF OthersKeep, Fresh, Blank, NewAzureCluster
    <3>2. CASE wc[w] # Absent
      BY <1>0, <2>1, <2>2, <3>2 DEF OthersKeep, SameFields, Fresh, Blank, Held, WorldInv
    <3> QED
      BY <3>1, <3>2
  <2>5. \A c : Held(w) /\ Keeps(c, wc[w]) => Held(w)' /\ Keeps(c, wc'[w])
    BY <2>2, <2>3, KeepsTrans
  <2>6. WorldInv'
    BY <1>0, <2>2, <2>4, <2>5 DEF WorldInv, Held
  <2>7. pc # "idle" => req \in WorkloadClusters
    BY DEF TypeOK
  <2>8. HandInv'
    BY <1>0, <2>2, <2>5, <2>7 DEF HandInv, Held
  <2> QED
    BY <2>6, <2>8
<1>9. CASE (\E e \in Endpoint : CapzEndpoint(e)) \/ UNCHANGED vars
  <2>1. UNCHANGED <<wc, wcCache, pc, req, wcOrig, wcCopy>>
    BY <1>9 DEF CapzEndpoint, CapzCreateEndpoint, CapzDeleteEndpoint, vars,
       api, cache, locals, copies
  <2> QED
    BY <1>0, <2>1, WorldKept DEF HandInv, Held
<1> QED
  BY <1>1, <1>2, <1>3, <1>4, <1>5, <1>6, <1>7, <1>8, <1>9, Groups

\* HistoryInv holds in every reachable state.
THEOREM HistoryInvariant == Spec => []HistoryInv
<1>1. Init => HistoryInv
  BY DEF Init, Start, HistoryInv, ReleaseInv, CopyInv, HoldPending, Leaving, Held,
     Fresh, Holding
<1>2. TypeOK /\ HistoryInv /\ [Next]_vars => HistoryInv'
  BY HistoryStep
<1> QED
  BY <1>1, <1>2, TypeCorrect, PTL DEF Spec

-----------------------------------------------------------------------------
(* ReadyInv is inductive.                                                  *)

\* The part of ReadyInv about the copy in hand.
CopyReady ==
    /\ pc = "api" => todo # {} \/ wcCopy.apiServerIP # NoIP
    /\ (pc = "ingress" /\ LBType[req] = "Internal") => wcCopy.apiServerIP # NoIP
    /\ (pc # "idle" /\ wcCopy.gsReady # wcOrig.gsReady) =>
            /\ pc \in {"closeMC", "closeWC"} /\ wcCopy.gsReady
            /\ Complete(req, wcCopy) /\ ~wcOrig.deleting
    /\ (pc = "closeWC" /\ "status" \in parts) => parts = PatchParts

\* The stored cluster is complete, or the next request will complete it.
StoredReady(w) ==
    (wc[w] # Absent /\ ~wc[w].deleting /\ wc[w].gsReady) =>
        \/ Complete(w, wc[w])
        \/ /\ req = w /\ pc = "closeWC" /\ parts = {"object"}
           /\ Complete(w, wcCopy) /\ ~wcOrig.deleting

\* ReadyInv has these parts.
LEMMA ReadyParts ==
    ReadyInv <=> /\ HistoryInv
                 /\ CopyReady
                 /\ faults = 0 => \A w \in WorkloadClusters : StoredReady(w)
BY DEF ReadyInv, CopyReady, StoredReady

\* The body of Reconcile sets the condition with the last address it needs.
LEMMA BodyReady ==
    ASSUME TypeOK, CopyInv, CopyReady, Body
    PROVE  CopyReady'
<1>1. /\ UNCHANGED <<req, wcOrig, parts>> /\ pc \in {"api", "ingress"} /\ ~wcOrig.deleting
      /\ wcCopy \in AzureCluster /\ wcCopy.gsReady = wcOrig.gsReady
  BY BodyStep DEF KeptByBody, TypeOK, CopyInv, CopyReady
<1>2. ASSUME NEW l \in Links, EndpointFound(l) PROVE CopyReady'
  <2>1. pc' = "api" /\ wcCopy'.apiServerIP # NoIP /\ wcCopy'.gsReady = wcCopy.gsReady
    BY <1>1, <1>2 DEF EndpointFound, VisitLink, AzureCluster
  <2> QED
    BY <1>1, <2>1 DEF CopyReady
<1>3. ASSUME NEW l \in Links, EndpointPending(l) \/ EndpointLookupFails(l) PROVE CopyReady'
  <2>1. pc' = "closeMC" /\ wcCopy' = wcCopy
    BY <1>3 DEF EndpointPending, EndpointLookupFails, CloseWith, CloseWithError
  <2> QED
    BY <1>1, <2>1 DEF CopyReady
<1>4. CASE LinksVisited
  <2>1. pc' \in {"ingress", "closeMC"} /\ wcCopy' = wcCopy /\ wcCopy.apiServerIP # NoIP
    BY <1>4 DEF LinksVisited, ContinueWithIngress, CloseWith, CopyReady
  <2> QED
    BY <1>1, <2>1 DEF CopyReady
<1>5. CASE GatewayFound
  <2>1. /\ pc = "ingress" /\ pc' = "closeMC"
        /\ wcCopy'.gsReady /\ wcCopy'.gateway /\ wcCopy'.mcIngressIP # NoIP
        /\ wcCopy'.apiServerIP = wcCopy.apiServerIP
    BY <1>1, <1>5 DEF GatewayFound, VisitGateway, CloseWith, AzureCluster
  <2> QED
    BY <1>1, <2>1 DEF CopyReady, Complete
<1>6. CASE GatewayPending \/ GatewayLookupFails
  <2>1. pc' = "closeMC" /\ wcCopy'.gsReady = wcCopy.gsReady
    BY <1>1, <1>6 DEF GatewayPending, GatewayLookupFails, CloseWith, CloseWithError,
       AzureCluster
  <2> QED
    BY <1>1, <2>1 DEF CopyReady
<1> QED
  BY <1>2, <1>3, <1>4, <1>5, <1>6 DEF Body

\* The copy is complete when it has the condition.
LEMMA CopyReadyStep ==
    ASSUME TypeOK, CopyInv, CopyReady, [Next]_vars
    PROVE  CopyReady'
<1>1. ASSUME NEW w \in WorkloadClusters, GetWorkloadCluster(w) PROVE CopyReady'
  BY <1>1 DEF GetWorkloadCluster, CopyReady
<1>2. CASE Open
  <2>1. KeptByOpen /\ wcCopy'.gsReady = wcCopy.gsReady /\ wcCopy = wcOrig
    BY <1>2, OpenStep, OpenFields DEF KeptByOpen, CopyInv
  <2>2. pc' = "api" => todo' # {}
    BY <1>2 DEF Open, ReconcilePublic, NoAllowedLinks, PrivateLinksNotReady,
       ReconcileMcToWcApi, ReconcileDelete, ContinueWithIngress, CloseWith, CloseWithError
  <2>3. pc' = "ingress" => LBType[req] # "Internal"
    BY <1>2 DEF Open, ReconcilePublic, NoAllowedLinks, PrivateLinksNotReady,
       ReconcileMcToWcApi, ReconcileDelete, CloseWith, CloseWithError
  <2> QED
    BY <2>1, <2>2, <2>3 DEF KeptByOpen, CopyReady
<1>3. CASE Body
  BY <1>3, BodyReady
<1>4. CASE WriteMC
  <2>1. /\ UNCHANGED <<req, wcOrig, wcCopy>> /\ pc = "closeMC"
        /\ pc' = "closeWC" /\ parts' = PatchParts
    BY <1>4 DEF WriteMC, PatchMC, PatchMCFails, copies
  <2> QED
    BY <2>1 DEF CopyReady
<1>5. CASE Leave
  BY <1>5 DEF Leave, ReadFails, Return, Crash, ClearLocals,
     CopyReady
<1>6. ASSUME NEW part \in PatchParts, WriteWC(part) PROVE CopyReady'
  <2>1. /\ UNCHANGED <<pc, req, wcOrig, wcCopy>> /\ pc = "closeWC"
        /\ parts' = parts \ {part} /\ NextPart(part)
    BY <1>6 DEF WriteWC, PatchWC, PatchWCFails, copies
  <2> QED
    BY <2>1 DEF CopyReady, NextPart, PatchParts
<1>7. CASE Sync \/ (\E e \in Endpoint : CapzEndpoint(e)) \/ UNCHANGED vars
  BY <1>7 DEF Sync, CapzEndpoint, CapzCreateEndpoint, CapzDeleteEndpoint, vars,
     locals, copies, CopyReady
<1>8. ASSUME NEW w \in WorkloadClusters, WrittenByOthers(w) PROVE CopyReady'
  BY <1>8, OthersStep DEF KeptByOthers, CopyReady
<1> QED
  BY <1>1, <1>2, <1>3, <1>4, <1>5, <1>6, <1>7, <1>8, Groups

\* A request of the WC's patch that succeeds stores the condition before the
\* rest of a complete copy, or completes the stored cluster.
LEMMA PatchReady ==
    ASSUME TypeOK, HistoryInv, CopyReady, NEW part \in PatchParts, PatchWC(part),
           \A w \in WorkloadClusters : StoredReady(w)
    PROVE  \A w \in WorkloadClusters : StoredReady(w)'
<1>0. HandInv /\ WorldInv /\ CopyInv
  BY HistoryParts DEF ReleaseInv
<1>1. PICK w \in WorkloadClusters : w = req
  BY DEF PatchWC, TypeOK
<1>2. /\ UNCHANGED <<pc, req, wcOrig, wcCopy>> /\ pc = "closeWC"
      /\ parts' = parts \ {part} /\ NextPart(part)
      /\ wc' = [wc EXCEPT ![w] = AfterPatch(part, wcOrig, wcCopy, wc[w])]
  BY <1>1 DEF PatchWC, copies
<1>3. /\ wcOrig \in AzureCluster /\ wcCopy \in AzureCluster
      /\ wc \in [WorkloadClusters -> AzureCluster \cup {Absent}]
      /\ Keeps(wcOrig, wcCopy)
  BY <1>0, <1>2 DEF TypeOK, HandInv
<1>4. ASSUME NEW v \in WorkloadClusters \ {w} PROVE StoredReady(v)'
  BY <1>1, <1>2, <1>3 DEF StoredReady
<1>5. ASSUME wc'[w] # Absent, ~wc'[w].deleting, wc'[w].gsReady
      PROVE  \/ Complete(w, wc'[w])
             \/ parts' = {"object"} /\ Complete(w, wcCopy) /\ ~wcOrig.deleting
  <2>1. wc'[w] = AfterPatch(part, wcOrig, wcCopy, wc[w]) /\ wc[w] # Absent
    BY <1>2, <1>3, <1>5 DEF AfterPatch
  <2>2. wc[w] \in AzureCluster /\ ~wc[w].deleting /\ Keeps(wc[w], wc'[w])
    BY <1>3, <1>5, <2>1, AfterPatchFinalizer, AfterPatchFields
  <2>3. Complete(w, wc[w]) => Complete(w, wc'[w])
    BY <2>2 DEF Keeps, Complete
  <2>4. CASE part = "status"
    <3>1. parts = PatchParts /\ parts' = {"object"}
      BY <1>2, <2>4 DEF NextPart, CopyReady, PatchParts
    <3>2. CASE wcCopy.gsReady = wcOrig.gsReady
      <4>1. wc[w].gsReady
        BY <1>3, <1>5, <2>1, <2>2, <3>2, AfterPatchFields
      <4>2. parts # {"object"}
        BY <3>1 DEF PatchParts
      <4> QED
        BY <2>1, <2>2, <2>3, <4>1, <4>2 DEF StoredReady
    <3>3. CASE wcCopy.gsReady # wcOrig.gsReady
      BY <1>1, <1>2, <3>1, <3>3 DEF CopyReady
    <3> QED
      BY <3>2, <3>3
  <2>5. CASE part = "object"
    <3>1. wc[w].gsReady /\ wc'[w] = PatchedObject(wcOrig, wcCopy, wc[w])
      BY <1>3, <1>5, <2>1, <2>2, <2>5, AfterPatchFields
    <3>2. CASE Complete(w, wc[w])
      BY <2>3, <3>2
    <3>3. CASE ~Complete(w, wc[w])
      <4>1. Complete(w, wcCopy) /\ ~wcOrig.deleting
        BY <2>1, <2>2, <3>1, <3>3 DEF StoredReady
      <4>2. /\ wc'[w].gateway = Merged(wcOrig.gateway, wcCopy.gateway, wc[w].gateway)
            /\ wc'[w].apiServerIP
                    = Merged(wcOrig.apiServerIP, wcCopy.apiServerIP, wc[w].apiServerIP)
            /\ wc'[w].mcIngressIP
                    = Merged(wcOrig.mcIngressIP, wcCopy.mcIngressIP, wc[w].mcIngressIP)
        BY <2>2, <3>1 DEF PatchedObject, AzureCluster
      <4>3. Blank(wcOrig) \/ Keeps(wcOrig, wc[w])
        BY <1>0, <1>1, <1>2, <1>3, <4>1, AbsentAssumption DEF HandInv, Fresh, Holding
      <4> QED
        BY <4>1, <4>2, <4>3 DEF Complete, Blank, Keeps, Merged
    <3> QED
      BY <3>2, <3>3
  <2> QED
    BY <2>4, <2>5 DEF PatchParts
<1>6. StoredReady(w)'
  BY <1>1, <1>2, <1>5 DEF StoredReady
<1> QED
  BY <1>4, <1>6

\* Every step keeps ReadyInv.
LEMMA ReadyStep ==
    ASSUME TypeOK, ReadyInv, [Next]_vars
    PROVE  ReadyInv'
<1>0. HistoryInv /\ CopyReady /\ CopyInv
  BY ReadyParts DEF HistoryInv, ReleaseInv
<1>1. HistoryInv' /\ CopyReady'
  BY <1>0, HistoryStep, CopyReadyStep
<1> SUFFICES ASSUME faults' = 0
             PROVE  \A w \in WorkloadClusters : StoredReady(w)'
  BY <1>1 DEF ReadyInv, CopyReady, StoredReady
<1>2. faults = 0 /\ ~Fault
  <2>1. faults' # faults + 1
    BY DEF TypeOK
  <2>2. faults' = faults \/ Fault
    BY DEF Next, Operator, Continue, Failure, Users, Capz, CapzCluster, CapzEndpoint,
       GetWorkloadCluster, ReadFails, ReconcilePublic,
       NoAllowedLinks, PrivateLinksNotReady, ReconcileMcToWcApi, ReconcileDelete,
       OpenNormal, OpenScopes, EndpointFound, EndpointPending, EndpointLookupFails,
       LinksVisited, GatewayFound, GatewayPending, GatewayLookupFails, PatchMC,
       PatchMCFails, PatchWC, PatchWCFails, Return, Crash, Sync, Create, Delete,
       EditPrivateLinks, CapzAddFinalizer, CapzPrivateLinksReady, CapzDeleteCluster,
       CapzCreateGateway, CapzCreateEndpoint, CapzDeleteEndpoint, bounds, vars
  <2> QED
    BY <2>1, <2>2 DEF Fault
<1>3. \A w \in WorkloadClusters : StoredReady(w)
  BY <1>2, ReadyParts
<1>4. ASSUME NEW part \in PatchParts, WriteWC(part)
      PROVE  \A w \in WorkloadClusters : StoredReady(w)'
  BY <1>0, <1>2, <1>3, <1>4, PatchReady DEF WriteWC, PatchWCFails
<1>5. ASSUME NEW w \in WorkloadClusters, WrittenByOthers(w), NEW v \in WorkloadClusters
      PROVE  StoredReady(v)'
  <2>1. KeptByOthers(w) /\ OthersKeep(w)
    BY <1>5, OthersStep, OthersFields
  <2>2. /\ UNCHANGED <<pc, req, parts, wcOrig, wcCopy>>
        /\ \A u \in WorkloadClusters \ {w} : wc'[u] = wc[u]
    BY <2>1 DEF KeptByOthers
  <2>3. CASE v # w
    BY <1>3, <2>2, <2>3 DEF StoredReady
  <2>4. CASE v = w
    <3>1. ASSUME wc'[w] # Absent, wc'[w].gsReady PROVE wc[w] # Absent
      BY <2>1, <3>1 DEF OthersKeep, NewAzureCluster
    <3> QED
      BY <1>3, <2>1, <2>2, <2>4, <3>1 DEF OthersKeep, SameFields, Complete, StoredReady
  <2> QED
    BY <2>3, <2>4
<1>6. ASSUME ~(\E part \in PatchParts : WriteWC(part)),
             ~(\E w \in WorkloadClusters : WrittenByOthers(w))
      PROVE  \A w \in WorkloadClusters : StoredReady(w)'
  <2>1. wc' = wc
    BY <1>6, WCWritten
  <2>2. (pc = "closeWC" /\ parts = {"object"}) => UNCHANGED <<pc, req, parts, wcOrig, wcCopy>>
    <3>1. CASE (\E w \in WorkloadClusters : GetWorkloadCluster(w)) \/ Open \/ Body
               \/ WriteMC \/ Leave
      <4>1. ~Crash /\ ~ReadFails
        BY <1>2 DEF Crash, ReadFails
      <4>2. (Open => pc = "getMC") /\ (Body => pc \in {"api", "ingress"})
        BY OpenStep, BodyStep DEF KeptByOpen, KeptByBody
      <4> QED
        BY <3>1, <4>1, <4>2 DEF GetWorkloadCluster, WriteMC, PatchMC, PatchMCFails,
           Leave, Return
    <3>2. CASE Sync \/ (\E e \in Endpoint : CapzEndpoint(e)) \/ UNCHANGED vars
      BY <3>2 DEF Sync, CapzEndpoint, CapzCreateEndpoint, CapzDeleteEndpoint, vars,
         locals, copies
    <3> QED
      BY <1>6, <3>1, <3>2, Groups
  <2> QED
    BY <1>3, <2>1, <2>2 DEF StoredReady
<1> QED
  BY <1>4, <1>5, <1>6

\* ReadyInv holds in every reachable state.
THEOREM ReadyInvariant == Spec => []ReadyInv
<1>1. Init => ReadyInv
  BY DEF Init, Start, ReadyInv, HistoryInv, ReleaseInv, CopyInv, HoldPending, Leaving, Held,
     Fresh, Holding
<1>2. TypeOK /\ ReadyInv /\ [Next]_vars => ReadyInv'
  BY ReadyStep
<1> QED
  BY <1>1, <1>2, TypeCorrect, PTL DEF Spec

\* ReadyInv says what ReadyAfterPublished does, and why.
LEMMA ReadyMeans == ReadyInv => ReadyAfterPublished
<1> SUFFICES ASSUME ReadyInv, NEW w \in WorkloadClusters,
                    faults = 0, req # w, wc[w] # Absent, ~wc[w].deleting, wc[w].gsReady
             PROVE  Held(w) /\ Complete(w, wc[w])
  BY DEF ReadyAfterPublished, Complete
<1>1. Complete(w, wc[w])
  BY DEF ReadyInv
<1>2. Held(w)
  BY <1>1 DEF ReadyInv, HistoryInv, Held, Fresh, Blank, Complete
<1> QED
  BY <1>1, <1>2

\* As long as nothing has failed, GSPrivateLinksReady is on a living cluster
\* that is not being reconciled only together with the finalizer, the gateway
\* endpoint and the addresses, for any clusters, links, name reuses and
\* staleness of the cache.
THEOREM ReadySafe == Spec => []ReadyAfterPublished
BY ReadyMeans, ReadyInvariant, PTL
=============================================================================
