------------------------ MODULE ClusterBringUp_proofs ------------------------
(***************************************************************************)
(* Proofs about ClusterBringUp: CAPI is let go on a cluster only when the  *)
(* cluster is connected, for any number of clusters, links and addresses.  *)
(***************************************************************************)
EXTENDS ClusterBringUp, ReadyCondition_proofs

-----------------------------------------------------------------------------
(* What Azure has, it keeps.                                               *)

\* Only CAPZ changes anything in Azure.
LEMMA AzureWritten ==
    ASSUME TypeOK, [Next]_vars,
           ~(\E w \in WorkloadClusters : WrittenByOthers(w)),
           ~(\E e \in Endpoint : CapzEndpoint(e))
    PROVE  pe' = pe /\ gw' = gw
<1> USE DEF azure
<1>1. CASE Open
  BY <1>1 DEF Open, ReconcilePublic, NoAllowedLinks, PrivateLinksNotReady,
     ReconcileMcToWcApi, ReconcileDelete, OpenNormal, OpenScopes
<1>2. CASE Body
  BY <1>2 DEF Body, EndpointFound, EndpointPending, EndpointLookupFails, VisitLink,
     LinksVisited, GatewayFound, GatewayPending, GatewayLookupFails, VisitGateway
<1>3. CASE WriteMC \/ (\E part \in PatchParts : WriteWC(part))
  BY <1>3 DEF WriteMC, PatchMC, PatchMCFails, WriteWC, PatchWC, PatchWCFails
<1>4. CASE Leave \/ Sync \/ (\E w \in WorkloadClusters : GetWorkloadCluster(w))
           \/ UNCHANGED vars
  BY <1>4 DEF Leave, ReadFails, Return, Crash, Sync,
     GetWorkloadCluster, vars
<1> QED
  BY <1>1, <1>2, <1>3, <1>4, Groups

\* A write by someone else to the object of w, with no deletion under way.
LEMMA OthersAzure ==
    ASSUME TypeOK, NEW w \in WorkloadClusters, WrittenByOthers(w)
    PROVE  /\ pe' = pe
           /\ \A v \in WorkloadClusters :
                gw'[v] # gw[v] =>
                    v = w /\ wc[w] # Absent /\ (wc[w].deleting \/ (wc[w].gateway /\ wc' = wc))
           /\ gw'[w] # gw[w] => wc[w].deleting \/ gw[w] = NoIP
<1> USE DEF azure, TypeOK
<1>1. CASE CapzDeleteCluster(w)
  BY <1>1 DEF CapzDeleteCluster
<1>2. CASE CapzCreateGateway(w)
  BY <1>2 DEF CapzCreateGateway, api
<1>3. CASE CapzAddFinalizer(w) \/ CapzPrivateLinksReady(w) \/ Create(w) \/ Delete(w)
  BY <1>3 DEF CapzAddFinalizer, CapzPrivateLinksReady, Create, Delete
<1>4. ASSUME NEW links, NEW allowed, EditPrivateLinks(w, links, allowed)
      PROVE  pe' = pe /\ gw' = gw
  BY <1>4 DEF EditPrivateLinks
<1> QED
  BY <1>1, <1>2, <1>3, <1>4 DEF WrittenByOthers, CapzCluster

\* What changes when CAPZ creates or deletes an endpoint.
LEMMA EndpointAzure ==
    ASSUME TypeOK, NEW e \in Endpoint, CapzEndpoint(e)
    PROVE  /\ UNCHANGED <<wc, mc, wcCache, mcCache, pc, req, wcOrig, wcCopy, mcOrig,
                          mcCopy, todo, parts, outcome, gw>>
           /\ \A d \in Endpoint : (d \in mc /\ pe[d] # NoIP) => pe'[d] # NoIP
           /\ \A d \in Endpoint : pe'[d] # NoIP => d \in mc \/ pe[d] # NoIP
<1>1. CASE CapzCreateEndpoint(e)
  BY <1>1, NoIPAssumption DEF CapzCreateEndpoint, api, cache, locals, copies, TypeOK
<1>2. CASE CapzDeleteEndpoint(e)
  BY <1>2 DEF CapzDeleteEndpoint, api, cache, locals, copies, TypeOK
<1> QED
  BY <1>1, <1>2 DEF CapzEndpoint

\* Of the cluster's addresses none is lost.
AddressesKept ==
    /\ gw[New] # NoIP => gw'[New] # NoIP
    /\ LBType[New] = "Internal" =>
        \A l \in Links : pe[EndpointFor(New, l)] # NoIP => pe'[EndpointFor(New, l)] # NoIP

\* Every step keeps the addresses.
LEMMA AddressesStep ==
    ASSUME TypeOK, BringUpInv, [Next]_vars
    PROVE  AddressesKept
<1>1. \A l \in Links : EndpointFor(New, l) \in Endpoint
  BY NewAssumption DEF EndpointFor, Endpoint
<1>2. ASSUME NEW e \in Endpoint, CapzEndpoint(e) PROVE AddressesKept
  BY <1>1, <1>2, EndpointAzure DEF AddressesKept, BringUpInv, ListsInv
<1>3. ASSUME NEW w \in WorkloadClusters, WrittenByOthers(w) PROVE AddressesKept
  <2>1. pe' = pe /\ (gw[New] # NoIP => gw'[New] = gw[New])
    BY <1>3, OthersAzure, NewAssumption DEF BringUpInv, ObjectsInv, Shows
  <2> QED
    BY <2>1 DEF AddressesKept
<1> QED
  BY <1>2, <1>3, AzureWritten DEF AddressesKept

\* A connected cluster stays connected.
LEMMA UpKept ==
    ASSUME AddressesKept, Up
    PROVE  Up'
BY DEF AddressesKept, Up, LinksUp
-----------------------------------------------------------------------------
(* The objects of the cluster.                                             *)

\* A request of the patch helper does not touch the links.
LEMMA AfterPatchLinks ==
    ASSUME NEW before \in AzureCluster, NEW after \in AzureCluster,
           NEW current \in AzureCluster, NEW part \in PatchParts,
           AfterPatch(part, before, after, current) # Absent
    PROVE  /\ AfterPatch(part, before, after, current).privateLinks = current.privateLinks
           /\ AfterPatch(part, before, after, current).allowed = current.allowed
<1>1. current # Absent
  BY AbsentAssumption
<1>2. /\ PatchedObject(before, after, current).privateLinks = current.privateLinks
      /\ PatchedObject(before, after, current).allowed = current.allowed
      /\ PatchedStatus(before, after, current).privateLinks = current.privateLinks
      /\ PatchedStatus(before, after, current).allowed = current.allowed
  BY DEF PatchedObject, PatchedStatus, AzureCluster
<1> QED
  BY <1>1, <1>2 DEF AfterPatch, Stored

\* One request of the patch helper on a cluster that is not in deletion.
LEMMA AfterPatchShows ==
    ASSUME NEW before \in AzureCluster, NEW after \in AzureCluster,
           NEW current \in AzureCluster, NEW part \in PatchParts,
           NEW stored, stored = AfterPatch(part, before, after, current),
           ~current.deleting
    PROVE  /\ stored # Absent /\ ~stored.deleting
           /\ stored.gsReady => current.gsReady \/ after.gsReady
           /\ (current.gateway /\ (before.gateway => after.gateway)) => stored.gateway
<1>1. current # Absent
  BY AbsentAssumption
<1>2. CASE part = "status"
  <2>1. stored = PatchedStatus(before, after, current) /\ stored \in AzureCluster
    BY <1>1, <1>2, PatchedType DEF AfterPatch
  <2> QED
    BY <2>1, AbsentAssumption DEF PatchedStatus, AzureCluster, Merged
<1>3. CASE part = "object"
  <2> DEFINE p == PatchedObject(before, after, current)
  <2>1. /\ p \in AzureCluster
        /\ p.deleting = current.deleting /\ p.gsReady = current.gsReady
        /\ p.gateway = Merged(before.gateway, after.gateway, current.gateway)
    BY PatchedType DEF PatchedObject, AzureCluster
  <2>2. before.gateway \in BOOLEAN /\ after.gateway \in BOOLEAN
    BY DEF AzureCluster
  <2> HIDE DEF p
  <2>3. stored = p
    BY <1>1, <1>3, <2>1 DEF AfterPatch, p, Stored, Accepted
  <2> QED
    BY <2>1, <2>2, <2>3, AbsentAssumption DEF Merged
<1> QED
  BY <1>2, <1>3 DEF PatchParts

\* What someone else writes, when nobody deletes a cluster and nobody edits a
\* private one: a new object, or the old one with changes of no concern here.
LEMMA OthersShow ==
    ASSUME TypeOK, Undisturbed, ObjectsInv, WrittenByOthers(New)
    PROVE  /\ \/ wc'[New] = Absent
              \/ wc'[New] = NewAzureCluster
              \/ /\ wc[New] # Absent
                 /\ wc'[New].deleting = wc[New].deleting /\ wc'[New].gsReady = wc[New].gsReady
                 /\ LBType[New] = "Internal" =>
                        /\ wc'[New].privateLinks = wc[New].privateLinks
                        /\ wc'[New].allowed = wc[New].allowed
           /\ wc[New] # Absent => wc'[New] # Absent /\ wc'[New].gateway = wc[New].gateway
<1> USE NewAssumption DEF TypeOK, AzureCluster
<1>1. CASE Create(New)
  BY <1>1 DEF Create
<1>2. ~Delete(New)
  BY DEF Delete, Undisturbed
<1>3. ASSUME NEW links \in SUBSET Links, NEW allowed \in SUBSET links,
             EditPrivateLinks(New, links, allowed)
      PROVE  /\ wc[New] # Absent /\ wc'[New] # Absent /\ LBType[New] # "Internal"
             /\ wc'[New].deleting = wc[New].deleting /\ wc'[New].gsReady = wc[New].gsReady
             /\ wc'[New].gateway = wc[New].gateway
  <2>1. LBType[New] # "Internal"
    BY <1>3 DEF EditPrivateLinks, Undisturbed
  <2>2. wc[New] \in AzureCluster
        /\ wc'[New] = [wc[New] EXCEPT !.privateLinks = links, !.allowed = allowed]
    BY <1>3 DEF EditPrivateLinks
  <2>3. wc'[New] \in AzureCluster
    BY <2>2
  <2> QED
    BY <2>1, <2>2, <2>3, AbsentAssumption
<1>4. CASE CapzAddFinalizer(New) \/ CapzPrivateLinksReady(New)
  <2>1. wc[New] \in AzureCluster
        /\ wc'[New] \in {[wc[New] EXCEPT !.finalizers = @ \cup {"capz"}],
                         [wc[New] EXCEPT !.linksReady = TRUE]}
    BY <1>4 DEF CapzAddFinalizer, CapzPrivateLinksReady
  <2>2. wc'[New] \in AzureCluster
    BY <2>1 DEF Finalizers
  <2> QED
    BY <2>1, <2>2, AbsentAssumption
<1>5. ~CapzDeleteCluster(New)
  BY DEF CapzDeleteCluster, ObjectsInv, Shows
<1>6. CASE CapzCreateGateway(New)
  BY <1>6 DEF CapzCreateGateway, api
<1> QED
  BY <1>1, <1>2, <1>3, <1>4, <1>5, <1>6 DEF WrittenByOthers, CapzCluster

\* Every object keeps telling the truth.
LEMMA ObjectsStep ==
    ASSUME TypeOK, Undisturbed, BringUpInv, AddressesKept, [Next]_vars
    PROVE  ObjectsInv'
<1>1. Up => Up'
  BY UpKept
<1>2. ObjectsInv
  BY DEF BringUpInv
<1>3. ASSUME UNCHANGED <<wc, wcCache, pc, req, wcOrig, wcCopy>> PROVE ObjectsInv'
  BY <1>1, <1>2, <1>3 DEF ObjectsInv, Shows
<1>4. ASSUME NEW w \in WorkloadClusters, GetWorkloadCluster(w) PROVE ObjectsInv'
  BY <1>1, <1>2, <1>4 DEF GetWorkloadCluster, ReadWC, ObjectsInv, Shows, api, cache
<1>5. CASE Open
  <2>1. KeptByOpen /\ wcCopy'.gsReady = wcCopy.gsReady
    BY <1>5, OpenStep, OpenFields
  <2>2. wcCopy \in AzureCluster /\ wcCopy # Absent /\ pc # "idle"
    BY <2>1, AbsentAssumption DEF KeptByOpen, TypeOK
  <2>3. (req = New) => Shows(wcCopy)'
    BY <1>1, <1>2, <2>1, <2>2 DEF KeptByOpen, ObjectsInv, Shows
  <2> QED
    BY <1>1, <1>2, <2>1, <2>2, <2>3 DEF KeptByOpen, ObjectsInv, Shows
<1>6. CASE Body
  <2>1. KeptByBody
    BY <1>6, BodyStep
  <2>2. wcCopy \in AzureCluster /\ wcCopy # Absent /\ pc # "idle"
    BY <2>1, AbsentAssumption DEF KeptByBody, TypeOK
  <2>3. (req = New /\ wcCopy'.gsReady) => Up \/ wcCopy.gsReady
    <3>1. CASE GatewayFound
      BY <3>1 DEF GatewayFound, VisitGateway, BringUpInv, ListsInv, Up
    <3>2. CASE GatewayPending \/ GatewayLookupFails
      BY <2>2, <3>2 DEF GatewayPending, GatewayLookupFails, AzureCluster
    <3>3. ASSUME NEW l \in Links, EndpointFound(l) \/ EndpointPending(l)
                                  \/ EndpointLookupFails(l)
          PROVE  wcCopy'.gsReady = wcCopy.gsReady
      BY <2>2, <3>3 DEF EndpointFound, EndpointPending, EndpointLookupFails, AzureCluster
    <3>4. CASE LinksVisited
      BY <3>4 DEF LinksVisited
    <3> QED
      BY <1>6, <3>1, <3>2, <3>3, <3>4 DEF Body
  <2>4. (req = New) => Shows(wcCopy)'
    BY <1>1, <1>2, <2>1, <2>2, <2>3 DEF KeptByBody, ObjectsInv, Shows
  <2> QED
    BY <1>1, <1>2, <2>1, <2>2, <2>4 DEF KeptByBody, ObjectsInv, Shows
<1>7. CASE WriteMC
  BY <1>1, <1>2, <1>7 DEF WriteMC, PatchMC, PatchMCFails, ObjectsInv, Shows, cache, copies
<1>8. CASE Leave
  BY <1>1, <1>2, <1>8 DEF Leave, ReadFails, Return, Crash,
     ClearLocals, ObjectsInv, Shows, api, cache
<1>9. ASSUME NEW part \in PatchParts, WriteWC(part) PROVE ObjectsInv'
  <2>1. /\ UNCHANGED <<wcCache, pc, req, wcOrig, wcCopy>> /\ pc = "closeWC"
        /\ wc' \in {wc, [wc EXCEPT ![req] = AfterPatch(part, wcOrig, wcCopy, wc[req])]}
    BY <1>9 DEF WriteWC, PatchWC, PatchWCFails, cache, copies
  <2>2. /\ wcOrig \in AzureCluster /\ wcCopy \in AzureCluster
        /\ wc \in [WorkloadClusters -> AzureCluster \cup {Absent}]
    BY <2>1 DEF TypeOK
  <2>3. Shows(wc[New])'
    <3>1. CASE wc'[New] = wc[New]
      BY <1>1, <1>2, <3>1 DEF ObjectsInv, Shows
    <3>2. CASE wc'[New] # wc[New]
      <4>1. req = New /\ wc'[New] = AfterPatch(part, wcOrig, wcCopy, wc[New])
        BY <2>1, <2>2, <3>2, NewAssumption
      <4>2. wc[New] \in AzureCluster /\ wc[New] # Absent /\ wcCopy # Absent
        BY <2>2, <3>2, <4>1, AbsentAssumption, NewAssumption DEF AfterPatch
      <4>3. ~wc[New].deleting
        BY <1>2, <4>2 DEF ObjectsInv, Shows
      <4>4. /\ wc'[New] # Absent /\ ~wc'[New].deleting
            /\ wc'[New].gsReady => wc[New].gsReady \/ wcCopy.gsReady
        BY <2>2, <4>1, <4>2, <4>3, AfterPatchShows
      <4>5. wc'[New].privateLinks = wc[New].privateLinks /\ wc'[New].allowed = wc[New].allowed
        BY <2>2, <4>1, <4>2, <4>4, AfterPatchLinks
      <4> QED
        BY <1>1, <1>2, <2>1, <4>1, <4>2, <4>4, <4>5 DEF ObjectsInv, Shows
    <3> QED
      BY <3>1, <3>2
  <2> QED
    BY <1>1, <1>2, <2>1, <2>3 DEF ObjectsInv, Shows
<1>10. CASE Sync
  BY <1>1, <1>2, <1>10 DEF Sync, ObjectsInv, Shows, api, locals, copies
<1>11. ASSUME NEW w \in WorkloadClusters, WrittenByOthers(w) PROVE ObjectsInv'
  <2>1. KeptByOthers(w)
    BY <1>11, OthersStep
  <2>2. Shows(wc[New])'
    <3>1. CASE w # New
      BY <1>1, <1>2, <2>1, <3>1, NewAssumption DEF KeptByOthers, ObjectsInv, Shows
    <3>2. CASE w = New
      BY <1>1, <1>2, <1>11, <3>2, OthersShow DEF ObjectsInv, Shows, NewAzureCluster
    <3> QED
      BY <3>1, <3>2
  <2> QED
    BY <1>1, <1>2, <2>1, <2>2 DEF KeptByOthers, ObjectsInv, Shows
<1>12. ASSUME NEW e \in Endpoint, CapzEndpoint(e) PROVE ObjectsInv'
  BY <1>3, <1>12, EndpointAzure
<1>13. CASE UNCHANGED vars
  BY <1>3, <1>13 DEF vars, api, cache, locals, copies
<1> QED
  BY <1>4, <1>5, <1>6, <1>7, <1>8, <1>9, <1>10, <1>11, <1>12, <1>13, Groups

\* The gateway endpoint stays.
LEMMA GatewayStep ==
    ASSUME TypeOK, Undisturbed, BringUpInv, [Next]_vars
    PROVE  GatewayInv'
<1> USE NewAssumption
<1>1. GatewayInv /\ ObjectsInv
  BY DEF BringUpInv
<1>2. ASSUME UNCHANGED <<wc, gw>>, pc' # "idle" => UNCHANGED <<req, wcOrig, wcCopy>> /\ pc # "idle"
      PROVE  GatewayInv'
  BY <1>1, <1>2 DEF GatewayInv
<1>3. ASSUME NEW w \in WorkloadClusters, GetWorkloadCluster(w) PROVE GatewayInv'
  BY <1>1, <1>3 DEF GetWorkloadCluster, GatewayInv, api, azure
<1>4. CASE Open
  <2>1. KeptByOpen /\ wcCopy'.gateway = wcCopy.gateway
    BY <1>4, OpenStep, OpenFields DEF SameFields
  <2>2. gw' = gw
    BY <1>4 DEF Open, ReconcilePublic, NoAllowedLinks, PrivateLinksNotReady,
       ReconcileMcToWcApi, ReconcileDelete, OpenNormal, OpenScopes, azure
  <2> QED
    BY <1>1, <2>1, <2>2 DEF KeptByOpen, GatewayInv
<1>5. CASE Body
  <2>1. KeptByBody /\ Keeps(wcCopy, wcCopy')
    BY <1>5, BodyStep, BodyFields
  <2>2. gw' = gw
    BY <1>5 DEF Body, EndpointFound, EndpointPending, EndpointLookupFails, VisitLink,
       LinksVisited, GatewayFound, GatewayPending, GatewayLookupFails, VisitGateway, azure
  <2> QED
    BY <1>1, <2>1, <2>2 DEF KeptByBody, Keeps, GatewayInv
<1>6. CASE WriteMC
  BY <1>2, <1>6 DEF WriteMC, PatchMC, PatchMCFails, azure, copies
<1>7. CASE Leave
  BY <1>2, <1>7 DEF Leave, ReadFails, Return, Crash,
     ClearLocals, api, azure
<1>8. ASSUME NEW part \in PatchParts, WriteWC(part) PROVE GatewayInv'
  <2>1. /\ UNCHANGED <<gw, pc, req, wcOrig, wcCopy>> /\ pc = "closeWC"
        /\ wc' \in {wc, [wc EXCEPT ![req] = AfterPatch(part, wcOrig, wcCopy, wc[req])]}
    BY <1>8 DEF WriteWC, PatchWC, PatchWCFails, azure, copies
  <2>2. /\ wcOrig \in AzureCluster /\ wcCopy \in AzureCluster
        /\ wc \in [WorkloadClusters -> AzureCluster \cup {Absent}]
    BY <2>1 DEF TypeOK
  <2>3. ASSUME gw[New] # NoIP, wc'[New] # wc[New] PROVE wc'[New] # Absent /\ wc'[New].gateway
    <3>1. req = New /\ wc'[New] = AfterPatch(part, wcOrig, wcCopy, wc[New])
      BY <2>1, <2>2, <2>3
    <3>2. /\ wc[New] \in AzureCluster /\ wc[New] # Absent /\ wc[New].gateway
          /\ ~wc[New].deleting /\ (wcOrig.gateway => wcCopy.gateway)
      BY <1>1, <2>1, <2>2, <2>3, <3>1 DEF GatewayInv, ObjectsInv, Shows
    <3> QED
      BY <2>2, <3>1, <3>2, AfterPatchShows
  <2> QED
    BY <1>1, <2>1, <2>3 DEF GatewayInv
<1>9. CASE Sync
  BY <1>2, <1>9 DEF Sync, api, azure, locals, copies
<1>10. ASSUME NEW w \in WorkloadClusters, WrittenByOthers(w) PROVE GatewayInv'
  <2>1. KeptByOthers(w)
    BY <1>10, OthersStep
  <2>2. CASE w # New
    <3>1. gw'[New] = gw[New] /\ wc'[New] = wc[New]
      BY <1>10, <2>1, <2>2, OthersAzure DEF KeptByOthers
    <3> QED
      BY <1>1, <2>1, <3>1 DEF KeptByOthers, GatewayInv
  <2>3. CASE w = New
    <3>1. CASE gw'[New] = gw[New]
      BY <1>1, <1>10, <2>1, <2>3, <3>1, OthersShow DEF KeptByOthers, GatewayInv
    <3>2. CASE gw'[New] # gw[New]
      <4>1. wc' = wc /\ wc[New] # Absent /\ wc[New].gateway
        BY <1>1, <1>10, <2>3, <3>2, OthersAzure DEF ObjectsInv, Shows
      <4> QED
        BY <1>1, <2>1, <4>1 DEF KeptByOthers, GatewayInv
    <3> QED
      BY <3>1, <3>2
  <2> QED
    BY <2>2, <2>3
<1>11. ASSUME NEW e \in Endpoint, CapzEndpoint(e) PROVE GatewayInv'
  BY <1>2, <1>11, EndpointAzure
<1>12. CASE UNCHANGED vars
  BY <1>2, <1>12 DEF vars, api, azure, locals, copies
<1> QED
  BY <1>3, <1>4, <1>5, <1>6, <1>7, <1>8, <1>9, <1>10, <1>11, <1>12, Groups

-----------------------------------------------------------------------------
(* The lists of endpoints, if the cluster is private.                      *)

\* The scopes are opened with the list that was read, and the loop has all of
\* the cluster's links before it.
LEMMA OpenLists ==
    ASSUME TypeOK, Undisturbed, LBType[New] = "Internal", ObjectsInv, Open
    PROVE  /\ KeptByOpen /\ mcCopy' = mcOrig' /\ pe' = pe
           /\ pc' = "api" => req = New /\ todo' = Links
           /\ pc' = "ingress" => req # New
<1>1. KeptByOpen
  BY OpenStep
<1>2. wcCopy \in AzureCluster /\ wcCopy # Absent /\ pc # "idle" /\ req \in WorkloadClusters
  BY <1>1, AbsentAssumption DEF KeptByOpen, TypeOK
<1>3. LBType[req] = "Internal" => req = New
  BY <1>2 DEF Undisturbed
<1>4. req = New => ~wcCopy.deleting /\ wcCopy.privateLinks = Links /\ wcCopy.allowed = Links
  BY <1>2 DEF ObjectsInv, Shows
<1>5. CASE ReconcileDelete
  BY <1>1, <1>3, <1>4, <1>5 DEF ReconcileDelete, OpenScopes, CloseWith, azure
<1>6. CASE ReconcileMcToWcApi
  <2>1. req = New /\ todo' = GetPrivateLinksWithAllowedSubscription(wcCopy)
    BY <1>3, <1>6 DEF ReconcileMcToWcApi
  <2>2. todo' = Links
    BY <1>4, <2>1 DEF GetPrivateLinksWithAllowedSubscription
  <2> QED
    BY <1>1, <1>6, <2>1, <2>2 DEF ReconcileMcToWcApi, OpenNormal, OpenScopes, azure
<1>7. CASE ReconcilePublic
  BY <1>1, <1>7 DEF ReconcilePublic, OpenNormal, OpenScopes, ContinueWithIngress, CloseWith,
     azure
<1>8. CASE NoAllowedLinks \/ PrivateLinksNotReady
  BY <1>1, <1>8 DEF NoAllowedLinks, PrivateLinksNotReady, OpenNormal, OpenScopes, CloseWith,
     CloseWithError, azure
<1> QED
  BY <1>5, <1>6, <1>7, <1>8 DEF Open

\* A visit to the first link of the loop: the endpoints before it are in the
\* list and have their addresses.
LEMMA VisitLists ==
    ASSUME TypeOK, ListsInv, NEW l \in Links, VisitLink(l)
    PROVE  /\ req = New /\ mcCopy' = mcCopy \cup {EndpointFor(New, l)}
           /\ \A k \in Links : k < l => /\ pe[EndpointFor(New, k)] # NoIP
                                        /\ EndpointFor(New, k) \in mcCopy
           /\ UNCHANGED <<mc, mcCache, mcOrig, req, pe, gw>>
           /\ \A k, m \in Links : (k < m /\ EndpointFor(New, m) \in mc \cup mcCopy')
                                  => pe[EndpointFor(New, k)] # NoIP
<1>1. /\ req = New /\ mcCopy' = mcCopy \cup {EndpointFor(New, l)}
      /\ UNCHANGED <<mc, mcCache, mcOrig, req, pe, gw>>
  BY DEF VisitLink, ListsInv, AddPrivateEndpointSpec, api, cache, azure
<1>2. ASSUME NEW k \in Links, k < l
      PROVE  pe[EndpointFor(New, k)] # NoIP /\ EndpointFor(New, k) \in mcCopy
  <2>1. k \notin todo
    BY <1>2, LinksAssumption DEF VisitLink
  <2> QED
    BY <1>2, <2>1 DEF VisitLink, ListsInv
<1>3. ASSUME NEW k \in Links, NEW m \in Links, k < m, EndpointFor(New, m) \in mc \cup mcCopy'
      PROVE  pe[EndpointFor(New, k)] # NoIP
  <2>1. CASE EndpointFor(New, m) = EndpointFor(New, l)
    <3>1. m = l
      BY <2>1 DEF EndpointFor
    <3> QED
      BY <1>2, <1>3, <3>1
  <2>2. CASE EndpointFor(New, m) # EndpointFor(New, l)
    BY <1>1, <1>3, <2>2 DEF ListsInv
  <2> QED
    BY <2>1, <2>2
<1> QED
  BY <1>1, <1>2, <1>3

\* An endpoint of the cluster is the one for a link.
LEMMA EndpointIsFor ==
    ASSUME NEW eps, eps \subseteq Endpoint, NEW e \in EndpointsOf(New, eps)
    PROVE  e.link \in Links /\ e = EndpointFor(New, e.link) /\ e \in eps
BY DEF EndpointsOf, Endpoint, EndpointFor

\* If the loop stops at a link whose endpoint has no address, or at the only
\* link, the list has all endpoints to the cluster that are stored.
LEMMA StoppedComplete ==
    ASSUME TypeOK, ListsInv, NEW l \in Links, VisitLink(l),
           pe[EndpointFor(New, l)] = NoIP \/ \A k, m \in Links : k = m
    PROVE  EndpointsOf(New, mc) \subseteq mcCopy'
<1> SUFFICES ASSUME NEW e \in EndpointsOf(New, mc) PROVE e \in mcCopy'
  OBVIOUS
<1>1. e.link \in Links /\ e = EndpointFor(New, e.link) /\ e \in mc
  BY EndpointIsFor DEF TypeOK
<1>2. CASE \A k, m \in Links : k = m
  BY <1>1, <1>2, VisitLists
<1>3. CASE pe[EndpointFor(New, l)] = NoIP
  <2>1. ~(l < e.link)
    BY <1>1, <1>3 DEF ListsInv
  <2>2. e.link \in Nat /\ l \in Nat
    BY <1>1, LinksAssumption
  <2>3. e.link < l \/ e.link = l
    BY <2>1, <2>2
  <2> QED
    BY <1>1, <2>3, VisitLists
<1> QED
  BY <1>2, <1>3

\* The clean-up after the loop keeps the endpoints to the cluster's links.
LEMMA CleanUpKeeps ==
    ASSUME NEW c, c.privateLinks = Links, NEW eps
    PROVE  /\ RemoveUnusedEndpoints(New, c, eps) \subseteq eps
           /\ \A l \in Links : EndpointFor(New, l) \in eps =>
                EndpointFor(New, l) \in RemoveUnusedEndpoints(New, c, eps)
BY DEF RemoveUnusedEndpoints, LookupPrivateLink, EndpointFor

\* The body of Reconcile keeps ListsInv.
LEMMA BodyLists ==
    ASSUME TypeOK, Undisturbed, LBType[New] = "Internal", ObjectsInv, ListsInv, Body
    PROVE  ListsInv'
<1>1. ASSUME NEW l \in Links, EndpointFound(l) PROVE ListsInv'
  <2>1. /\ VisitLink(l) /\ pe[EndpointFor(New, l)] # NoIP /\ pc = "api" /\ pc' = "api"
        /\ todo' = todo \ {l}
    BY <1>1 DEF EndpointFound, VisitLink, ListsInv
  <2>2. \A k \in Links \ todo' : /\ pe[EndpointFor(New, k)] # NoIP
                                 /\ EndpointFor(New, k) \in mcCopy'
    BY <2>1, VisitLists DEF ListsInv
  <2> QED
    BY <2>1, <2>2, VisitLists DEF ListsInv
<1>2. ASSUME NEW l \in Links, EndpointPending(l) \/ EndpointLookupFails(l) PROVE ListsInv'
  <2>1. VisitLink(l) /\ pc = "api" /\ pc' = "closeMC"
    BY <1>2 DEF EndpointPending, EndpointLookupFails, VisitLink, CloseWith, CloseWithError
  <2>2. pe[EndpointFor(New, l)] = NoIP \/ \A k, m \in Links : k = m
    <3>1. CASE EndpointPending(l)
      BY <2>1, <3>1 DEF EndpointPending, ListsInv
    <3>2. CASE EndpointLookupFails(l)
      BY <3>2 DEF EndpointLookupFails, Fault, Undisturbed, TypeOK
    <3> QED
      BY <1>2, <3>1, <3>2
  <2>3. EndpointsOf(New, mc) \subseteq mcCopy'
    BY <2>1, <2>2, StoppedComplete
  <2> QED
    BY <2>1, <2>3, VisitLists DEF ListsInv
<1>3. CASE LinksVisited
  <2>1. /\ pc = "api" /\ todo = {} /\ req = New /\ pc' \in {"ingress", "closeMC"}
        /\ UNCHANGED <<mc, mcCache, mcOrig, req, pe>>
        /\ mcCopy' = RemoveUnusedEndpoints(New, wcCopy, mcCopy)
    BY <1>3 DEF LinksVisited, ListsInv, ContinueWithIngress, CloseWith, api, cache, azure
  <2>2. wcCopy.privateLinks = Links
    BY <2>1, AbsentAssumption DEF TypeOK, ObjectsInv, Shows
  <2>3. /\ mcCopy' \subseteq mcCopy /\ LinksUp'
        /\ \A l \in Links : EndpointFor(New, l) \in mcCopy'
    BY <2>1, <2>2, CleanUpKeeps DEF ListsInv, LinksUp
  <2>4. EndpointsOf(New, mc) \subseteq mcCopy'
    BY <2>3, EndpointIsFor DEF TypeOK
  <2> QED
    BY <2>1, <2>3, <2>4 DEF ListsInv
<1>4. CASE GatewayFound \/ GatewayPending \/ GatewayLookupFails
  <2>1. /\ pc = "ingress" /\ pc' = "closeMC"
        /\ UNCHANGED <<mc, mcCache, mcOrig, mcCopy, req, pe>>
    BY <1>4 DEF GatewayFound, GatewayPending, GatewayLookupFails, VisitGateway, CloseWith,
       CloseWithError, api, cache, azure
  <2> QED
    BY <2>1 DEF ListsInv
<1> QED
  BY <1>1, <1>2, <1>3, <1>4 DEF Body

\* The deferred call for the MC drops none of the cluster's endpoints.
LEMMA WriteMCLists ==
    ASSUME TypeOK, ListsInv, WriteMC
    PROVE  EndpointsOf(New, mc) \subseteq mc' /\ mc' \subseteq mc \cup mcCopy
BY DEF WriteMC, PatchMC, PatchMCFails, Merged, ListsInv, EndpointsOf

\* Every step keeps ListsInv.
LEMMA ListsStep ==
    ASSUME TypeOK, Undisturbed, LBType[New] = "Internal", BringUpInv, AddressesKept,
           [Next]_vars
    PROVE  ListsInv'
<1>1. ListsInv /\ ObjectsInv
  BY DEF BringUpInv
<1>2. \A l \in Links : EndpointFor(New, l) \in Endpoint
  BY NewAssumption DEF EndpointFor, Endpoint
<1>3. ASSUME UNCHANGED <<mc, mcCache, pc, req, mcOrig, mcCopy, todo, pe>> PROVE ListsInv'
  BY <1>1, <1>3 DEF ListsInv, LinksUp
<1>4. ASSUME NEW w \in WorkloadClusters, GetWorkloadCluster(w) PROVE ListsInv'
  BY <1>1, <1>4 DEF GetWorkloadCluster, ListsInv, api, cache, azure
<1>5. CASE Open
  <2>1. /\ mcCopy' = mcOrig' /\ mcOrig' = ReadMC /\ UNCHANGED <<mc, mcCache, req, pe>>
        /\ pc' \in {"api", "ingress", "closeMC"}
        /\ pc' = "api" => req = New /\ todo' = Links
        /\ pc' = "ingress" => req # New
    BY <1>1, <1>5, OpenLists DEF KeptByOpen
  <2>2. EndpointsOf(New, ReadMC) \subseteq mc
    BY <1>1 DEF ListsInv, ReadMC, EndpointsOf
  <2>3. \A l \in Links : EndpointFor(New, l) \in ReadMC => EndpointFor(New, l) \in mc
    BY <2>2 DEF EndpointsOf, EndpointFor
  <2> QED
    BY <1>1, <2>1, <2>2, <2>3 DEF ListsInv, EndpointsOf
<1>6. CASE Body
  BY <1>1, <1>6, BodyLists
<1>7. CASE WriteMC
  <2>1. /\ UNCHANGED <<mcCache, mcOrig, mcCopy, req, pe>> /\ pc' = "closeWC"
        /\ EndpointsOf(New, mc) \subseteq mc' /\ mc' \subseteq mc \cup mcCopy
    BY <1>1, <1>7, WriteMCLists DEF WriteMC, PatchMC, PatchMCFails, cache, azure, copies
  <2>2. \A l \in Links : EndpointFor(New, l) \in mc => EndpointFor(New, l) \in mc'
    BY <2>1 DEF EndpointsOf, EndpointFor
  <2> QED
    BY <1>1, <2>1, <2>2 DEF ListsInv, EndpointsOf
<1>8. CASE Leave
  <2>1. /\ UNCHANGED <<mc, pe>> /\ pc' = "idle" /\ mcOrig' = {} /\ mcCopy' = {}
        /\ mcCache' \in {mc, mcCache}
    BY <1>8 DEF Leave, ReadFails, Return, Crash, ClearLocals,
       api, cache, azure
  <2> QED
    BY <1>1, <2>1 DEF ListsInv, EndpointsOf
<1>9. ASSUME NEW part \in PatchParts, WriteWC(part) PROVE ListsInv'
  BY <1>3, <1>9 DEF WriteWC, PatchWC, PatchWCFails, cache, azure, copies
<1>10. CASE Sync
  BY <1>1, <1>10 DEF Sync, ListsInv, EndpointsOf, LinksUp, api, azure, locals, copies
<1>11. ASSUME NEW w \in WorkloadClusters, WrittenByOthers(w) PROVE ListsInv'
  BY <1>3, <1>11, OthersStep, OthersAzure DEF KeptByOthers
<1>12. ASSUME NEW e \in Endpoint, CapzEndpoint(e) PROVE ListsInv'
  <2>1. /\ UNCHANGED <<mc, mcCache, pc, req, mcOrig, mcCopy, todo>>
        /\ \A l \in Links : pe'[EndpointFor(New, l)] # NoIP =>
                EndpointFor(New, l) \in mc \/ pe[EndpointFor(New, l)] # NoIP
    BY <1>2, <1>12, EndpointAzure
  <2>2. \A l \in Links : pe[EndpointFor(New, l)] # NoIP => pe'[EndpointFor(New, l)] # NoIP
    BY DEF AddressesKept
  <2> QED
    BY <1>1, <2>1, <2>2 DEF ListsInv, LinksUp
<1>13. CASE UNCHANGED vars
  BY <1>3, <1>13 DEF vars, api, cache, azure, locals, copies
<1> QED
  BY <1>4, <1>5, <1>6, <1>7, <1>8, <1>9, <1>10, <1>11, <1>12, <1>13, Groups

-----------------------------------------------------------------------------
(* The two controllers together.                                           *)

\* Everything of the one controller but the number of failures.
InfraKept == UNCHANGED <<api, cache, azure, locals, creates, deletes, edits>>

\* The process dies: its caches are what is stored, its locals are gone.
LEMMA DieKeeps ==
    ASSUME Die
    PROVE  /\ UNCHANGED <<wc, mc, pe, gw, creates, deletes, edits, kcp>>
           /\ wcCache' = wc /\ mcCache' = mc /\ pc' = "idle" /\ req' = Absent
           /\ mcOrig' = {} /\ mcCopy' = {} /\ todo' = {} /\ parts' = {}
           /\ outcome' = "none" /\ faults < MaxFaults /\ faults' = faults + 1
           /\ gatePc' = "idle" /\ pause' = FALSE
BY DEF Die, ClearLocals, Fault, Gate!Return, api, azure

\* A step of the control plane's reconciler leaves the AzureClusters alone.
LEMMA GateApart ==
    ASSUME GateStep
    PROVE  InfraKept /\ (faults' = faults \/ Fault)
<1>1. CASE UNCHANGED vars
  BY <1>1 DEF vars, bounds, InfraKept
<1>2. CASE Gate!Failure /\ InfraKept
  BY <1>2 DEF Gate!Failure, Gate!GetFails, Gate!PatchFails, Gate!Fault, Fault
<1> QED
  BY <1>1, <1>2 DEF GateStep, Alone, InfraKept

\* It is about to unpause only if its cache has the condition.
LEMMA GateKeeps ==
    ASSUME BringUpInv, GateStep
    PROVE  /\ kcp' \in Gate!ControlPlane /\ pause' \in BOOLEAN
           /\ (gatePc' = "patch" /\ ~pause') => Up
           /\ (kcp.paused /\ ~kcp'.paused) => gatePc = "patch" /\ ~pause
<1> DEFINE Goal == /\ kcp' \in Gate!ControlPlane /\ pause' \in BOOLEAN
                   /\ (gatePc' = "patch" /\ ~pause') => Up
                   /\ (kcp.paused /\ ~kcp'.paused) => gatePc = "patch" /\ ~pause
<1>1. /\ kcp \in Gate!ControlPlane /\ pause \in BOOLEAN
      /\ (gatePc = "patch" /\ ~pause) => Up
      /\ Shows(wcCache[New])
  BY DEF BringUpInv, OpeningInv, ObjectsInv
<1>2. ASSUME Gate!PatchControlPlane
      PROVE  kcp' \in Gate!ControlPlane /\ (kcp.paused /\ ~kcp'.paused => ~pause)
  <2>1. CASE kcp = Absent
    BY <1>1, <1>2, <2>1 DEF Gate!PatchControlPlane
  <2>2. CASE kcp # Absent
    <3>1. kcp' = [kcp EXCEPT !.paused = Merged(gateOrig.paused, pause, kcp.paused)]
      BY <1>2, <2>2 DEF Gate!PatchControlPlane, Gate!Merged, Merged
    <3>2. Merged(gateOrig.paused, pause, kcp.paused) \in {pause, kcp.paused}
      BY DEF Merged
    <3>3. kcp' \in Gate!ControlPlane /\ kcp'.paused \in {pause, kcp.paused}
      BY <1>1, <3>1, <3>2 DEF Gate!ControlPlane
    <3> QED
      BY <3>3
  <2> QED
    BY <2>1, <2>2
<1>3. ASSUME Gate!Patch PROVE Goal
  BY <1>1, <1>2, <1>3 DEF Gate!Patch, Gate!Return
<1>4. ASSUME Gate!Failure PROVE Goal
  BY <1>1, <1>2, <1>4 DEF Gate!Failure, Gate!GetFails, Gate!PatchFails, Gate!Return,
     Gate!LocalStep, Gate!objects
<1>5. ASSUME Gate!CheckGates PROVE Goal
  <2>1. /\ kcp' = kcp /\ pause' \in BOOLEAN
        /\ ~pause' => wcCache[New] # Absent
                      /\ Gate!FindUnmetStatusConditions(ConditionsOf(wcCache[New])) = {}
    BY <1>5 DEF Gate!CheckGates, Gate!LocalStep, Gate!objects
  <2>2. ~pause' => wcCache[New] # Absent /\ wcCache[New].gsReady
    BY <2>1 DEF Gate!FindUnmetStatusConditions, ConditionsOf
  <2> QED
    BY <1>1, <2>1, <2>2 DEF Shows
<1>6. ASSUME Gate!GetControlPlane \/ Gate!GetOwnerCluster PROVE Goal
  BY <1>1, <1>6 DEF Gate!GetControlPlane, Gate!GetOwnerCluster, Gate!LocalStep, Gate!objects
<1>7. ASSUME Gate!ClusterCancels \/ Gate!NoInfraCluster PROVE Goal
  BY <1>1, <1>7 DEF Gate!ClusterCancels, Gate!NoInfraCluster, Gate!Return, Gate!LocalStep,
     Gate!objects
<1>8. ASSUME Gate!SyncControlPlane \/ Gate!CapiStart \/ Gate!CapiStop PROVE Goal
  BY <1>1, <1>8 DEF Gate!SyncControlPlane, Gate!CapiStart, Gate!CapiStop, Gate!objects,
     Gate!locals
<1>9. ASSUME Gate!CapiInitialize PROVE Goal
  BY <1>1, <1>9 DEF Gate!CapiInitialize, Gate!ControlPlane, Gate!locals
<1> QED
  BY <1>3, <1>4, <1>5, <1>6, <1>7, <1>8, <1>9
     DEF GateStep, Alone, Gate!Continue

\* A step of the one controller is one of its own specification.
LEMMA InfraIsNext == InfraStep => Next /\ UNCHANGED gateVars
BY DEF InfraStep, Next, Operator

\* Every step of the composition keeps the types.
LEMMA BringUpTypeStep ==
    ASSUME TypeOK, [BringUpNext]_allVars
    PROVE  TypeOK'
<1>1. CASE InfraStep \/ UNCHANGED allVars
  BY <1>1, InfraIsNext, TypeStep DEF allVars
<1>2. CASE GateStep
  <2>1. InfraKept /\ faults' \in 0..MaxFaults
    BY <1>2, GateApart, BoundsAssumption DEF Fault, TypeOK
  <2> QED
    BY <2>1 DEF InfraKept, TypeOK, api, cache, azure, locals, copies
<1>3. CASE Die
  BY <1>3, DieKeeps, BoundsAssumption DEF TypeOK, PCs, Outcomes
<1> QED
  BY <1>1, <1>2, <1>3 DEF BringUpNext

\* Every step of the composition keeps BringUpInv.
LEMMA BringUpStep ==
    ASSUME TypeOK, Undisturbed, BringUpInv, [BringUpNext]_allVars
    PROVE  BringUpInv'
<1>1. CASE InfraStep \/ UNCHANGED allVars
  <2>1. [Next]_vars /\ UNCHANGED gateVars
    BY <1>1, InfraIsNext DEF allVars
  <2>2. AddressesKept /\ (Up => Up')
    BY <2>1, AddressesStep, UpKept
  <2>3. OpeningInv'
    BY <2>1, <2>2 DEF BringUpInv, OpeningInv, gateVars
  <2> QED
    BY <2>1, <2>2, <2>3, ObjectsStep, GatewayStep, ListsStep DEF BringUpInv
<1>2. CASE GateStep
  <2>1. /\ UNCHANGED <<wc, wcCache, mc, mcCache, pe, gw, pc, req, wcOrig, wcCopy, mcOrig,
                       mcCopy, todo>>
        /\ kcp' \in Gate!ControlPlane /\ pause' \in BOOLEAN
        /\ (gatePc' = "patch" /\ ~pause') => Up
    BY <1>2, GateApart, GateKeeps DEF InfraKept, api, cache, azure, locals, copies
  <2>2. Up' <=> Up
    BY <2>1 DEF Up, LinksUp
  <2> QED
    BY <2>1, <2>2 DEF BringUpInv, ObjectsInv, Shows, GatewayInv, OpeningInv, ListsInv, LinksUp
<1>3. CASE Die
  <2>1. Up' <=> Up
    BY <1>3, DieKeeps DEF Up, LinksUp
  <2> QED
    BY <1>3, <2>1, DieKeeps DEF BringUpInv, ObjectsInv, Shows, GatewayInv, OpeningInv,
       ListsInv, EndpointsOf
<1> QED
  BY <1>1, <1>2, <1>3 DEF BringUpNext

\* The types hold in every reachable state of the composition.
LEMMA BringUpTypes == BringUpSpec => []TypeOK
<1>1. BringUpInit => TypeOK
  BY BoundsAssumption DEF BringUpInit, Init, Start, TypeOK, PCs, Outcomes, MaybeIP
<1>2. TypeOK /\ [BringUpNext]_allVars => TypeOK'
  BY BringUpTypeStep
<1> QED
  BY <1>1, <1>2, PTL DEF BringUpSpec

\* In every reachable state whatever shows the condition, stale or about to be
\* written, is right: the cluster is connected (the deferred calls of the one
\* reconciler and the gate check of the other one).
THEOREM BringUpInvariant ==
    ASSUME Undisturbed
    PROVE  BringUpSpec => []BringUpInv
<1>1. BringUpInit => BringUpInv
  <2> SUFFICES ASSUME BringUpInit PROVE BringUpInv
    OBVIOUS
  <2>1. /\ wc[New] = Absent /\ wcCache[New] = Absent /\ gw[New] = NoIP /\ pc = "idle"
        /\ mc = {} /\ mcCache = {} /\ mcOrig = {} /\ mcCopy = {}
        /\ kcp \in Gate!ControlPlane /\ pause = FALSE /\ gatePc = "idle"
    BY NewAssumption DEF BringUpInit, Init, Start, Gate!ControlPlane
  <2>2. \A l \in Links : pe[EndpointFor(New, l)] = NoIP
    BY NewAssumption DEF BringUpInit, Init, Start, EndpointFor, Endpoint
  <2> QED
    BY <2>1, <2>2 DEF BringUpInv, ObjectsInv, Shows, GatewayInv, OpeningInv, ListsInv,
       EndpointsOf
<1>2. TypeOK /\ BringUpInv /\ [BringUpNext]_allVars => BringUpInv'
  BY BringUpStep
<1> QED
  BY <1>1, <1>2, BringUpTypes, PTL DEF BringUpSpec

\* CAPI is let go only on a cluster that is connected in both directions, for
\* any number of links and addresses, whatever is stale and whenever the
\* process dies (ReconcileWcToMcIngress, then the gate check and its patch).
THEOREM ConnectedSafe ==
    ASSUME Undisturbed
    PROVE  BringUpSpec => ConnectedBeforeRelease
<1>1. BringUpInv /\ [BringUpNext]_allVars
      => [(kcp.paused /\ ~kcp'.paused) =>
            /\ wc[New].gateway /\ gw[New] # NoIP
            /\ LBType[New] = "Internal" =>
                    \A l \in Links : pe[EndpointFor(New, l)] # NoIP]_allVars
  <2> SUFFICES ASSUME BringUpInv, [BringUpNext]_allVars, kcp.paused, ~kcp'.paused
               PROVE  Up /\ wc[New].gateway
    BY DEF Up, LinksUp
  <2>1. GateStep
    BY InfraIsNext, DieKeeps DEF BringUpNext, allVars, gateVars
  <2>2. Up
    BY <2>1, GateKeeps DEF BringUpInv, OpeningInv
  <2> QED
    BY <2>2 DEF Up, BringUpInv, GatewayInv
<1> QED
  BY <1>1, BringUpInvariant, PTL DEF BringUpSpec, ConnectedBeforeRelease

\* The composition keeps ReadyInv, although the process may die while only the
\* other controller is at work.
LEMMA BringUpReadyStep ==
    ASSUME TypeOK, ReadyInv, [BringUpNext]_allVars
    PROVE  ReadyInv'
<1>1. CASE InfraStep \/ UNCHANGED allVars
  BY <1>1, InfraIsNext, ReadyStep DEF allVars
<1>2. CASE GateStep
  <2>1. /\ UNCHANGED <<wc, wcCache, pc, req, wcOrig, wcCopy, todo, parts>>
        /\ faults' = 0 => faults = 0
    BY <1>2, GateApart DEF InfraKept, api, cache, locals, copies, Fault, TypeOK
  <2>2. ReleaseInv'
    BY <2>1 DEF ReadyInv, HistoryInv, ReleaseInv, CopyInv, HoldPending, Leaving, Held
  <2>3. HistoryInv'
    BY <2>1, <2>2 DEF ReadyInv, HistoryInv, Held
  <2> QED
    BY <2>1, <2>3 DEF ReadyInv
<1>3. CASE Die
  <2>1. /\ wc' = wc /\ wcCache' = wc /\ pc' = "idle" /\ faults' # 0
    BY <1>3, DieKeeps DEF TypeOK
  <2>2. ReleaseInv'
    BY <2>1 DEF ReleaseInv, CopyInv, HoldPending, Leaving, Held
  <2>3. HistoryInv'
    BY <2>1, <2>2 DEF ReadyInv, HistoryInv, Holding, Held, Keeps
  <2> QED
    BY <2>1, <2>3 DEF ReadyInv
<1> QED
  BY <1>1, <1>2, <1>3 DEF BringUpNext

\* As long as nothing has failed, the condition for which the control plane
\* waits is on the cluster only together with all that it announces, also
\* next to the controller that waits for it (one process, one cache).
THEOREM BringUpReady == BringUpSpec => []ReadyAfterPublished
<1>1. BringUpInit => ReadyInv
  BY DEF BringUpInit, Init, Start, ReadyInv, HistoryInv, ReleaseInv, CopyInv, HoldPending,
     Leaving, Held, Fresh, Holding
<1>2. TypeOK /\ ReadyInv /\ [BringUpNext]_allVars => ReadyInv'
  BY BringUpReadyStep
<1> QED
  BY <1>1, <1>2, BringUpTypes, ReadyMeans, PTL DEF BringUpSpec
=============================================================================
