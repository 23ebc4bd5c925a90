---------------------- MODULE EndpointLifecycle_proofs ----------------------
(***************************************************************************)
(* AzureClusterReconciler implements EndpointLifecycle, for any number of  *)
(* clusters, links, creations, deletions, edits, failures and crashes, for *)
(* any stale reads and any names of resource groups.                       *)
(***************************************************************************)
EXTENDS Published_proofs

-----------------------------------------------------------------------------
(* LifecycleInv is inductive.                                              *)

\* Opening the scopes takes the list as it was read, without the endpoints to
\* be removed if the cluster is in deletion, and reports nothing yet.
LEMMA OpenList ==
    ASSUME TypeOK, CleanInv, Open
    PROVE  /\ wcOrig.deleting =>
                EndpointsOf(req, mcCopy') = EndpointsOf(req, mcCache) \ Removable(req)'
           /\ ~wcOrig.deleting => mcCopy' = mcCache
           /\ pc' \in {"api", "ingress"} => outcome' = outcome
<1>1. /\ KeptByOpen /\ wcCopy = wcOrig /\ req \in WorkloadClusters
      /\ mcCache \in SUBSET Endpoint
  BY OpenStep DEF KeptByOpen, TypeOK, CleanInv, CopyInv
<1>2. Removable(req)' = {e \in EndpointsOf(req, mcCache) :
                            e.link \in GetPrivateLinksWithAllowedSubscription(wcOrig)}
  BY <1>1 DEF Removable, KeptByOpen, ReadMC
<1>3. ASSUME wcOrig.deleting
      PROVE  EndpointsOf(req, mcCopy') = EndpointsOf(req, mcCache) \ Removable(req)'
  <2>1. mcCopy' = IF LBType[req] = "Internal"
                  THEN DeleteMcToWcApi(req, wcOrig, mcCache) ELSE mcCache
    BY <1>1, <1>3 DEF Open, ReconcilePublic, NoAllowedLinks, ReadMC,
       PrivateLinksNotReady, ReconcileMcToWcApi, OpenNormal, ReconcileDelete
  <2>2. CASE LBType[req] = "Internal"
    <3>1. \A e \in EndpointsOf(req, mcCache) : e = EndpointFor(req, e.link)
      BY <1>1 DEF EndpointsOf, EndpointFor, Endpoint
    <3>2. \A l : EndpointFor(req, l).link = l /\ EndpointFor(req, l).wc = req
      BY DEF EndpointFor
    <3>3. \A e \in EndpointsOf(req, mcCache) :
            e \in mcCopy' <=> e.link \notin GetPrivateLinksWithAllowedSubscription(wcOrig)
      BY <2>1, <2>2, <3>1, <3>2 DEF DeleteMcToWcApi, EndpointsOf
    <3>4. mcCopy' \subseteq mcCache
      BY <2>1, <2>2 DEF DeleteMcToWcApi
    <3> QED
      BY <1>2, <3>3, <3>4 DEF EndpointsOf
  <2>3. CASE LBType[req] # "Internal"
    <3>1. EndpointsOf(req, mcCache) = {}
      BY <2>3 DEF CleanInv, EndpointsOf
    <3> QED
      BY <2>1, <2>3, <3>1
  <2> QED
    BY <2>2, <2>3
<1>4. ~wcOrig.deleting => mcCopy' = mcCache
  BY <1>1 DEF Open, ReconcilePublic, NoAllowedLinks, ReadMC,
     PrivateLinksNotReady, ReconcileMcToWcApi, OpenNormal, ReconcileDelete
<1>5. pc' \in {"api", "ingress"} => outcome' = outcome
  BY DEF Open, ReconcilePublic, NoAllowedLinks, PrivateLinksNotReady,
     ReconcileMcToWcApi, ReconcileDelete, ContinueWithIngress, CloseWith, CloseWithError
<1> QED
  BY <1>3, <1>4, <1>5

\* What the body of Reconcile does to the endpoints to the cluster at hand and
\* to the address of its API server.
BodyConnects ==
    /\ \A e \in EndpointsOf(req, mcCopy) : e.link \in wcOrig.privateLinks => e \in mcCopy'
    /\ \A e \in EndpointsOf(req, mcCopy') \ mcCopy :
            e.link \in GetPrivateLinksWithAllowedSubscription(wcOrig)
    /\ wcCopy'.apiServerIP # wcCopy.apiServerIP =>
            wcCopy'.apiServerIP # NoIP /\ EndpointsOf(req, mcCopy') # {}
    /\ wcCopy'.apiServerIP = wcCopy.apiServerIP =>
            (EndpointsOf(req, mcCopy) # {} => EndpointsOf(req, mcCopy') # {})
    /\ pc' \in {"api", "ingress"} => outcome' = outcome

\* It adds endpoints of usable links, takes an address only with the endpoint,
\* and removes endpoints without a link when it has those with one.
LEMMA BodyList ==
    ASSUME TypeOK, CleanInv, PublishInv, Body
    PROVE  BodyConnects
<1>1. /\ pc # "idle" /\ req \in WorkloadClusters /\ wcCopy \in AzureCluster
      /\ mcCopy \in SUBSET Endpoint /\ wcCopy.privateLinks = wcOrig.privateLinks
      /\ GetPrivateLinksWithAllowedSubscription(wcCopy)
            = GetPrivateLinksWithAllowedSubscription(wcOrig)
  BY BodyStep DEF KeptByBody, TypeOK, CleanInv, GetPrivateLinksWithAllowedSubscription
<1>2. ASSUME NEW l \in Links, VisitLink(l)
      PROVE  /\ mcCopy' = mcCopy \cup {EndpointFor(req, l)}
             /\ EndpointFor(req, l) \in EndpointsOf(req, mcCopy')
             /\ \A e \in EndpointsOf(req, mcCopy') \ mcCopy :
                    e.link \in GetPrivateLinksWithAllowedSubscription(wcOrig)
  <2>1. mcCopy' = mcCopy \cup {EndpointFor(req, l)} /\ l \in todo /\ pc = "api"
    BY <1>2 DEF VisitLink, AddPrivateEndpointSpec
  <2>2. l \in GetPrivateLinksWithAllowedSubscription(wcOrig)
    BY <1>1, <2>1 DEF PublishInv
  <2>3. EndpointFor(req, l).wc = req /\ EndpointFor(req, l).link = l
    BY DEF EndpointFor
  <2> QED
    BY <2>1, <2>2, <2>3 DEF EndpointsOf
<1>3. ASSUME NEW l \in Links, EndpointFound(l) PROVE BodyConnects
  <2>1. VisitLink(l) /\ pe[EndpointFor(req, l)] # NoIP
    BY <1>3 DEF EndpointFound
  <2>2. wcCopy'.apiServerIP = pe[EndpointFor(req, l)] /\ outcome' = outcome
    BY <1>1, <1>3 DEF EndpointFound, AzureCluster
  <2> QED
    BY <1>2, <2>1, <2>2 DEF BodyConnects, EndpointsOf
<1>4. ASSUME NEW l \in Links, EndpointPending(l) \/ EndpointLookupFails(l) PROVE BodyConnects
  <2>1. VisitLink(l) /\ wcCopy' = wcCopy /\ pc' = "closeMC"
    BY <1>4 DEF EndpointPending, EndpointLookupFails, CloseWith, CloseWithError
  <2> QED
    BY <1>2, <2>1 DEF BodyConnects, EndpointsOf
<1>5. CASE LinksVisited
  <2>1. /\ mcCopy' = RemoveUnusedEndpoints(req, wcCopy, mcCopy) /\ wcCopy' = wcCopy
        /\ pc = "api" /\ todo = {} /\ (pc' \in {"api", "ingress"} => outcome' = outcome)
    BY <1>5 DEF LinksVisited, ContinueWithIngress, CloseWith
  <2>2. mcCopy' \subseteq mcCopy
    BY <2>1 DEF RemoveUnusedEndpoints
  <2>3. \A e \in EndpointsOf(req, mcCopy) : e.link \in wcOrig.privateLinks => e \in mcCopy'
    BY <1>1, <2>1 DEF RemoveUnusedEndpoints, LookupPrivateLink, EndpointsOf
  <2>4. EndpointsOf(req, mcCopy') # {}
    <3>1. PICK l \in GetPrivateLinksWithAllowedSubscription(wcCopy) :
                EndpointFor(req, l) \in mcCopy
      BY <2>1 DEF PublishInv, Connected
    <3>2. EndpointFor(req, l) \in EndpointsOf(req, mcCopy) /\ EndpointFor(req, l).link = l
      BY <3>1 DEF EndpointsOf, EndpointFor
    <3>3. l \in wcOrig.privateLinks
      BY <1>1 DEF GetPrivateLinksWithAllowedSubscription
    <3> QED
      BY <2>3, <3>2, <3>3 DEF EndpointsOf
  <2> QED
    BY <2>1, <2>2, <2>3, <2>4 DEF BodyConnects, EndpointsOf
<1>6. CASE GatewayFound \/ GatewayPending \/ GatewayLookupFails
  <2>1. mcCopy' = mcCopy /\ pc' = "closeMC"
    BY <1>6 DEF GatewayFound, GatewayPending, GatewayLookupFails, VisitGateway,
       CloseWith, CloseWithError
  <2>2. wcCopy'.apiServerIP = wcCopy.apiServerIP
    BY <1>1, <1>6 DEF GatewayFound, GatewayPending, GatewayLookupFails, AzureCluster
  <2> QED
    BY <2>1, <2>2 DEF BodyConnects, EndpointsOf
<1> QED
  BY <1>3, <1>4, <1>5, <1>6 DEF Body

\* Every step keeps LifecycleInv.
LEMMA LifecycleStep ==
    ASSUME TypeOK, CleanInv, PublishInv, LifecycleInv, [Next]_vars
    PROVE  LifecycleInv'
<1> USE DEF LifecycleInv
<1>0. CopyInv
  BY DEF CleanInv
<1>1. ASSUME NEW w \in WorkloadClusters, GetWorkloadCluster(w) PROVE LifecycleInv'
  BY <1>1 DEF GetWorkloadCluster
<1>2. CASE Open
  <2>1. /\ KeptByOpen /\ wcCopy = wcOrig /\ wcCopy'.apiServerIP = wcCopy.apiServerIP
    BY <1>0, <1>2, OpenStep, OpenFields DEF KeptByOpen, CopyInv, SameFields
  <2> QED
    BY <1>2, <2>1, OpenList DEF KeptByOpen, ReadMC, EndpointsOf
<1>3. CASE Body
  <2>1. KeptByBody /\ BodyConnects /\ ~wcOrig.deleting
    BY <1>0, <1>3, BodyStep, BodyList DEF KeptByBody, CopyInv
  <2>2. /\ UNCHANGED <<req, wcOrig, mcOrig>> /\ pc \in {"api", "ingress"}
        /\ pc' \in {"api", "ingress", "closeMC"}
    BY <2>1 DEF KeptByBody
  <2>3. \A e \in EndpointsOf(req, mcOrig) : e.link \in wcOrig.privateLinks => e \in mcCopy'
    BY <2>1, <2>2 DEF BodyConnects, EndpointsOf
  <2>4. \A e \in EndpointsOf(req, mcCopy') \ mcOrig :
            e.link \in GetPrivateLinksWithAllowedSubscription(wcOrig)
    BY <2>1, <2>2 DEF BodyConnects, EndpointsOf
  <2>5. wcCopy'.apiServerIP # wcOrig.apiServerIP =>
            wcCopy'.apiServerIP # NoIP /\ EndpointsOf(req, mcCopy') # {}
    BY <2>1, <2>2 DEF BodyConnects
  <2> QED
    BY <2>1, <2>2, <2>3, <2>4, <2>5 DEF BodyConnects
<1>4. CASE WriteMC
  <2>1. /\ pc = "closeMC" /\ pc' = "closeWC" /\ UNCHANGED <<req, wcOrig, wcCopy, mcOrig>>
        /\ mc' = Merged(mcOrig, mcCopy, mc) \/ outcome' = "error"
    BY <1>4 DEF WriteMC, PatchMC, PatchMCFails, copies
  <2>2. EndpointsOf(req, mcCopy) # {} /\ mc' = Merged(mcOrig, mcCopy, mc)
        => EndpointsOf(req, mc' \cup mcOrig) # {}
    BY DEF Merged, EndpointsOf
  <2> QED
    BY <2>1, <2>2
<1>5. CASE Leave
  BY <1>5 DEF Leave, ReadFails, Return, Crash, ClearLocals
<1>6. ASSUME NEW part \in PatchParts, WriteWC(part) PROVE LifecycleInv'
  BY <1>6 DEF WriteWC, PatchWC, PatchWCFails, copies
<1>7. CASE Sync \/ (\E e \in Endpoint : CapzEndpoint(e)) \/ UNCHANGED vars
  BY <1>7 DEF Sync, CapzEndpoint, CapzCreateEndpoint, CapzDeleteEndpoint, vars,
     api, locals, copies, Removable
<1>8. ASSUME NEW w \in WorkloadClusters, WrittenByOthers(w) PROVE LifecycleInv'
  BY <1>8, OthersStep DEF KeptByOthers, Removable
<1> QED
  BY <1>1, <1>2, <1>3, <1>4, <1>5, <1>6, <1>7, <1>8, Groups

-----------------------------------------------------------------------------
(* The steps of the two specifications.                                    *)

\* The API server of a stored AzureCluster is announced.
Announced(w) == wc[w] # Absent /\ wc[w].apiServerIP # NoIP

Failed == outcome = "error"

\* The job that the running reconciliation is.
Job ==
    [ wc      |-> req,
      list    |-> LinksOf(mcOrig),
      links   |-> wcOrig.privateLinks,
      usable  |-> GetPrivateLinksWithAllowedSubscription(wcOrig),
      leaving |-> wcOrig.deleting,
      failed  |-> Failed ]

\* What the abstract state says of one cluster.
LEMMA StateOf ==
    ASSUME NEW w \in WorkloadClusters
    PROVE  /\ wc[w] = Absent => phase[w] = "absent"
           /\ wc[w] # Absent /\ wc[w].deleting => phase[w] = "deleting"
           /\ wc[w] # Absent /\ ~wc[w].deleting => phase[w] = "live"
           /\ Held(w) => w \in held
           /\ ~Held(w) => w \notin held
           /\ Announced(w) => w \in announced
           /\ ~Announced(w) => w \notin announced
BY DEF phase, held, announced, Announced

\* A write to one AzureCluster is a step of that cluster in the abstract state.
LEMMA BecomesOne ==
    ASSUME NEW w \in WorkloadClusters, mc' = mc, mcCache' = mcCache,
           \A v \in WorkloadClusters \ {w} : wc'[v] = wc[v]
    PROVE  /\ phase' = [phase EXCEPT ![w] = phase'[w]]
           /\ Held(w)' => held' = held \cup {w}
           /\ ~Held(w)' => held' = held \ {w}
           /\ Announced(w)' => announced' = announced \cup {w}
           /\ ~Announced(w)' => announced' = announced \ {w}
           /\ connected' = connected /\ seen' = seen
<1>1. phase' = [phase EXCEPT ![w] = phase'[w]]
  BY DEF phase
<1>2. \A v \in WorkloadClusters \ {w} : Held(v)' <=> Held(v)
  BY DEF Held
<1>3. \A v \in WorkloadClusters \ {w} : Announced(v)' <=> Announced(v)
  BY DEF Announced
<1>4. held = {v \in WorkloadClusters : Held(v)} /\ held' = {v \in WorkloadClusters : Held(v)'}
  BY DEF held
<1>5. announced = {v \in WorkloadClusters : Announced(v)}
      /\ announced' = {v \in WorkloadClusters : Announced(v)'}
  BY DEF announced, Announced
<1>6. connected' = connected /\ seen' = seen
  BY DEF connected, seen, LinksOf
<1> QED
  BY <1>1, <1>2, <1>3, <1>4, <1>5, <1>6

\* A write that leaves the cluster in its phase, held and announced as before
\* changes none of this in the abstract state.
LEMMA BecomesSame ==
    ASSUME NEW w \in WorkloadClusters, mc' = mc, mcCache' = mcCache,
           \A v \in WorkloadClusters \ {w} : wc'[v] = wc[v],
           wc[w] = Absent <=> wc'[w] = Absent,
           wc[w] # Absent => wc'[w].deleting = wc[w].deleting,
           Held(w)' <=> Held(w), Announced(w)' <=> Announced(w)
    PROVE  UNCHANGED <<phase, held, announced, connected, seen>>
<1>1. phase' = phase
  BY DEF phase
<1>2. held' = held
  BY BecomesOne, StateOf
<1>3. announced' = announced
  BY BecomesOne, StateOf
<1> QED
  BY <1>1, <1>2, <1>3, BecomesOne

\* While a reconciliation goes on the same job does, or fails.
LEMMA JobGoesOn ==
    ASSUME pc \notin {"idle", "getMC"}, pc' \notin {"idle", "getMC"},
           UNCHANGED <<req, wcOrig, mcOrig>>, outcome = "error" => outcome' = "error"
    PROVE  jobs = {Job} /\ Lifecycle!GoesOn(Job)
<1>1. jobs = {Job}
  BY DEF jobs, Job, Failed
<1>2. jobs' = {Job'}
  BY DEF jobs, Job, Failed
<1>3. /\ LinksOf(mcOrig)' = LinksOf(mcOrig)
      /\ GetPrivateLinksWithAllowedSubscription(wcOrig)'
            = GetPrivateLinksWithAllowedSubscription(wcOrig)
  BY DEF LinksOf, GetPrivateLinksWithAllowedSubscription
<1>4. CASE outcome' = "error"
  <2>1. (outcome' = "error") = TRUE
    BY <1>4
  <2>2. Job' = [ wc |-> req, list |-> LinksOf(mcOrig), links |-> wcOrig.privateLinks,
                 usable |-> GetPrivateLinksWithAllowedSubscription(wcOrig),
                 leaving |-> wcOrig.deleting, failed |-> TRUE ]
    BY <1>3, <2>1 DEF Job, Failed
  <2>3. [Job EXCEPT !.failed = TRUE]
            = [ wc |-> req, list |-> LinksOf(mcOrig), links |-> wcOrig.privateLinks,
                usable |-> GetPrivateLinksWithAllowedSubscription(wcOrig),
                leaving |-> wcOrig.deleting, failed |-> TRUE ]
    <3>1. \A f, g : [[ wc |-> req, list |-> LinksOf(mcOrig), links |-> wcOrig.privateLinks,
                       usable |-> GetPrivateLinksWithAllowedSubscription(wcOrig),
                       leaving |-> wcOrig.deleting, failed |-> f ] EXCEPT !.failed = g]
                   = [ wc |-> req, list |-> LinksOf(mcOrig), links |-> wcOrig.privateLinks,
                       usable |-> GetPrivateLinksWithAllowedSubscription(wcOrig),
                       leaving |-> wcOrig.deleting, failed |-> g ]
      OBVIOUS
    <3> QED
      BY <3>1, Zenon DEF Job
  <2> QED
    BY <1>1, <1>2, <2>2, <2>3 DEF Lifecycle!GoesOn
<1>5. CASE outcome' # "error"
  <2>1. (outcome' = "error") = (outcome = "error")
    BY <1>5
  <2>2. Job' = Job
    BY <1>3, <2>1 DEF Job, Failed
  <2> QED
    BY <1>1, <1>2, <2>2 DEF Lifecycle!GoesOn
<1> QED
  BY <1>4, <1>5, <1>1

\* The links that endpoints of one cluster connect to.
LEMMA LinksAre ==
    ASSUME NEW w \in WorkloadClusters, NEW eps \in SUBSET Endpoint
    PROVE  /\ LinksOf(eps)[w] = {l \in Links : EndpointFor(w, l) \in eps}
           /\ LinksOf(eps)[w] = {e.link : e \in EndpointsOf(w, eps)}
           /\ \A e \in EndpointsOf(w, eps) : e = EndpointFor(w, e.link) /\ e.link \in Links
           /\ \A l \in Links : /\ EndpointFor(w, l) \in eps
                                     <=> EndpointFor(w, l) \in EndpointsOf(w, eps)
                               /\ EndpointFor(w, l).link = l
<1>1. \A e \in EndpointsOf(w, eps) : e = EndpointFor(w, e.link) /\ e.link \in Links
  BY DEF EndpointsOf, EndpointFor, Endpoint
<1>2. \A l \in Links : /\ EndpointFor(w, l) \in eps <=> EndpointFor(w, l) \in EndpointsOf(w, eps)
                       /\ EndpointFor(w, l).link = l
  BY DEF EndpointsOf, EndpointFor
<1>3. LinksOf(eps)[w] = {l \in Links : EndpointFor(w, l) \in eps}
  BY DEF LinksOf
<1>4. LinksOf(eps)[w] = {e.link : e \in EndpointsOf(w, eps)}
  BY <1>1, <1>2, <1>3 DEF EndpointsOf
<1> QED
  BY <1>1, <1>2, <1>3, <1>4

\* What one request of the WC's patch does to the address and the deletion.
LEMMA AfterPatchAddress ==
    ASSUME NEW before \in AzureCluster, NEW after \in AzureCluster,
           NEW current \in AzureCluster, NEW part \in PatchParts,
           NEW stored, stored = AfterPatch(part, before, after, current)
    PROVE  /\ stored # Absent =>
                \/ stored.apiServerIP = current.apiServerIP
                \/ /\ after.apiServerIP # before.apiServerIP
                   /\ stored.apiServerIP = after.apiServerIP
                   /\ stored.finalizers = Merged(before.finalizers, after.finalizers,
                                                 current.finalizers)
           /\ (/\ "operator" \notin current.finalizers
               /\ stored # Absent /\ "operator" \in stored.finalizers)
              => ~current.deleting
           /\ stored = Absent => current.deleting
<1>1. current # Absent
  BY AbsentAssumption
<1>2. CASE part = "status"
  <2>1. stored = PatchedStatus(before, after, current)
    BY <1>1, <1>2 DEF AfterPatch
  <2>2. stored \in AzureCluster /\ stored.finalizers = current.finalizers
        /\ stored.apiServerIP = current.apiServerIP
    BY <2>1, PatchedType DEF PatchedStatus, AzureCluster
  <2> QED
    BY <2>2, AbsentAssumption
<1>3. CASE part = "object"
  <2> DEFINE p == PatchedObject(before, after, current)
  <2>1. /\ p \in AzureCluster
        /\ p.deleting = current.deleting
        /\ p.finalizers = Merged(before.finalizers, after.finalizers, current.finalizers)
        /\ p.apiServerIP = Merged(before.apiServerIP, after.apiServerIP, current.apiServerIP)
    BY PatchedType DEF PatchedObject, AzureCluster
  <2> HIDE DEF p
  <2>2. stored = IF Accepted(current, p) THEN Stored(p) ELSE current
    BY <1>1, <1>3 DEF AfterPatch, p
  <2>3. \/ stored = current
        \/ stored = p /\ (current.deleting => p.finalizers \subseteq current.finalizers)
        \/ stored = Absent /\ p.deleting
    BY <2>2 DEF Stored, Accepted
  <2>4. p.apiServerIP = current.apiServerIP
        \/ (after.apiServerIP # before.apiServerIP /\ p.apiServerIP = after.apiServerIP)
    BY <2>1 DEF Merged
  <2> QED
    BY <1>1, <2>1, <2>3, <2>4, AbsentAssumption
<1> QED
  BY <1>2, <1>3 DEF PatchParts

\* The writes of users and CAPZ create a cluster, delete it, let it vanish or
\* are about something else.
LEMMA OthersFollow ==
    ASSUME TypeOK, NEW w \in WorkloadClusters, WrittenByOthers(w)
    PROVE  [Lifecycle!Next]_Lifecycle!lifecycle
<1> DEFINE s == wc'[w]
<1>1. /\ KeptByOthers(w)
      /\ wc \in [WorkloadClusters -> AzureCluster \cup {Absent}]
  BY OthersStep DEF TypeOK
<1>2. /\ mc' = mc /\ mcCache' = mcCache /\ jobs' = jobs
      /\ \A v \in WorkloadClusters \ {w} : wc'[v] = wc[v]
      /\ Held(w) <=> Held(w)'
  BY <1>1 DEF KeptByOthers, jobs, LinksOf, GetPrivateLinksWithAllowedSubscription
<1>3. ASSUME wc[w] \in AzureCluster, s \in AzureCluster, s.deleting = wc[w].deleting,
             s.apiServerIP = wc[w].apiServerIP
      PROVE  UNCHANGED Lifecycle!lifecycle
  BY <1>2, <1>3, AbsentAssumption, BecomesSame DEF Announced, Lifecycle!lifecycle
<1>4. CASE Create(w)
  <2>1. wc[w] = Absent /\ s = NewAzureCluster
    BY <1>1, <1>4 DEF Create
  <2>2. s # Absent /\ ~s.deleting /\ s.apiServerIP = NoIP /\ "operator" \notin s.finalizers
    <3>1. /\ ~NewAzureCluster.deleting /\ NewAzureCluster.apiServerIP = NoIP
          /\ "operator" \notin NewAzureCluster.finalizers
      BY DEF NewAzureCluster
    <3> QED
      BY <2>1, <3>1, NewType, AbsentAssumption
  <2>3. ~Held(w)' /\ ~Announced(w)' /\ phase'[w] = "live" /\ phase[w] = "absent"
    BY <2>1, <2>2, StateOf DEF Held, Announced, phase
  <2>4. Lifecycle!Create(w)
    BY <1>2, <2>3, BecomesOne DEF Lifecycle!Create, Lifecycle!Becomes
  <2> QED
    BY <1>2, <2>4 DEF Lifecycle!Next
<1>5. CASE Delete(w)
  <2> DEFINE c == Marked(wc[w])
  <2>1. /\ wc[w] \in AzureCluster /\ c \in AzureCluster /\ c.deleting
        /\ ~wc[w].deleting /\ c.apiServerIP = wc[w].apiServerIP
        /\ s = Stored(c)
    BY <1>1, <1>5 DEF Delete, AzureCluster, Marked
  <2> HIDE DEF c, s
  <2>2. phase[w] = "live" /\ (Held(w) <=> w \in held) /\ (Announced(w) <=> w \in announced)
    BY <2>1, AbsentAssumption, StateOf
  <2>3. CASE s = Absent
    <3>1. ~Held(w)' /\ ~Announced(w)' /\ phase'[w] = "absent"
      BY <2>3 DEF Held, Announced, phase, s
    <3>2. Lifecycle!Delete(w)
      BY <1>2, <2>2, <3>1, BecomesOne DEF Lifecycle!Delete, Lifecycle!Becomes
    <3> QED
      BY <1>2, <3>2 DEF Lifecycle!Next
  <2>4. CASE s = c
    <3>1. (Announced(w)' <=> Announced(w)) /\ phase'[w] = "deleting"
      BY <2>1, <2>4, AbsentAssumption DEF Announced, phase, s
    <3>2. Lifecycle!Delete(w)
      BY <1>2, <2>2, <3>1, BecomesOne DEF Lifecycle!Delete, Lifecycle!Becomes
    <3> QED
      BY <1>2, <3>2 DEF Lifecycle!Next
  <2> QED
    BY <2>1, <2>3, <2>4 DEF Stored
<1>6. ASSUME NEW links \in SUBSET Links, NEW allowed \in SUBSET links,
             EditPrivateLinks(w, links, allowed)
      PROVE  UNCHANGED Lifecycle!lifecycle
  BY <1>1, <1>3, <1>6 DEF EditPrivateLinks, AzureCluster
<1>7. CASE CapzAddFinalizer(w)
  BY <1>1, <1>3, <1>7 DEF CapzAddFinalizer, AzureCluster, Finalizers
<1>8. CASE CapzPrivateLinksReady(w)
  BY <1>1, <1>3, <1>8 DEF CapzPrivateLinksReady, AzureCluster
<1>9. CASE CapzDeleteCluster(w)
  <2> DEFINE c == [wc[w] EXCEPT !.finalizers = @ \ {"capz"}]
  <2>1. /\ wc[w] \in AzureCluster /\ c \in AzureCluster /\ wc[w].deleting
        /\ c.deleting = wc[w].deleting /\ c.apiServerIP = wc[w].apiServerIP
        /\ s = Stored(c)
    BY <1>1, <1>9 DEF CapzDeleteCluster, AzureCluster, Finalizers
  <2> HIDE DEF c, s
  <2>2. CASE s = Absent
    <3>1. ~Held(w)' /\ ~Announced(w)' /\ phase'[w] = "absent"
      BY <2>2 DEF Held, Announced, phase, s
    <3>2. phase[w] = "deleting" /\ w \notin held
      BY <1>2, <2>1, <3>1, AbsentAssumption, StateOf
    <3>3. Lifecycle!Vanish(w)
      BY <1>2, <3>1, <3>2, BecomesOne DEF Lifecycle!Vanish, Lifecycle!Becomes
    <3> QED
      BY <1>2, <3>3 DEF Lifecycle!Next
  <2>3. CASE s = c
    BY <1>3, <2>1, <2>3
  <2> QED
    BY <2>1, <2>2, <2>3 DEF Stored
<1>10. CASE CapzCreateGateway(w)
  <2>1. s = wc[w]
    BY <1>10 DEF CapzCreateGateway, api
  <2> QED
    BY <1>2, <2>1, BecomesSame DEF Announced, Lifecycle!lifecycle
<1> QED
  BY <1>4, <1>5, <1>6, <1>7, <1>8, <1>9, <1>10 DEF WrittenByOthers, CapzCluster

\* Writing the MC's endpoints is a write of the list by the job, unless it
\* changes nothing.
LEMMA WriteMCFollows ==
    ASSUME TypeOK, ForeignInv, LifecycleInv, WriteMC
    PROVE  [Lifecycle!Next]_Lifecycle!lifecycle
<1>1. /\ pc = "closeMC" /\ pc' = "closeWC" /\ mc' \in {mc, mcCopy}
      /\ UNCHANGED <<wc, mcCache, req, wcOrig, mcOrig>>
      /\ outcome = "error" => outcome' = "error"
  BY DEF WriteMC, PatchMC, PatchMCFails, Merged, cache, copies
<1>2. /\ req \in WorkloadClusters /\ mcOrig \in SUBSET Endpoint /\ mcCopy \in SUBSET Endpoint
  BY <1>1 DEF TypeOK
<1>3. jobs = {Job} /\ Lifecycle!GoesOn(Job)
  BY <1>1, JobGoesOn
<1>4. /\ Job.wc = req /\ Job.list = LinksOf(mcOrig) /\ Job.links = wcOrig.privateLinks
      /\ Job.usable = GetPrivateLinksWithAllowedSubscription(wcOrig)
      /\ Job.leaving = wcOrig.deleting
  BY DEF Job
<1>5. UNCHANGED <<phase, held, announced, seen>>
  BY <1>1 DEF phase, held, announced, seen, LinksOf, Held
<1>6. CASE mc' = mc
  <2>1. connected' = connected
    BY <1>6 DEF connected, LinksOf
  <2>2. Lifecycle!Fail(Job)
    BY <1>3, <1>5, <2>1 DEF Lifecycle!Fail
  <2> QED
    BY <1>3, <2>2 DEF Lifecycle!Next
<1>7. CASE mc' = mcCopy
  <2>1. connected' = LinksOf(mcCopy)
    BY <1>7 DEF connected, LinksOf
  <2>2. connected' \in [WorkloadClusters -> SUBSET Links]
    BY <2>1 DEF LinksOf
  <2>3. ASSUME wcOrig.deleting
        PROVE  connected'[req] = LinksOf(mcOrig)[req]
                                    \ GetPrivateLinksWithAllowedSubscription(wcOrig)
    <3>1. EndpointsOf(req, mcCopy) = EndpointsOf(req, mcOrig) \ Removable(req)
      BY <1>1, <2>3 DEF LifecycleInv
    <3>2. ASSUME NEW l \in Links
          PROVE  EndpointFor(req, l) \in mcCopy
                    <=> /\ EndpointFor(req, l) \in mcOrig
                        /\ l \notin GetPrivateLinksWithAllowedSubscription(wcOrig)
      BY <1>2, <3>1, LinksAre DEF Removable
    <3> QED
      BY <1>2, <2>1, <3>2, LinksAre
  <2>4. ASSUME ~wcOrig.deleting
        PROVE  /\ LinksOf(mcOrig)[req] \cap wcOrig.privateLinks \subseteq connected'[req]
               /\ connected'[req] \subseteq LinksOf(mcOrig)[req]
                                    \cup GetPrivateLinksWithAllowedSubscription(wcOrig)
    <3>1. /\ \A e \in EndpointsOf(req, mcOrig) :
                    e.link \in wcOrig.privateLinks => e \in mcCopy
          /\ \A e \in EndpointsOf(req, mcCopy) \ mcOrig :
                    e.link \in GetPrivateLinksWithAllowedSubscription(wcOrig)
      BY <1>1, <2>4 DEF LifecycleInv
    <3>2. \A l \in Links : /\ EndpointFor(req, l) \in mcOrig /\ l \in wcOrig.privateLinks
                                => EndpointFor(req, l) \in mcCopy
                           /\ EndpointFor(req, l) \in mcCopy =>
                                \/ EndpointFor(req, l) \in mcOrig
                                \/ l \in GetPrivateLinksWithAllowedSubscription(wcOrig)
      BY <1>2, <3>1, LinksAre
    <3> QED
      BY <1>2, <2>1, <3>2, LinksAre
  <2>5. ASSUME NEW v \in WorkloadClusters \ {req}
        PROVE  \/ connected'[v] = LinksOf(mcOrig)[v]
               \/ ~wcOrig.deleting /\ <<req, v>> \in RGPrefix /\ connected'[v] = {}
    <3>1. \/ EndpointsOf(v, mcCopy) = EndpointsOf(v, mcOrig)
          \/ /\ <<req, v>> \in RGPrefix /\ ~wcOrig.deleting
             /\ EndpointsOf(v, mcCopy) = {}
      BY <1>1 DEF ForeignInv
    <3>2. /\ connected'[v] = {e.link : e \in EndpointsOf(v, mcCopy)}
          /\ LinksOf(mcOrig)[v] = {e.link : e \in EndpointsOf(v, mcOrig)}
      BY <1>2, <2>1, LinksAre
    <3> QED
      BY <3>1, <3>2
  <2>6. Lifecycle!Write(Job)
    BY <1>3, <1>4, <1>5, <2>2, <2>3, <2>4, <2>5 DEF Lifecycle!Write
  <2> QED
    BY <1>3, <2>6 DEF Lifecycle!Next
<1> QED
  BY <1>1, <1>6, <1>7

\* A request of the WC's deferred call takes hold of the cluster, announces its
\* API server, releases it, or does nothing that the lifecycle is about.
LEMMA WriteWCFollows ==
    ASSUME TypeOK, CleanInv, HistoryInv, LifecycleInv, NEW part \in PatchParts, WriteWC(part)
    PROVE  [Lifecycle!Next]_Lifecycle!lifecycle
<1>0. PICK w \in WorkloadClusters : w = req
  BY WriteWCStep DEF CleanInv, KeptByWriteWC, TypeOK
<1> DEFINE s == wc'[w]
<1>1. /\ KeptByWriteWC(part) /\ CopyInv /\ pc = "closeWC"
      /\ wcOrig \in AzureCluster /\ wcCopy \in AzureCluster
      /\ wc \in [WorkloadClusters -> AzureCluster \cup {Absent}]
      /\ mc \in SUBSET Endpoint /\ mcOrig \in SUBSET Endpoint
  BY WriteWCStep DEF CleanInv, KeptByWriteWC, TypeOK
<1>2. /\ UNCHANGED <<mc, mcCache>>
      /\ \A v \in WorkloadClusters \ {w} : wc'[v] = wc[v]
      /\ Held(w) /\ ~Held(w)' => Leaving(wcOrig)
  BY <1>0, <1>1 DEF KeptByWriteWC, Held
<1>3. \/ wc' = wc
      \/ wc' = [wc EXCEPT ![w] = AfterPatch(part, wcOrig, wcCopy, wc[w])]
  BY <1>0 DEF WriteWC, PatchWC, PatchWCFails
<1>4. jobs = {Job} /\ Lifecycle!GoesOn(Job)
  <2>1. outcome = "error" => outcome' = "error"
    BY DEF WriteWC, PatchWC, PatchWCFails
  <2> QED
    BY <1>1, <2>1, JobGoesOn DEF KeptByWriteWC
<1>5. /\ Job.wc = w /\ Job.list = LinksOf(mcOrig)
      /\ Job.usable = GetPrivateLinksWithAllowedSubscription(wcOrig)
      /\ Job.leaving = wcOrig.deleting /\ (outcome = "error" => Job.failed)
  BY <1>0 DEF Job, Failed
<1>6. ASSUME UNCHANGED <<phase, held, announced, connected, seen>>
      PROVE  [Lifecycle!Next]_Lifecycle!lifecycle
  BY <1>4, <1>6 DEF Lifecycle!Fail, Lifecycle!Next
<1>7. CASE s = wc[w]
  BY <1>1, <1>2, <1>6, <1>7, BecomesSame DEF Held, Announced
<1>8. CASE s # wc[w]
  <2>1. s = AfterPatch(part, wcOrig, wcCopy, wc[w])
    BY <1>1, <1>3, <1>8
  <2>2. wc[w] \in AzureCluster /\ wc[w] # Absent
    BY <1>1, <1>8, <2>1, AbsentAssumption DEF AfterPatch
  <2> HIDE DEF s
  <2>3. /\ s # Absent => s.deleting = wc[w].deleting
        /\ s = Absent => wc[w].deleting
        /\ ~Held(w) /\ Held(w)' => ~wc[w].deleting
    <3>1. s # Absent => s.deleting = wc[w].deleting
      BY <1>1, <2>1, <2>2, AfterPatchFinalizer
    <3>2. /\ s = Absent => wc[w].deleting
          /\ (/\ "operator" \notin wc[w].finalizers
              /\ s # Absent /\ "operator" \in s.finalizers) => ~wc[w].deleting
      BY <1>1, <2>1, <2>2, AfterPatchAddress
    <3> QED
      BY <2>2, <3>1, <3>2 DEF Held, s
  <2>4. \/ s = Absent
        \/ s.apiServerIP = wc[w].apiServerIP
        \/ /\ wcCopy.apiServerIP # wcOrig.apiServerIP
           /\ s.apiServerIP = wcCopy.apiServerIP
           /\ s.finalizers = Merged(wcOrig.finalizers, wcCopy.finalizers, wc[w].finalizers)
    BY <1>1, <2>1, <2>2, AfterPatchAddress
  <2>5. ASSUME wcCopy.apiServerIP # wcOrig.apiServerIP
        PROVE  /\ wcCopy.apiServerIP # NoIP
               /\ connected[w] \cup LinksOf(mcOrig)[w] # {} \/ outcome = "error"
               /\ ~wcOrig.deleting
               /\ "operator" \in wcCopy.finalizers
               /\ "operator" \in wcOrig.finalizers => Held(w)
    <3>1. /\ wcCopy.apiServerIP # NoIP /\ ~wcOrig.deleting
          /\ EndpointsOf(w, mc \cup mcOrig) # {} \/ outcome = "error"
      BY <1>0, <1>1, <2>5 DEF LifecycleInv
    <3>2. EndpointsOf(w, mc \cup mcOrig) = EndpointsOf(w, mc) \cup EndpointsOf(w, mcOrig)
      BY DEF EndpointsOf
    <3>3. /\ connected[w] = {e.link : e \in EndpointsOf(w, mc)}
          /\ LinksOf(mcOrig)[w] = {e.link : e \in EndpointsOf(w, mcOrig)}
      BY <1>1, LinksAre DEF connected
    <3>4. "operator" \in wcCopy.finalizers
      BY <1>1, <3>1 DEF CopyInv
    <3>5. "operator" \in wcOrig.finalizers => Held(w)
      BY <1>0, <1>1, <3>1, AbsentAssumption DEF HistoryInv, Holding
    <3> QED
      BY <3>1, <3>2, <3>3, <3>4, <3>5
  <2>6. CASE Held(w) /\ ~Held(w)'
    <3>1. wcOrig.deleting /\ wc[w].deleting
      BY <1>0, <1>1, <1>2, <2>6 DEF Leaving, HistoryInv, ReleaseInv
    <3>2. connected[w] \cap LinksOf(mcOrig)[w]
            \cap GetPrivateLinksWithAllowedSubscription(wcOrig) = {} \/ outcome = "error"
      <4>1. mc \cap Removable(w) = {} \/ outcome = "error"
        BY <1>0, <1>1, <3>1 DEF CleanInv
      <4>2. \A l \in Links :
                /\ EndpointFor(w, l) \in mcOrig
                /\ l \in GetPrivateLinksWithAllowedSubscription(wcOrig)
                => EndpointFor(w, l) \in Removable(w)
        BY <1>1, LinksAre DEF Removable
      <4>3. /\ connected[w] = {l \in Links : EndpointFor(w, l) \in mc}
            /\ LinksOf(mcOrig)[w] = {l \in Links : EndpointFor(w, l) \in mcOrig}
        BY <1>1, LinksAre DEF connected
      <4> QED
        BY <4>1, <4>2, <4>3
    <3>3. s # Absent => s.apiServerIP = wc[w].apiServerIP
      BY <2>4, <2>5, <3>1
    <3>4. /\ s # Absent => (Announced(w)' <=> Announced(w)) /\ phase'[w] = "deleting"
          /\ s = Absent => ~Announced(w)' /\ phase'[w] = "absent"
      BY <2>2, <2>3, <3>1, <3>3 DEF Announced, phase, s
    <3>5. phase[w] = "deleting" /\ w \in held /\ (Announced(w) <=> w \in announced)
      BY <2>2, <2>6, <3>1, StateOf
    <3>6. \/ Lifecycle!Becomes(w, "deleting", FALSE, w \in announced)
          \/ Lifecycle!Becomes(w, "absent", FALSE, FALSE)
      BY <1>2, <2>6, <3>4, <3>5, BecomesOne DEF Lifecycle!Becomes
    <3>7. Lifecycle!Release(Job)
      BY <1>4, <1>5, <3>1, <3>2, <3>5, <3>6 DEF Lifecycle!Release
    <3> QED
      BY <1>4, <3>7 DEF Lifecycle!Next
  <2>7. CASE Held(w)'
    <3>1. s # Absent /\ phase'[w] = phase[w] /\ (phase[w] = "live" \/ w \in held)
      BY <2>2, <2>3, <2>7, StateOf DEF Held, phase, s
    <3>2. Announced(w) <=> w \in announced
      BY StateOf
    <3>3. CASE Announced(w)' <=> Announced(w)
      <4>1. Lifecycle!Becomes(w, phase[w], TRUE, w \in announced)
        BY <1>2, <2>7, <3>1, <3>2, <3>3, BecomesOne DEF Lifecycle!Becomes
      <4>2. Lifecycle!Establish(Job)
        BY <1>4, <1>5, <3>1, <4>1 DEF Lifecycle!Establish
      <4> QED
        BY <1>4, <4>2 DEF Lifecycle!Next
    <3>4. CASE ~(Announced(w)' <=> Announced(w))
      <4>1. Announced(w)' /\ wcCopy.apiServerIP # wcOrig.apiServerIP
        BY <2>2, <2>4, <2>5, <3>1, <3>4 DEF Announced, s
      <4>2. Lifecycle!Becomes(w, phase[w], TRUE, TRUE)
        BY <1>2, <2>7, <3>1, <4>1, BecomesOne DEF Lifecycle!Becomes
      <4>3. Lifecycle!Establish(Job)
        BY <1>4, <1>5, <2>5, <3>1, <4>1, <4>2 DEF Lifecycle!Establish
      <4> QED
        BY <1>4, <4>3 DEF Lifecycle!Next
    <3> QED
      BY <3>3, <3>4
  <2>8. CASE ~Held(w) /\ ~Held(w)'
    <3>1. CASE s = Absent
      <4>1. /\ ~Announced(w)' /\ phase'[w] = "absent"
            /\ phase[w] = "deleting" /\ w \notin held
        BY <2>2, <2>3, <2>8, <3>1, StateOf DEF Announced, phase, s
      <4>2. Lifecycle!Vanish(w)
        BY <1>2, <2>8, <4>1, BecomesOne DEF Lifecycle!Vanish, Lifecycle!Becomes
      <4> QED
        BY <1>4, <1>5, <4>2 DEF Lifecycle!Drop, Lifecycle!Next
    <3>2. CASE s # Absent
      <4>1. s.apiServerIP = wc[w].apiServerIP
        <5>1. "operator" \notin s.finalizers /\ "operator" \notin wc[w].finalizers
          BY <2>2, <2>8, <3>2 DEF Held, s
        <5> QED
          BY <2>4, <2>5, <2>8, <3>2, <5>1 DEF Merged
      <4> QED
        BY <1>2, <1>6, <2>2, <2>3, <2>8, <3>2, <4>1, BecomesSame DEF Announced, s
    <3> QED
      BY <3>1, <3>2
  <2> QED
    BY <2>6, <2>7, <2>8
<1> QED
  BY <1>7, <1>8

\* The reconciliation looks at the cached list when it opens the scopes, and
\* goes on, failed or not, in its body.
LEMMA WorkFollows ==
    ASSUME TypeOK, CleanInv, LifecycleInv, Open \/ Body
    PROVE  [Lifecycle!Next]_Lifecycle!lifecycle
<1>1. UNCHANGED <<wc, mc, mcCache, req, wcOrig>>
  BY OpenStep, BodyStep DEF KeptByOpen, KeptByBody
<1>2. UNCHANGED <<phase, held, announced, connected, seen>>
  BY <1>1 DEF phase, held, announced, connected, seen, LinksOf, Held
<1>3. CASE Open
  <2>1. pc = "getMC" /\ pc' \in {"api", "ingress", "closeMC"} /\ mcOrig' = mcCache
    BY <1>3, OpenStep DEF KeptByOpen, ReadMC
  <2>2. /\ req \in WorkloadClusters /\ wcOrig.privateLinks \in SUBSET Links
        /\ wcOrig.deleting \in BOOLEAN
        /\ GetPrivateLinksWithAllowedSubscription(wcOrig) \in SUBSET wcOrig.privateLinks
    BY <2>1 DEF TypeOK, AzureCluster, GetPrivateLinksWithAllowedSubscription
  <2>3. jobs = {} /\ jobs' = {Job'} /\ LinksOf(mcOrig)' = seen
    BY <2>1 DEF jobs, Job, Failed, seen, LinksOf
  <2>4. GetPrivateLinksWithAllowedSubscription(wcOrig)'
            = GetPrivateLinksWithAllowedSubscription(wcOrig)
    BY <1>1 DEF GetPrivateLinksWithAllowedSubscription
  <2>5. Job' = [ wc |-> req, list |-> seen, links |-> wcOrig.privateLinks,
                 usable |-> GetPrivateLinksWithAllowedSubscription(wcOrig),
                 leaving |-> wcOrig.deleting, failed |-> Failed' ]
    BY <1>1, <2>3, <2>4 DEF Job
  <2>6. Failed' \in BOOLEAN
    BY DEF Failed
  <2>7. Lifecycle!Look(req, wcOrig.privateLinks,
                       GetPrivateLinksWithAllowedSubscription(wcOrig),
                       wcOrig.deleting, Failed')
    BY <1>2, <2>3, <2>5 DEF Lifecycle!Look
  <2> QED
    BY <2>2, <2>6, <2>7 DEF Lifecycle!Next
<1>4. CASE Body
  <2>1. /\ pc \in {"api", "ingress"} /\ pc' \in {"api", "ingress", "closeMC"}
        /\ mcOrig' = mcOrig /\ outcome = "none"
    BY <1>4, BodyStep DEF KeptByBody, LifecycleInv
  <2>2. jobs = {Job} /\ Lifecycle!GoesOn(Job)
    BY <1>1, <2>1, JobGoesOn
  <2> QED
    BY <1>2, <2>2 DEF Lifecycle!Fail, Lifecycle!Next
<1> QED
  BY <1>3, <1>4

\* The end of a reconciliation is the end of the job, after a crash with a new
\* list; one that has not looked at the list yet is no job.
LEMMA LeaveFollows ==
    ASSUME Leave
    PROVE  [Lifecycle!Next]_Lifecycle!lifecycle
<1>1. /\ UNCHANGED <<wc, mc>> /\ pc' = "idle" /\ pc # "idle" /\ mcCache' \in {mcCache, mc}
  BY DEF Leave, ReadFails, Return, Crash, ClearLocals, api, cache
<1>2. UNCHANGED <<phase, held, announced, connected>>
  BY <1>1 DEF phase, held, announced, connected, LinksOf, Held
<1>3. jobs' = {} /\ seen' \in {seen, connected}
  BY <1>1 DEF jobs, seen, connected, LinksOf
<1>4. CASE pc = "getMC"
  <2>1. jobs = {}
    BY <1>4 DEF jobs
  <2> QED
    BY <1>2, <1>3, <2>1 DEF Lifecycle!Refresh, Lifecycle!Next, Lifecycle!lifecycle
<1>5. CASE pc # "getMC"
  <2>1. jobs = {Job}
    BY <1>1, <1>5 DEF jobs, Job, Failed
  <2> QED
    BY <1>2, <1>3, <2>1 DEF Lifecycle!Leave, Lifecycle!Next
<1> QED
  BY <1>4, <1>5

\* Every step of the reconciler is a step of the lifecycle, or none.
LEMMA NextFollows ==
    ASSUME TypeOK, CleanInv, ForeignInv, HistoryInv, LifecycleInv, [Next]_vars
    PROVE  [Lifecycle!Next]_Lifecycle!lifecycle
<1>1. ASSUME NEW w \in WorkloadClusters, GetWorkloadCluster(w)
      PROVE  UNCHANGED Lifecycle!lifecycle
  <2>1. UNCHANGED <<wc, mc, mcCache>> /\ pc = "idle" /\ pc' = "getMC"
    BY <1>1 DEF GetWorkloadCluster, api, cache
  <2> QED
    BY <2>1 DEF Lifecycle!lifecycle, phase, held, announced, connected, seen, jobs,
       LinksOf, Held
<1>2. CASE Sync
  <2>1. UNCHANGED <<wc, mc, pc, req, wcOrig, mcOrig, outcome>> /\ mcCache' = mc
    BY <1>2 DEF Sync, api, locals, copies
  <2>2. Lifecycle!Refresh
    BY <2>1 DEF Lifecycle!Refresh, phase, held, announced, connected, seen, jobs,
       LinksOf, Held, GetPrivateLinksWithAllowedSubscription
  <2> QED
    BY <2>2 DEF Lifecycle!Next
<1>3. CASE (\E e \in Endpoint : CapzEndpoint(e)) \/ UNCHANGED vars
  <2>1. UNCHANGED <<wc, mc, mcCache, pc, req, wcOrig, mcOrig, outcome>>
    BY <1>3 DEF CapzEndpoint, CapzCreateEndpoint, CapzDeleteEndpoint, vars,
       api, cache, locals, copies
  <2> QED
    BY <2>1 DEF Lifecycle!lifecycle, phase, held, announced, connected, seen, jobs,
       LinksOf, Held, GetPrivateLinksWithAllowedSubscription
<1> QED
  BY <1>1, <1>2, <1>3, Groups, WriteMCFollows, WriteWCFollows, WorkFollows, LeaveFollows,
     OthersFollow

-----------------------------------------------------------------------------
\* From the read of the MC's list to its patch the list in hand differs from
\* it by what the job of a cluster may change, and an address is announced only
\* with endpoints or with an error, whatever is stale, edited, failed or lost.
THEOREM LifecycleInvariant == Spec => []LifecycleInv
<1>1. Init => LifecycleInv
  BY DEF Init, Start, LifecycleInv
<1>2. TypeOK /\ CleanInv /\ PublishInv /\ LifecycleInv /\ [Next]_vars => LifecycleInv'
  BY LifecycleStep
<1> QED
  BY <1>1, <1>2, TypeCorrect, CleanInvariant, PublishInvariant, PTL DEF Spec

\* The reconciler with its stale cache, its users and CAPZ, with edits, name
\* clashes of resource groups, failed requests, lost answers and crashes,
\* implements EndpointLifecycle: a cluster's endpoints, address and finalizer
\* come and go in its order only.
THEOREM ImplementsLifecycle == Spec => FollowsLifecycle
<1>1. Init => Lifecycle!Init
  BY DEF Init, Start, Lifecycle!Init, phase, held, announced, connected, seen, jobs,
     LinksOf, Held
<1>2. TypeOK /\ CleanInv /\ ForeignInv /\ HistoryInv /\ LifecycleInv /\ [Next]_vars
      => [Lifecycle!Next]_Lifecycle!lifecycle
  BY NextFollows
<1> QED
  BY <1>1, <1>2, TypeCorrect, CleanInvariant, ForeignInvariant, HistoryInvariant,
     LifecycleInvariant, PTL DEF Spec, FollowsLifecycle, Lifecycle!Spec
=============================================================================
