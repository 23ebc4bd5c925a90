----------------------- MODULE AzureClusterReconciler -----------------------
(***************************************************************************)
(* controllers/azurecluster_controller.go: one worker that reconciles the  *)
(* AzureClusters of the workload clusters (WC) against the private         *)
(* endpoints of the management cluster (MC), next to the users who create, *)
(* edit and delete the clusters and the CAPZ controller that turns specs   *)
(* into Azure resources.                                                   *)
(*                                                                         *)
(* A reconciliation reads the two objects from the informer cache, works   *)
(* on copies, asks Azure for endpoint addresses on the way, and persists   *)
(* the copies in its two deferred calls: first the MC, then the WC.        *)
(* Everything else may happen between any two of these steps.              *)
(***************************************************************************)
EXTENDS PrivateEndpoints

CONSTANTS
    LBType,         \* Spec.NetworkSpec.APIServerLB.Type of every workload cluster
    McLBType,       \* and of the management cluster
    MaxCreates,     \* bound on the creations of workload clusters
    MaxDeletes,     \* bound on their deletions
    MaxEdits,       \* bound on the edits of a cluster's private links
    MaxFaults       \* bound on failed requests and operator crashes

LBTypes == {"Internal", "Public", "Other"}

ASSUME LBTypeAssumption ==
    /\ LBType \in [WorkloadClusters -> LBTypes]
    /\ McLBType \in LBTypes

ASSUME BoundsAssumption ==
    /\ MaxCreates \in Nat /\ MaxDeletes \in Nat
    /\ MaxEdits \in Nat /\ MaxFaults \in Nat

VARIABLES
    wc,         \* API server: the AzureCluster of every workload cluster
    mc,         \* API server: the private endpoints in the MC's node subnet
    wcCache,    \* the operator's informer cache of wc
    mcCache,    \* the operator's informer cache of mc
    pe,         \* Azure: address of the endpoint in the MC for a WC's link
    gw,         \* Azure: address of the endpoint in a WC for the MC gateway
    pc,         \* where the running reconciliation is
    req,        \* the workload cluster it is for
    wcOrig,     \* the WC as it was read (before-image of the patch helper)
    wcCopy,     \* the WC as changed in memory
    mcOrig,     \* the MC's endpoints as they were read
    mcCopy,     \* the MC's endpoints as changed in memory
    todo,       \* private links that ReconcileMcToWcApi still has to visit
    parts,      \* requests of the WC's patch that are still to be sent
    outcome,    \* what Reconcile is going to return
    creates, deletes, edits, faults     \* how often each has happened

api == <<wc, mc>>
cache == <<wcCache, mcCache>>
azure == <<pe, gw>>
copies == <<wcOrig, wcCopy, mcOrig, mcCopy>>
locals == <<pc, req, copies, todo, parts, outcome>>
bounds == <<creates, deletes, edits, faults>>
vars == <<api, cache, azure, locals, bounds>>

PCs == {"idle", "getMC", "api", "ingress", "closeMC", "closeWC"}
Outcomes == {"none", "done", "requeue", "error"}

TypeOK ==
    /\ wc \in [WorkloadClusters -> AzureCluster \cup {Absent}]
    /\ mc \subseteq Endpoint
    /\ wcCache \in [WorkloadClusters -> AzureCluster \cup {Absent}]
    /\ mcCache \subseteq Endpoint
    /\ pe \in [Endpoint -> MaybeIP]
    /\ gw \in [WorkloadClusters -> MaybeIP]
    /\ pc \in PCs
    /\ pc # "idle" => /\ req \in WorkloadClusters
                      /\ wcOrig \in AzureCluster
                      /\ wcCopy \in AzureCluster
    /\ mcOrig \subseteq Endpoint
    /\ mcCopy \subseteq Endpoint
    /\ todo \subseteq Links
    /\ parts \subseteq PatchParts
    /\ outcome \in Outcomes
    /\ creates \in 0..MaxCreates
    /\ deletes \in 0..MaxDeletes
    /\ edits \in 0..MaxEdits
    /\ faults \in 0..MaxFaults

\* The operator starts for the first time, and lists the clusters there are.
Start(clusters) ==
    /\ wc = clusters
    /\ mc = {}
    /\ wcCache = wc /\ mcCache = mc
    /\ pe = [e \in Endpoint |-> NoIP]
    /\ gw = [w \in WorkloadClusters |-> NoIP]
    /\ pc = "idle" /\ req = Absent /\ outcome = "none"
    /\ wcOrig = Absent /\ wcCopy = Absent
    /\ mcOrig = {} /\ mcCopy = {} /\ todo = {} /\ parts = {}
    /\ creates = 0 /\ deletes = 0 /\ edits = 0 /\ faults = 0

Init == Start([w \in WorkloadClusters |-> Absent])

\* client.Get is the manager's: it answers from the informer cache.
ReadWC(w) == wcCache[w]
ReadMC == mcCache

\* A failure uses up one of the MaxFaults.
Fault == faults < MaxFaults /\ faults' = faults + 1

\* The locals go when Reconcile returns or the process dies.
ClearLocals ==
    /\ pc' = "idle" /\ req' = Absent /\ outcome' = "none"
    /\ wcOrig' = Absent /\ wcCopy' = Absent
    /\ mcOrig' = {} /\ mcCopy' = {} /\ todo' = {} /\ parts' = {}

-----------------------------------------------------------------------------
(* Reconcile: reading, and the checks before anything is changed.          *)

validateLBType(t) == t \in {"Internal", "Public"}

\* Mutant: the error of the Get is ignored.
GetWorkloadClusterUnchecked(w) ==
    /\ pc = "idle"
    /\ pc' = "getMC"
    /\ req' = w
    /\ wcOrig' = ReadWC(w)
    /\ wcCopy' = ReadWC(w)
    /\ UNCHANGED <<api, cache, azure, mcOrig, mcCopy, todo, parts, outcome, bounds>>

\* Reconcile up to the Get of the workload cluster.  A request for a cluster
\* that is not found, or whose load balancers are of another type, returns
\* with nothing changed.
GetWorkloadCluster(w) ==
    /\ pc = "idle"
    /\ ReadWC(w) # Absent
    /\ validateLBType(LBType[w]) /\ validateLBType(McLBType)
    /\ pc' = "getMC"
    /\ req' = w
    /\ wcOrig' = ReadWC(w)
    /\ wcCopy' = ReadWC(w)
    /\ UNCHANGED <<api, cache, azure, mcOrig, mcCopy, todo, parts, outcome, bounds>>

\* The MC cannot be read, an identity or its secret cannot be read, or a scope
\* cannot be made: the scopes opened so far are closed with nothing changed.
ReadFails ==
    /\ pc = "getMC"
    /\ Fault
    /\ ClearLocals
    /\ UNCHANGED <<api, cache, azure, creates, deletes, edits>>

\* Mutant: the finalizer is not set before the rest.
setFinalizerForgotten(c) == c

setFinalizer(c) == [c EXCEPT !.finalizers = @ \cup {"operator"}]
removeFinalizer(c) == [c EXCEPT !.finalizers = @ \ {"operator"}]

\* Leave the body of Reconcile for its deferred calls.
CloseWith(o) == pc' = "closeMC" /\ outcome' = o

\* The three ways in which an endpoint may not have an address yet.
AddressErrors ==
    { "PrivateEndpointNotFoundError",
      "PrivateEndpointNetworkInterfaceNotFoundError",
      "PrivateEndpointNetworkInterfacePrivateAddressNotFoundError" }

IsRetriable(err) == err \in AddressErrors \cup {"PrivateLinksNotReadyError"}

\* Whether the request is queued again in a minute or returned as an error.
CloseWithError(err) == CloseWith(IF IsRetriable(err) THEN "requeue" ELSE "error")

\* After ReconcileMcToWcApi succeeded or was skipped.
ContinueWithIngress ==
    IF McLBType = "Internal"
    THEN pc' = "ingress" /\ UNCHANGED outcome
    ELSE CloseWith("done")

\* The Get of the MC and the scopes, common to the two paths.
OpenScopes ==
    /\ pc = "getMC"
    /\ mcOrig' = ReadMC
    /\ UNCHANGED <<api, cache, azure, req, wcOrig, parts, bounds>>

\* The cluster is not being deleted: the finalizer is set in memory first.
OpenNormal ==
    /\ OpenScopes
    /\ ~wcCopy.deleting
    /\ wcCopy' = setFinalizer(wcCopy)
    /\ mcCopy' = ReadMC

ReconcilePublic ==
    /\ OpenNormal
    /\ LBType[req] # "Internal"
    /\ ContinueWithIngress
    /\ UNCHANGED todo

NoAllowedLinks ==
    /\ OpenNormal
    /\ LBType[req] = "Internal"
    /\ GetPrivateLinksWithAllowedSubscription(wcCopy) = {}
    /\ CloseWithError("SubscriptionCannotConnectToPrivateLinkError")
    /\ UNCHANGED todo

PrivateLinksNotReady ==
    /\ OpenNormal
    /\ LBType[req] = "Internal"
    /\ GetPrivateLinksWithAllowedSubscription(wcCopy) # {}
    /\ ~wcCopy.linksReady
    /\ CloseWithError("PrivateLinksNotReadyError")
    /\ UNCHANGED todo

ReconcileMcToWcApi ==
    /\ OpenNormal
    /\ LBType[req] = "Internal"
    /\ GetPrivateLinksWithAllowedSubscription(wcCopy) # {}
    /\ wcCopy.linksReady
    /\ pc' = "api"
    /\ todo' = GetPrivateLinksWithAllowedSubscription(wcCopy)
    /\ UNCHANGED outcome

\* Mutant: the deletion path is open to a cluster that lives.
ReconcileDeleteAlways ==
    /\ OpenScopes
    /\ mcCopy' = DeleteMcToWcApi(req, wcCopy, ReadMC)
    /\ wcCopy' = removeFinalizer(wcCopy)
    /\ CloseWith("done")
    /\ UNCHANGED todo

ReconcileDelete ==
    /\ OpenScopes
    /\ wcCopy.deleting
    /\ mcCopy' = IF LBType[req] = "Internal"
                 THEN DeleteMcToWcApi(req, wcCopy, ReadMC)
                 ELSE ReadMC
    /\ wcCopy' = removeFinalizer(wcCopy)
    /\ CloseWith("done")
    /\ UNCHANGED todo

-----------------------------------------------------------------------------
(* ReconcileMcToWcApi: the loop over the links, then the unused endpoints. *)

\* The next link of the loop; its endpoint is added before Azure is asked.
VisitLink(l) ==
    /\ pc = "api"
    /\ l \in todo
    /\ \A k \in todo : l <= k
    /\ mcCopy' = AddPrivateEndpointSpec(mcCopy, EndpointFor(req, l))
    /\ UNCHANGED <<api, cache, azure, req, wcOrig, mcOrig, parts, creates, deletes, edits>>

\* GetPrivateEndpointIPAddress finds the address.
EndpointFound(l) ==
    /\ VisitLink(l)
    /\ pe[EndpointFor(req, l)] # NoIP
    /\ wcCopy' = [wcCopy EXCEPT !.apiServerIP = pe[EndpointFor(req, l)]]
    /\ todo' = todo \ {l}
    /\ UNCHANGED <<pc, outcome, faults>>

\* No endpoint, no network interface or no address yet.
EndpointPending(l) ==
    /\ VisitLink(l)
    /\ pe[EndpointFor(req, l)] = NoIP
    /\ \E err \in AddressErrors : CloseWithError(err)
    /\ UNCHANGED <<wcCopy, todo, faults>>

\* Any other error of the Azure API, none of which is retriable.
EndpointLookupFails(l) ==
    /\ VisitLink(l)
    /\ Fault
    /\ CloseWith("error")
    /\ UNCHANGED <<wcCopy, todo>>

LinksVisited ==
    /\ pc = "api"
    /\ todo = {}
    /\ mcCopy' = RemoveUnusedEndpoints(req, wcCopy, mcCopy)
    /\ ContinueWithIngress
    /\ UNCHANGED <<api, cache, azure, req, wcOrig, wcCopy, mcOrig, todo, parts, bounds>>

-----------------------------------------------------------------------------
(* ReconcileWcToMcIngress: the endpoint to the MC gateway in the WC.       *)

VisitGateway ==
    /\ pc = "ingress"
    /\ UNCHANGED <<api, cache, azure, req, wcOrig, mcOrig, mcCopy, todo, parts,
                   creates, deletes, edits>>

GatewayFound ==
    /\ VisitGateway
    /\ gw[req] # NoIP
    /\ wcCopy' = [wcCopy EXCEPT !.gateway = TRUE,
                                !.mcIngressIP = gw[req],
                                !.gsReady = TRUE]
    /\ CloseWith("done")
    /\ UNCHANGED faults

\* Mutant: the condition is set before the address is known.
GatewayPendingReady ==
    /\ VisitGateway
    /\ gw[req] = NoIP
    /\ wcCopy' = [wcCopy EXCEPT !.gateway = TRUE, !.gsReady = TRUE]
    /\ \E err \in AddressErrors : CloseWithError(err)
    /\ UNCHANGED faults

GatewayPending ==
    /\ VisitGateway
    /\ gw[req] = NoIP
    /\ wcCopy' = [wcCopy EXCEPT !.gateway = TRUE]
    /\ \E err \in AddressErrors : CloseWithError(err)
    /\ UNCHANGED faults

GatewayLookupFails ==
    /\ VisitGateway
    /\ Fault
    /\ wcCopy' = [wcCopy EXCEPT !.gateway = TRUE]
    /\ CloseWith("error")

-----------------------------------------------------------------------------
(* The deferred calls of Reconcile run in reverse order: MC, then WC.      *)

PatchMC ==
    /\ pc = "closeMC"
    /\ mc' = Merged(mcOrig, mcCopy, mc)
    /\ pc' = "closeWC"
    /\ parts' = PatchParts
    /\ UNCHANGED <<wc, cache, azure, req, copies, todo, outcome, bounds>>

\* Mutant: the error of the MC's deferred call is dropped.
PatchMCFailsSilently ==
    /\ pc = "closeMC"
    /\ mcCopy # mcOrig
    /\ Fault
    /\ pc' = "closeWC"
    /\ parts' = PatchParts
    /\ UNCHANGED <<api, cache, azure, req, copies, todo, outcome, creates, deletes, edits>>

\* The request fails, or it is carried out and its answer is lost.
PatchMCFails ==
    /\ pc = "closeMC"
    /\ mcCopy # mcOrig
    /\ Fault
    /\ mc' \in {mc, Merged(mcOrig, mcCopy, mc)}
    /\ pc' = "closeWC"
    /\ parts' = PatchParts
    /\ outcome' = "error"
    /\ UNCHANGED <<wc, cache, azure, req, copies, todo, creates, deletes, edits>>

\* The helper sends the conditions first, then the rest of the object, and
\* the second request whether or not the first succeeded.
NextPart(part) == part \in parts /\ (part = "object" => "status" \notin parts)

PatchWC(part) ==
    /\ pc = "closeWC"
    /\ NextPart(part)
    /\ wc' = [wc EXCEPT ![req] = AfterPatch(part, wcOrig, wcCopy, @)]
    /\ outcome' = IF PatchRefused(part, wcOrig, wcCopy, wc[req])
                  THEN "error" ELSE outcome
    /\ parts' = parts \ {part}
    /\ UNCHANGED <<mc, cache, azure, pc, req, copies, todo, bounds>>

\* Mutant: the error of the WC's deferred call is dropped.
PatchWCFailsSilently(part) ==
    /\ pc = "closeWC"
    /\ NextPart(part)
    /\ Changed(part, wcOrig, wcCopy)
    /\ Fault
    /\ parts' = parts \ {part}
    /\ UNCHANGED <<api, cache, azure, pc, req, copies, todo, outcome, creates, deletes, edits>>

PatchWCFails(part) ==
    /\ pc = "closeWC"
    /\ NextPart(part)
    /\ Changed(part, wcOrig, wcCopy)
    /\ Fault
    /\ wc' \in {wc, [wc EXCEPT ![req] = AfterPatch(part, wcOrig, wcCopy, @)]}
    /\ outcome' = "error"
    /\ parts' = parts \ {part}
    /\ UNCHANGED <<mc, cache, azure, pc, req, copies, todo, creates, deletes, edits>>

Return ==
    /\ pc = "closeWC"
    /\ parts = {}
    /\ ClearLocals
    /\ UNCHANGED <<api, cache, azure, bounds>>

-----------------------------------------------------------------------------
(* The operator's process and its cache.                                   *)

\* All AzureClusters, the MC among them, are in one informer: its events
\* come in the order of the writes, so the cache is an earlier state.
Sync ==
    /\ wcCache' = wc
    /\ mcCache' = mc
    /\ UNCHANGED <<api, azure, locals, bounds>>

\* The process dies; its successor starts by listing all AzureClusters.
Crash ==
    /\ pc # "idle"
    /\ Fault
    /\ ClearLocals
    /\ wcCache' = wc
    /\ mcCache' = mc
    /\ UNCHANGED <<api, azure, creates, deletes, edits>>

-----------------------------------------------------------------------------
(* Users.                                                                  *)

Create(w) ==
    /\ wc[w] = Absent
    /\ creates < MaxCreates
    /\ creates' = creates + 1
    /\ wc' = [wc EXCEPT ![w] = NewAzureCluster]
    /\ UNCHANGED <<mc, cache, azure, locals, deletes, edits, faults>>

Delete(w) ==
    /\ wc[w] # Absent
    /\ ~wc[w].deleting
    /\ deletes < MaxDeletes
    /\ deletes' = deletes + 1
    /\ wc' = [wc EXCEPT ![w] = Stored(Marked(@))]
    /\ UNCHANGED <<mc, cache, azure, locals, creates, edits, faults>>

\* New values for the private links and their allowed subscriptions.
EditPrivateLinks(w, links, allowed) ==
    /\ wc[w] # Absent
    /\ edits < MaxEdits
    /\ edits' = edits + 1
    /\ wc' = [wc EXCEPT ![w] = [@ EXCEPT !.privateLinks = links, !.allowed = allowed]]
    /\ UNCHANGED <<mc, cache, azure, locals, creates, deletes, faults>>

-----------------------------------------------------------------------------
(* The CAPZ controller.                                                    *)

CapzAddFinalizer(w) ==
    /\ wc[w] # Absent
    /\ ~wc[w].deleting
    /\ "capz" \notin wc[w].finalizers
    /\ wc' = [wc EXCEPT ![w].finalizers = @ \cup {"capz"}]
    /\ UNCHANGED <<mc, cache, azure, locals, bounds>>

CapzPrivateLinksReady(w) ==
    /\ wc[w] # Absent
    /\ ~wc[w].deleting
    /\ "capz" \in wc[w].finalizers
    /\ ~wc[w].linksReady
    /\ wc' = [wc EXCEPT ![w].linksReady = TRUE]
    /\ UNCHANGED <<mc, cache, azure, locals, bounds>>

\* Deletes the cluster's Azure resources, then gives up its finalizer.
CapzDeleteCluster(w) ==
    /\ wc[w] # Absent
    /\ wc[w].deleting
    /\ "capz" \in wc[w].finalizers
    /\ gw' = [gw EXCEPT ![w] = NoIP]
    /\ LET released == [wc[w] EXCEPT !.finalizers = @ \ {"capz"}]
       IN  wc' = [wc EXCEPT ![w] = Stored(released)]
    /\ UNCHANGED <<mc, cache, pe, locals, bounds>>

CapzCreateEndpoint(e) ==
    /\ e \in mc
    /\ pe[e] = NoIP
    /\ \E ip \in IPs : pe' = [pe EXCEPT ![e] = ip]
    /\ UNCHANGED <<api, cache, gw, locals, bounds>>

CapzDeleteEndpoint(e) ==
    /\ e \notin mc
    /\ pe[e] # NoIP
    /\ pe' = [pe EXCEPT ![e] = NoIP]
    /\ UNCHANGED <<api, cache, gw, locals, bounds>>

CapzCreateGateway(w) ==
    /\ wc[w] # Absent
    /\ ~wc[w].deleting
    /\ "capz" \in wc[w].finalizers
    /\ wc[w].gateway
    /\ gw[w] = NoIP
    /\ \E ip \in IPs : gw' = [gw EXCEPT ![w] = ip]
    /\ UNCHANGED <<api, cache, pe, locals, bounds>>

-----------------------------------------------------------------------------
\* The steps of a running reconciliation in which nothing fails.
Continue ==
    \/ ReconcilePublic
    \/ NoAllowedLinks
    \/ PrivateLinksNotReady
    \/ ReconcileMcToWcApi
    \/ ReconcileDelete
    \/ \E l \in Links : EndpointFound(l) \/ EndpointPending(l)
    \/ LinksVisited
    \/ GatewayFound
    \/ GatewayPending
    \/ PatchMC
    \/ \E part \in PatchParts : PatchWC(part)
    \/ Return

Failure ==
    \/ ReadFails
    \/ \E l \in Links : EndpointLookupFails(l)
    \/ GatewayLookupFails
    \/ PatchMCFails
    \/ \E part \in PatchParts : PatchWCFails(part)

Operator ==
    \/ \E w \in WorkloadClusters : GetWorkloadCluster(w)
    \/ Continue
    \/ Failure
    \/ Crash
    \/ Sync

Users ==
    \E w \in WorkloadClusters :
        \/ Create(w)
        \/ Delete(w)
        \/ \E links \in SUBSET Links : \E allowed \in SUBSET links :
                EditPrivateLinks(w, links, allowed)

CapzCluster(w) ==
    \/ CapzAddFinalizer(w)
    \/ CapzPrivateLinksReady(w)
    \/ CapzDeleteCluster(w)
    \/ CapzCreateGateway(w)

CapzEndpoint(e) == CapzCreateEndpoint(e) \/ CapzDeleteEndpoint(e)

Capz ==
    \/ \E w \in WorkloadClusters : CapzCluster(w)
    \/ \E e \in Endpoint : CapzEndpoint(e)

Next == Operator \/ Users \/ Capz

Spec == Init /\ [][Next]_vars

-----------------------------------------------------------------------------
(* What the reconciler has to guarantee.                                   *)

\* The operator holds its finalizer on the AzureCluster of w.
Held(w) == wc[w] # Absent /\ "operator" \in wc[w].finalizers

\* The endpoints to w are as they were stored, or as they were read.
LeftAlone(w) == EndpointsOf(w, mc') \in {EndpointsOf(w, mc), EndpointsOf(w, mcOrig)}

\* Every patch of the MC replaces the whole list of the subnet by one made from
\* a stale read.  What it does to the endpoints of a cluster other than the
\* one at hand is to leave them, or to bring back those that were read, unless
\* the resource group at hand is a prefix of the other's (PatchMC after
\* AddPrivateEndpointSpec, DeleteMcToWcApi and the clean-up of unused ones).
OnlyOwnEndpoints ==
    [][\A w \in WorkloadClusters \ {req} :
            <<req, w>> \notin RGPrefix => LeftAlone(w)]_vars

\* So it is for every other cluster, however its resource group is called (the
\* clean-up is for endpoints "connecting to the deleted private links").
OthersLeftAlone == [][\A w \in WorkloadClusters \ {req} : LeftAlone(w)]_vars

\* The endpoints to w that the deletion of w is to remove: the MC has them in
\* the list that was read, for links that the MC may use on what was read of w.
Removable(w) ==
    {e \in EndpointsOf(w, mcOrig) : e.link \in GetPrivateLinksWithAllowedSubscription(wcOrig)}

\* The step in which the operator's finalizer leaves a cluster, and with it
\* the last chance to clean up, leaves none of the endpoints in the MC that the
\* deletion was to remove (the deletion path and the order of the patches).
RemovedBeforeRelease ==
    [][\A w \in WorkloadClusters :
            Held(w) /\ ~Held(w)' => mc' \cap Removable(w) = {}]_vars

\* That step leaves no endpoint to the cluster at all, seen or not (the Get of
\* the MC in the deletion path).
CleanBeforeRelease ==
    [][\A w \in WorkloadClusters :
            Held(w) /\ ~Held(w)' => EndpointsOf(w, mc') = {}]_vars

\* Whatever fails and whatever is stale, a cluster is released with endpoints
\* left in the MC that its deletion was to remove only by a reconciliation that
\* returns an error because of a failed request (the deferred calls run whether
\* or not one failed).
CleanOrReported ==
    [][\A w \in WorkloadClusters :
            Held(w) /\ ~Held(w)' =>
                mc' \cap Removable(w) = {} \/ (faults' > 0 /\ outcome' = "error")]_vars

\* The operator's finalizer leaves a cluster only when that cluster, and not
\* an earlier one of the same name that the cache still shows, is being
\* deleted (removeFinalizer after a stale read, a crash or a lost answer).
ReleasedOnlyWhenDeleting ==
    [][\A w \in WorkloadClusters :
            Held(w) /\ ~Held(w)' => wc[w].deleting]_vars

\* When Reconcile is about to return success for a cluster that was not being
\* deleted, what it is to establish is stored, however stale its reads were:
\* the finalizer, the addresses, and an endpoint for every link it saw, unless
\* the cached list showed that endpoint already (the deferred calls and errors).
DoneMeansPublished ==
    (/\ pc = "closeWC" /\ parts = {} /\ outcome = "done"
     /\ ~wcOrig.deleting)
    => /\ Held(req)
       /\ LBType[req] = "Internal" =>
            LET links == GetPrivateLinksWithAllowedSubscription(wcCopy)
            IN  /\ links # {}
                /\ \A l \in links : EndpointFor(req, l) \in mc \cup mcOrig
                /\ wc[req].apiServerIP # NoIP
       /\ McLBType = "Internal" =>
            wc[req].gateway /\ wc[req].mcIngressIP # NoIP

\* As long as nothing has failed, and while a cluster is not being reconciled,
\* the condition GSPrivateLinksReady, for which its control plane is waiting,
\* is on it only together with what it announces: the gateway endpoint, its
\* address and the API server's (two requests, over a stale cache).
ReadyAfterPublished ==
    \A w \in WorkloadClusters :
        (faults = 0 /\ req # w /\ wc[w] # Absent /\ ~wc[w].deleting /\ wc[w].gsReady)
        => /\ Held(w)
           /\ wc[w].gateway /\ wc[w].mcIngressIP # NoIP
           /\ LBType[w] = "Internal" => wc[w].apiServerIP # NoIP

\* Everything Reconcile is to establish for w: a deleted cluster is gone, a
\* live one has its finalizers, endpoints, current addresses and condition.
Reconciled(w) ==
    \/ wc[w] = Absent
    \/ /\ ~wc[w].deleting
       /\ wc[w].finalizers = Finalizers
       /\ LBType[w] = "Internal" =>
            /\ \A l \in GetPrivateLinksWithAllowedSubscription(wc[w]) :
                    EndpointFor(w, l) \in mc
            /\ \E l \in GetPrivateLinksWithAllowedSubscription(wc[w]) :
                    wc[w].apiServerIP = pe[EndpointFor(w, l)]
            /\ wc[w].apiServerIP # NoIP
       /\ McLBType = "Internal" =>
            /\ wc[w].gateway /\ wc[w].gsReady
            /\ wc[w].mcIngressIP # NoIP /\ wc[w].mcIngressIP = gw[w]

\* Whatever was created, deleted, lost or refused on the way, every cluster
\* ends up reconciled for good (Reconcile's retries, RequeueAfter and resync).
Converges == <>[](\A w \in WorkloadClusters : Reconciled(w))

\* An endpoint of the MC to a link that w does not have any more.
Unused(w, e) ==
    /\ e \in mc /\ e.wc = w
    /\ wc[w] # Absent /\ ~wc[w].deleting
    /\ e.link \notin wc[w].privateLinks

\* An endpoint to a removed link is removed while the cluster keeps another
\* link that the MC may use (the clean-up at the end of ReconcileMcToWcApi).
UnusedEndpointsRemoved ==
    \A w \in WorkloadClusters : \A e \in Endpoint :
        (Unused(w, e) /\ GetPrivateLinksWithAllowedSubscription(wc[w]) # {})
        ~> ~(Unused(w, e) /\ GetPrivateLinksWithAllowedSubscription(wc[w]) # {})

\* A workload cluster that is gone has left no endpoint in the MC (deleting a
\* cluster "removes private endpoint from the management cluster").
NoOrphanedEndpoints ==
    pc = "idle" => \A e \in mc : wc[e.wc] # Absent

\* The state of EndpointLifecycle, read off the stored objects, the cache and
\* the reconciliation that is running.
LinksOf(eps) == [w \in WorkloadClusters |-> {l \in Links : EndpointFor(w, l) \in eps}]

phase ==
    [w \in WorkloadClusters |-> IF wc[w] = Absent THEN "absent"
                                ELSE IF wc[w].deleting THEN "deleting" ELSE "live"]
held == {w \in WorkloadClusters : Held(w)}
announced == {w \in WorkloadClusters : wc[w] # Absent /\ wc[w].apiServerIP # NoIP}
connected == LinksOf(mc)
seen == LinksOf(mcCache)
jobs ==
    IF pc \in {"idle", "getMC"} THEN {}
    ELSE {[ wc      |-> req,
            list    |-> LinksOf(mcOrig),
            links   |-> wcOrig.privateLinks,
            usable  |-> GetPrivateLinksWithAllowedSubscription(wcOrig),
            leaving |-> wcOrig.deleting,
            failed  |-> outcome = "error" ]}

Lifecycle == INSTANCE EndpointLifecycle

\* The steps of the reconciler, users and CAPZ in any order, with stale reads,
\* edits, failures and crashes, are a lifecycle of every cluster: only its own
\* job takes an endpoint from a cluster, except by bringing back an earlier
\* list, never one that it saw and that the cluster still has a link for; an
\* address is announced only with endpoints; a cluster is let go in deletion
\* only, without the endpoints that were to be removed unless a failure is
\* reported (Reconcile as a whole).
FollowsLifecycle == Lifecycle!Spec
=============================================================================
