# azure-private-endpoint-operator in TLA+

The operator connects the management cluster (MC) of an installation with its
private workload clusters (WC) on Azure. It runs three controllers in one
process and keeps all of its state in Kubernetes objects; nothing is held in
memory between two reconciliations. What can go wrong is therefore in the steps
between reading an object and writing it back: other writers, a lagging cache,
patches that fail, a process that dies, a name that is used again.

This directory models the three controllers with everything they call, the work
queue of the first, and the AzureCluster reconciler and the control plane gate
together as they bring up a cluster. It proves the safety properties of each, of
the queue and of the two together, and that the AzureCluster reconciler
implements an abstract specification of a few lines; what needs fairness is
model-checked. What could still be done is under [Plan](#plan).

## Inventory

| component | source | state | operations |
|---|---|---|---|
| AzureCluster reconciler | `controllers/azurecluster_controller.go` | the WC's AzureCluster (finalizers, annotations, gateway endpoint, conditions), the private endpoints in the MC's AzureCluster | `Reconcile`: normal path and deletion path, deferred patches |
| private endpoints service | `pkg/privateendpoints/service.go` | none of its own | `ReconcileMcToWcApi`, `ReconcileWcToMcIngress`, `DeleteMcToWcApi` |
| private endpoints scope | `pkg/privateendpoints/scope.go` | the endpoint list of a subnet, in memory | add, remove, find endpoints; ask Azure for an address |
| private links scope | `pkg/privatelinks/scope.go` | the WC's links, annotations, conditions, in memory | allowed links, look a link up, readiness, set the two addresses |
| base scope | `pkg/azurecluster/scope.go` | the object and its before-image | set annotation or condition, `Close` sends the difference |
| errors | `pkg/errors/*.go` | none | retriable or not |
| Azure client | `pkg/azure/privateendpoints.go` | credentials | `Get` of a private endpoint |
| KubeadmControlPlane reconciler | `controllers/kubeadmcontrolplane_controller.go` | the paused annotation of a control plane | pause until the gate conditions hold, unpause |
| ProviderConfig reconciler | `controllers/providerconfig_controller.go` | one Crossplane ProviderConfig per Cluster, a finalizer | create or update, delete |
| manager | `main.go` | the work queue of each controller | start-up, leader election, watches, retries, `SyncPeriod` |

How they interact. The API server is the only medium. Users and the CAPI/CAPZ
controllers create, edit and delete the AzureClusters. For a private WC the
AzureCluster reconciler adds one private endpoint per usable private link to the
node subnet of the **MC's** AzureCluster; CAPZ turns it into an Azure resource
and Azure gives it an address; the reconciler asks Azure for the address and
puts it in an annotation of the **WC**. For a private MC it also adds an
endpoint for the MC's gateway to the WC's own subnet, publishes its address the
same way, and sets the condition `GSPrivateLinksReady`. The KubeadmControlPlane
reconciler keeps the control plane paused until that condition (among others)
is true. A finalizer on the WC is to make sure that its endpoints are taken out
of the MC before the WC's object goes.

What is hard here:

* *two objects, two writes.* One reconciliation changes the MC and the WC and
  writes them in deferred calls, last in first out: MC, then WC. Each can fail,
  and the process can die between them.
* *writes without a resource version.* The patch helper sends a merge patch of
  what changed since the read. Fields left alone are safe; lists (finalizers,
  the endpoints of a subnet, which belong to *all* workload clusters) are
  replaced as a whole.
* *reads from a cache*, which may lag behind the operator's own last write.
* *names that come back.* A cluster may be deleted and created again under its
  name while an older reconciliation is still in flight.
* *several rounds until done*: links ready, endpoint created, address known,
  each observed by polling with `RequeueAfter`.

Properties that make the components correct: a reconciliation touches no other
cluster's endpoints; the finalizer goes last and only from a cluster that is
being deleted; success means stored; `GSPrivateLinksReady` is not announced
before what it announces; endpoints to removed links go; a control plane is
released only after all its gates were met; no ProviderConfig is left behind;
everything converges once faults and edits stop.

## Modules

| module | contents |
|---|---|
| `ApiServer` | one field of a merge patch, finalizers and deletion: what the API server does with a write, for all three controllers |
| `AzureClusters` | the AzureCluster object as far as the operator sees it, and the patch of it |
| `PrivateEndpoints` | the in-memory operations of `pkg/privatelinks` and `pkg/privateendpoints` on a set of endpoints |
| `AzureClusterReconciler` | the state machine: the reconciler, the cache, the users, CAPZ and Azure; the properties |
| `AzureClusterInvariants` | the inductive invariants from which the properties are proved |
| `EndpointLifecycle` | abstract specification: what the reconciler promises about the endpoints of every cluster |
| `AzureClusterReconciler_proofs` | types; release of the finalizer; other clusters' endpoints; clean-up |
| `EndpointLifecycle_proofs` | the reconciler implements `EndpointLifecycle` |
| `ReadyCondition_proofs` | when `GSPrivateLinksReady` is set |
| `Published_proofs` | what success means, however stale the reads |
| `WorkQueue`, `WorkQueue_proofs` | the reconciler with its work queue, watch, retries, resync and restart; it implements the one without, and forgets no work |
| `ControlPlaneGate`, `ControlPlaneGate_proofs` | the KubeadmControlPlane reconciler with CAPI and users; its theorems |
| `ClusterBringUp`, `ClusterBringUp_proofs` | the AzureCluster reconciler and the gate in one process, over one AzureCluster and one cache; why the gate opens only for a connected cluster |
| `ProviderConfigs`, `ProviderConfigs_proofs` | the ProviderConfig reconciler with users, CAPI and Crossplane; its theorems |
| `MCAzureCluster`, `MCWorkQueue`, `MCClusterBringUp`, `MCControlPlaneGate`, `MCProviderConfigs` | instances for TLC |

Operators marked *Mutant* in a comment are deliberately wrong variants of the
definition that follows them. They are used nowhere in the specification; put
in place of the original they make TLC report a violation, which shows that the
property can see that kind of mistake.

## The AzureCluster controller

### State

`wc` and `mc` are the objects in the API server. `wc[w]` is a record with the
fields of the AzureCluster that some branch of the code depends on; `mc` is the
set of private endpoints in the MC's node subnet. `wcCache` and `mcCache` are
the operator's informer cache. `pe` and `gw` are Azure: the address of each
endpoint in the MC and of the gateway endpoint in each WC, or `NoIP`. The rest
are the local variables of the running `Reconcile`: `req`, the before-images
`wcOrig` and `mcOrig` of the two patch helpers, the changed copies `wcCopy` and
`mcCopy`, the links `todo` of the loop, the requests `parts` of the WC's patch
that are still to be sent, and the `outcome` it is going to return. `pc` says
where it is:

| `pc` | code |
|---|---|
| `idle` | no reconciliation is running |
| `getMC` | the WC has been read (controller 90), the MC not yet (106) |
| `api` | in the loop of `ReconcileMcToWcApi` (service 89-131) |
| `ingress` | before `ReconcileWcToMcIngress` (controller 184) |
| `closeMC` | the body has returned, `mcPrivateEndpointsScope.Close` is next (150) |
| `closeWC` | `privateLinksScope.Close` is running (126) |

A step ends where something outside the process is read or written, because
that is where the others can interleave: the two `Get`s, each question to Azure,
each request of a patch.

### Actions

| action | code |
|---|---|
| `GetWorkloadCluster` | `Reconcile` up to the first `Get`; not found, and LB types other than Internal and Public, return with nothing changed and have no step |
| `ReadFails` | the `Get` of the MC, a scope (with its choice of the subnet, `SubnetsNotSetError`) or one of the Azure clients (whatever its credential type) fails (controller 106-171): nothing has been changed yet |
| `ReconcilePublic`, `NoAllowedLinks`, `PrivateLinksNotReady`, `ReconcileMcToWcApi` | the read of the MC, `setFinalizer` and the branches up to the loop |
| `ReconcileDelete` | the deletion path: `DeleteMcToWcApi` for a private WC, `removeFinalizer` |
| `EndpointFound`, `EndpointPending`, `EndpointLookupFails` | one turn of the loop: the endpoint is added first, then Azure is asked |
| `LinksVisited` | the clean-up of unused endpoints after the loop |
| `GatewayFound`, `GatewayPending`, `GatewayLookupFails` | `ReconcileWcToMcIngress` |
| `PatchMC`, `PatchMCFails` | the deferred call at 150; a failing request may have been carried out |
| `PatchWC`, `PatchWCFails` | one request of the deferred call at 126 |
| `Return` | the end of `Reconcile` |
| `Sync` | the cache catches up |
| `Crash` | the process dies inside a reconciliation; its successor lists everything anew |
| `Create`, `Delete`, `EditPrivateLinks` | users |
| `Capz...` | CAPZ: its finalizer, `PrivateLinksReady`, deletion, endpoints in Azure |

### Abstractions

* An endpoint is the pair of a cluster and a link. The code matches endpoints by
  their name alone, `<link>-privateendpoint` (privateendpoints/scope.go 182-195,
  service.go 195). That the names of the links of two clusters differ is *assumed*:
  the cluster chart puts the cluster's name into them, and nothing in this
  repository enforces it. Two clusters with links of one name would share an
  endpoint in the code, and do not in the model. The endpoints of a subnet are a
  set, since an endpoint is added only if none has its name; their order matters
  to nothing.
* Links are numbered by their place in the slice, so the loop visits them in
  order and the annotation ends up with the address of the last one, as in the
  code.
* Resource groups matter only for the string prefix test in
  `GetPrivateEndpointsToWorkloadCluster`. `RGPrefix` says whose resource group
  path is a prefix of whose.
* An address can be missing in three ways (`AddressErrors`: no endpoint, no
  network interface, no address). All are retriable; a failed request to Azure
  is not, and may end the loop at any link.
* LB types are constants: a cluster's API server load balancer does not change
  its type.
* The approval mode, request message, location and wording of an endpoint are
  left out. The code compares endpoints by name only.

### What is assumed of the surroundings

* *API server.* A merge patch changes the fields that differ between the
  before-image and the copy and no others. The helper sends the conditions
  first and metadata and spec in a second request, whether or not the first
  succeeded (`NextPart`). An object in
  deletion goes with its last finalizer; a new finalizer is refused while the
  object is in deletion.
* *Cache.* Every read is one of the manager's client (`main.go` 130), which
  answers from an informer cache. All AzureClusters, the MC among them, are in one
  informer, whose events come in the order of the writes, so the cache is one
  earlier state of `wc` and `mc` together, and stays so for any length of time.
  `Sync` brings it up to the present: since it can happen after any single write
  and then not again, each earlier state can be what the cache shows. What the
  model does not have is a cache that moves from one outdated state to a later
  one that is outdated too, within one reconciliation or between two.
* *Operator.* One active replica (leader election) with one worker (the default
  of `MaxConcurrentReconciles`): at most one reconciliation at a time.
* *CAPZ* puts its finalizer on a live cluster before it works on it, makes the
  links ready, gives every endpoint of the MC's spec an address and takes it
  away with the spec, and on deletion removes the WC's Azure resources before
  its finalizer.

### What it promises: `EndpointLifecycle`

The abstract specification has no copies, patches or addresses. Of every cluster
it has the `phase`, whether it is `held` by the operator's finalizer, whether its
API server is `announced` by an annotation, the links through which it is
`connected`, and the same as it was `seen` some time ago. `jobs` holds the job at
hand: the cluster it serves, the list it looked at, the links it goes by, whether
the cluster is leaving, and whether the job has failed. What it promises:

* a job writes back the list it looked at, with the links of *its* cluster
  changed: one that is leaving loses its usable links, another one gains some of
  them and loses none it has (`Write`);
* an address is announced only for a cluster that has endpoints, or had them in
  the list, or by a job that has failed (`Establish`);
* a cluster is let go only in deletion, and without the endpoints that were to be
  removed unless the job has failed (`Release`).

The refinement mapping, at the end of `AzureClusterReconciler`, reads this state
off the stored objects, the cache and the local variables of `Reconcile`;
`FollowsLifecycle` is the abstract specification under that mapping.

| steps of the reconciler | steps of the lifecycle |
|---|---|
| `GetWorkloadCluster`, `ReadFails` | stutter: the list has not been read |
| the branches after the `Get` of the MC | `Look` |
| the loop, the gateway | `Fail` or stutter |
| `PatchMC`, `PatchMCFails` | `Write` or `Fail` |
| `PatchWC`, `PatchWCFails` | `Establish`, `Release`, `Drop`, `Fail` or stutter |
| `Return` | `Leave` |
| `Crash` | `Leave`, or `Refresh` when there is no job yet |
| `Sync` | `Refresh` |
| users, CAPZ | `Create`, `Delete`, `Vanish` or stutter |

The specification says what happens in the code even where that may surprise: a
list that is out of date is written as it was seen, other clusters' endpoints
included; endpoints are written before the cluster is held; a cluster that
is not held keeps or loses its endpoints as it happens; a job that fails may
still let its cluster go; and a cluster whose resource group continues the name
of another's may lose its endpoints to the other's job.

### Its work queue: `WorkQueue`

`AzureClusterReconciler` lets the worker take any cluster at any time. `WorkQueue`
adds the queue; all passing runs about this controller use it.
It is external: the source of controller-runtime is not in the repository, and
the model follows what its version v0.24.1 (`go.mod` 20) uses by default, a
priority queue that has one entry for a key.

* `queue` has the keys that are ready, in the order in which they became so;
  `delayed` those that wait for `RequeueAfter` or a back-off, or that were added
  while they were worked on.
* `urgent` are the keys of normal priority. Keys of the first list and of the
  resync have a low one, an event of a change makes its key urgent, and a retry
  keeps the priority that its key had (`hurry`).
* `Due`: an urgent key is taken before all others, among equals the one that has
  been ready for longer.

So a key of the resync can be passed by events and retries of other clusters
time and again. That it is still served is `EveryClusterServed`.

| action | code |
|---|---|
| `Dequeue`, `DequeueRefused` | the worker takes the key that is due; a cluster that is not found is forgotten, one with an unknown LB type is an error |
| `Step`, `Done`, `StepFails` | a step of `Reconcile`; its result decides whether the key waits for another try (controller 187-194, and any error) |
| `Elapse` | the time of a waiting key has come |
| `Watch` | the cache catches up and queues what changed as urgent; no predicate is set (controller 262-266) |
| `ResyncAll` | `SyncPeriod` (`main.go` 108) |
| `Restart` | the process dies with its queue; the next one queues what it lists |

The key of the MC is left out: `Reconcile` skips it, and a change of the MC
queues no workload cluster.

### Bringing up a cluster: `ClusterBringUp`

The AzureCluster reconciler sets `GSPrivateLinksReady` on the AzureCluster; the
gate waits for it and holds CAPI back until then. `ClusterBringUp` has both
workers in one process: `ControlPlaneGate` is instantiated with the conditions of
`wc[New]` and of its cached copy, so that the two share the AzureCluster and its
informer, and `Die` ends both reconciliations. The gate's own user actions are
left out; the cluster is created once, and not paused.

## The control plane gate

`ControlPlaneGate` has one KubeadmControlPlane, its Cluster and its AzureCluster;
`Reconcile` looks at nothing else and the worker keeps no state between requests.
`kcp`, `cluster` and `conditions` are in the API server, each with an informer
of its own (`kcpCache`, ...) that lags independently. `orig` is the control
plane as it was read, `pause` whether its copy is paused. `pc` is `getCluster`
before `GetOwnerCluster` (129), `getInfra` before the `Get` of the AzureCluster
(143), `patch` before the deferred call (156).

| action | code |
|---|---|
| `GetControlPlane` | `Reconcile` up to the preflight check of the control plane; every early return before it changes nothing and has no step |
| `GetOwnerCluster`, `ClusterCancels` | the Cluster is read and checked |
| `CheckGates`, `NoInfraCluster` | the AzureCluster is read, the gates are checked, the copy is paused or unpaused |
| `Patch`, `PatchFails` | the deferred patch; its error is logged and not returned, so the end of the reconciliation is the same |
| `GetFails`, `Crash`, `Sync` | a failed request, the end of the process, one informer catches up |
| `Capi...`, `SetInfraRef`, `SetCondition`, `PauseCluster`, `DeleteControlPlane` | CAPI, the controllers that set conditions, users |

`FindUnmetStatusConditions` is modelled on the first condition of each gate's
type: true, not true, or none. `AllTrue` states what it is for without it. `met`
is a history variable: all gates have been true at one moment. CAPI looks at the
pause when it starts to work on the control plane (`CapiStart`) and may still be
at it when the annotation is set. The MC's load balancer type is a constant. The
owner of a control plane with a controller reference is its Cluster.

## The ProviderConfig controller

`ProviderConfigs` has Clusters, some of which may share a name (`NameOf`, since
the ProviderConfig is cluster-scoped and named without the namespace), and the
ProviderConfigs by name. `identity[c]` is what the Cluster's references lead to:
an `identityInfo`, or `NoInfo` when an object is missing, the identity
reference is unset, or a kind or type is not supported. All of these return
without a write. The chain of two or three `Get`s is one read; a mix of an old
and a new object is one more identity, which the next reconciliation corrects.
`pc` names the next request: `identity`, `hold` (the finalizer), `get`,
`create` or `patch` (`CreateOrPatch`), `delete`, `release`.

| action | code |
|---|---|
| `GetCluster` | `Reconcile` up to the choice of the path |
| `GetIdentity`, `NoIdentity`, `GetFails` | `reconcileNormal` up to the finalizer |
| `HoldCluster`, `HoldRefused`, `HoldFails` | the patch of the finalizer; refused for a Cluster that is gone or in deletion |
| `GetConfig`, `WriteConfig`, `WriteConfigFails` | `CreateOrPatch`; its `Get` is not cached because the object is unstructured |
| `DeleteConfig`, `DeleteConfigFails`, `ReleaseCluster`, `ReleaseFails` | `reconcileDelete` |
| `SyncClusters`, `SyncIdentities`, `Crash` | informers and process |
| `Create`, `Delete`, `SetIdentity`, `Capi...`, `CrossplaneRemove` | users, CAPI, Crossplane, which keeps a ProviderConfig in deletion while it is in use |

## Runs

Deadlock is checked in every run. It cannot happen where a cache can be refreshed,
which is always.

Bounds: `MaxCreates`, `MaxDeletes`, `MaxEdits`, `MaxChanges`, `MaxPauses` and
`MaxFaults` count what users, other controllers and failures may do in one
behaviour; the reconcilers, the caches and CAPI, CAPZ and Crossplane are not
bounded.

| run | instance | distinct states | shows |
|---|---|---|---|
| `shared_list` | 2 private WCs and a public one, 1 link, public MC, work queue without resync, 2 creations, 1 deletion, symmetry in the private WCs | 1.4 million | `OnlyOwnEndpoints` and its invariant `ForeignInv`; `LifecycleInv`, from which the refinement is proved; `TypeOK` |
| `edits` | 1 WC, 2 links, public MC, work queue with resync, 1 creation, 1 deletion, 1 edit of the links | 308 000 | `CleanOrReported` and its invariant `CleanInv`; `UnusedEndpointsRemoved` |
| `recovery` | 1 WC, private MC, work queue without resync, 2 creations, 2 deletions, 2 faults | 387 000 | `DoneMeansPublished` and its invariant `PublishInv`; `CleanOrReported` and `FollowsLifecycle` with failures; `ReleasedOnlyWhenDeleting` and its invariant `ReleaseInv`; the invariants `HistoryInv` and `ReadyInv`; `NothingForgotten` and its invariant `WakeInv`; `Converges` after failures, lost answers or crashes anywhere |
| `contention` | 2 private WCs that the operator finds when it starts, 2 addresses, work queue with resync | 453 000 | the refinement `FollowsLifecycle`; `EveryClusterServed`, and `Converges` although the clusters overwrite each other's endpoints; `QueueTypeOK` |
| `bring_up` | 1 WC, private MC, both controllers, 1 fault, fairness | 255 000 | `ConnectedBeforeRelease` and the invariant `BringUpInv` from which it is proved; `BroughtUp`; `ReadyAfterPublished` |
| `provider_configs` | 2 Clusters of one name, 2 identities, 2 creations, 1 deletion, 2 edits, 1 fault, fairness | 461 000 | `ConfigHeld` and the invariant `HoldInv` from which it is proved; `ConfigsConverge`; `TypeOK` |
| `gate` | the chart's 2 gates, private MC, 3 changes of conditions, the Cluster paused and unpaused, 1 fault, fairness | 431 000 | `GateHolds` and the invariant `GateInv` from which it is proved; `GateSettles`; `TypeOK` |

In every run all reads come from caches that lag without limit, except that of the
ProviderConfig, which the code does not read from a cache.

Why these bounds are enough to be interesting. Two private clusters are what it
takes for one to disturb the other over the shared list; the public one in
`shared_list` is reconciled and released between them and must not touch it. Two
creations and a deletion let a name be used again while the cache, or a
reconciliation in flight, shows the old cluster. One fault may hit any request,
so every partial failure of one reconciliation happens; a second one, in
`recovery`, hits the retry, or kills the process after a failure has put the key
in a queue that is then lost, or lets the MC's patch fail twice in a row, which
is what it takes for a lost endpoint to meet a gateway address that is already
there. Two links, in `edits`, distinguish "some" from "all", and an edit takes one
of them away or revokes it before or while the cluster is deleted. Two addresses, in `contention`, tell a current address
from an old one. Three changes of two gates let one be met, the other be met, and
the first be lost again before the operator acts. The safety properties that are
proved hold without any bound.

`ReadyAfterPublished` is stated for behaviours in which nothing has failed yet
(`faults = 0`): the condition goes out in the request before the one with the
addresses, and a failure or crash between them leaves a condition without its
addresses until the next reconciliation. `ConnectedBeforeRelease` is stated of
Azure and not of the annotations, and holds with a failure too.

`NothingForgotten` speaks of work that the cache shows: what it does not show yet
comes as an event. It is about the objects of the workload clusters. That the
stored endpoints of the MC may be overwritten without a key for their cluster is
the observation on the resync below.

### Where the code does not do what it says

These runs end in a violation. Each checks one property that quotes the
repository; the findings in `PROJECT.json` give the quotation.

| run | property | what happens |
|---|---|---|
| `name_prefix` | `OthersLeftAlone` | the prefix test has no `/` after the resource group, so reconciling `prod` removes the endpoints of `prod2` as unused; `prod2` puts them back, and so on |
| `first_reconcile` | `NoOrphanedEndpoints` | the MC is written before the finalizer; a WC deleted in between, during the first reconciliation that writes, leaves its endpoint |
| `patch_failure` | `RemovedBeforeRelease` | on the deletion path the patch of the MC fails and the deferred patch of the WC removes the finalizer all the same |
| `stale_release` | `CleanBeforeRelease` | nothing fails: the deletion path computes the removal on a cached MC that does not show the endpoint written a moment before, removes nothing and releases the cluster |
| `gate_stuck` | `PausedOnlyUntilMet` | CAPI initializes the control plane between the operator's read and its patch that pauses it; from then on the preflight check cancels, and the control plane stays paused although all gates are met |

More observations, with no run of their own:

* `DeleteMcToWcApi` goes over the links that allow the MC's subscription *now*
  (service 191; the comment before it says "all"): an endpoint to a link that
  has been revoked since stays when the cluster is deleted.
* With no usable link left `ReconcileMcToWcApi` returns an error (service 71)
  before it gets to the clean-up, so the endpoint of the last removed link stays
  as long as the cluster lives. `UnusedEndpointsRemoved` says "while the
  cluster keeps another link" for this reason.
* `DoneMeansPublished` says nothing of the condition `GSPrivateLinksReady`: the
  status request can reach the old object and the other request a cluster
  created anew in between, so that success is returned while the new cluster
  lacks the condition; the next reconciliation sets it, which `Converges`
  covers.
* `contention` needs the resync. With `Resync = FALSE` two clusters do not
  converge: an endpoint that a stale write for another cluster has removed from
  the MC is lost for good, because a change of the MC queues no workload cluster
  and a cluster that was reconciled with success is not queued again. Even a
  single cluster can then be left with an old address if its endpoint in Azure
  is replaced after it was asked for. `SyncPeriod` is thus part of the
  correctness of the operator, not only a safety net.
* `UnusedEndpointsRemoved` needs the resync as soon as a request can fail: TLC
  finds that without it (`MaxFaults = 1`, `Resync = FALSE`) an endpoint to a
  removed link can stay. Without a failure, events and retries are enough.
* `ConnectedBeforeRelease` holds only if the new cluster is left in peace
  (`Undisturbed`). TLC finds a violation when any part of that is dropped: with
  two links, a lookup in Azure that fails while the loop is on a stale list
  stores that list, and takes an endpoint back after the condition was set; an
  edit of one of two links does the same without a failure; so does a second
  private cluster, whose reconciliation writes back the whole list as it was when
  it read it; and a deletion takes the endpoints away while the gate still acts
  on the cached condition. The gate then opens for a cluster that has no
  connection for the moment.
* `RemovedBeforeRelease` may be violated after a failure, but not silently: by
  `CleanReported` the reconciliation that leaves such an endpoint behind returns an
  error. The retry that this causes comes to nothing, since the cluster is gone.
  An endpoint that the deletion did not see, as in `stale_release`, is left behind
  silently.
* A stale read for one cluster can also bring back the endpoint of another one
  that has just been deleted. Nobody removes it again. `OnlyOwnEndpoints` allows
  it: what comes back is what was read.
* Success may be returned for an endpoint that is not stored: if the cached list
  shows it, it is not added, and an older list of another cluster may have taken
  it out since. `DoneMeansPublished` therefore says "stored, or in the list that
  was read"; the resync puts it back, which `contention` checks.
* The clients are made before the path is chosen (controller 139), so a cluster in
  deletion whose identity or secret is gone stays in deletion.
* The comment on `PreflightCheckCluster` says that the control plane is not
  unpaused "in any circumstance" while the Cluster is paused. A Cluster that is
  paused between its read and the patch is not seen.

## Fairness

`QueueSpec` assumes of the process only that its parts go on: `WF(Worker)` (nothing
in `Reconcile` waits for another process, requests return or fail; an idle worker
takes the next key), `WF(Elapse(w))` (timers fire), `WF(Watch)` (the watch
delivers) and `WF(ResyncAll)` (`SyncPeriod`, 5 minutes). Nothing is assumed of
single clusters: that every one is served (`EveryClusterServed`) follows from the
order of the queue. CAPZ does its work for every cluster and endpoint (`WF`).

`BringUpSpec` assumes both workers, both watches and CAPZ to go on as above, the
user to create the cluster, and CAPI to start on a control plane that is not
paused and, if it can work on it time and again, to get it initialized
(`SF(CapiInitialize)`).

In `ProviderConfigs` the same is assumed of the worker, the watches and the
queue, `WF` of the end of CAPI's deletion of a Cluster, and `WF` of
`CrossplaneRemove`: the uses of a ProviderConfig in deletion come to an end. In
`ControlPlaneGate` `SF(GetControlPlane)` rests on `SyncPeriod` alone, since an
error of the patch queues nothing; nothing is assumed of CAPI.

Nothing is assumed of users, failures or crashes; they are bounded, so that
they stop at some point.

## Proofs

The theorems hold for every set of clusters, links, addresses, names and gates,
every bound, every choice of LB types; the assumptions on the constants are the
named `ASSUME`s of the modules, plus those in the statement.

| theorem | statement | assumes |
|---|---|---|
| `TypeCorrect`, `ConfigTypeCorrect`, `GateTypeCorrect` | `Spec => []TypeOK` | |
| `ReleaseInvariant`, `ReleaseSafe` | `Spec => []ReleaseInv`, `Spec => ReleasedOnlyWhenDeleting` | nothing: stale cache, failures, crashes, edits and name reuse included |
| `HistoryInvariant`, `ReadyInvariant`, `ReadySafe` | `Spec => []HistoryInv`, `Spec => []ReadyInv`, `Spec => []ReadyAfterPublished` | nothing |
| `WrittenInvariant`, `PublishInvariant`, `DoneSafe` | `Spec => []WrittenInv`, `Spec => []PublishInv`, `Spec => []DoneMeansPublished` | nothing |
| `ForeignInvariant`, `ForeignEndpointsSafe` | `Spec => []ForeignInv`, `Spec => OnlyOwnEndpoints` | nothing |
| `CleanInvariant`, `CleanReported` | `Spec => []CleanInv`, `Spec => CleanOrReported` | nothing |
| `LifecycleInvariant`, `ImplementsLifecycle` | `Spec => []LifecycleInv`, `Spec => FollowsLifecycle` | nothing |
| `QueueImplements`, `QueueSafe`, `QueueTypeCorrect` | `QueueSpec => Spec`, `QueueSpec => ReleasedOnlyWhenDeleting /\ []ReadyAfterPublished`, `QueueSpec => []QueueTypeOK` | nothing |
| `WakeInvariant`, `NothingLost` | `QueueSpec => []WakeInv`, `QueueSpec => []NothingForgotten` | nothing |
| `InstalledSafe` | `InstalledSpec => ReleasedOnlyWhenDeleting /\ []ReadyAfterPublished /\ []NothingForgotten /\ []QueueTypeOK` | nothing |
| `BringUpInvariant`, `ConnectedSafe` | `BringUpSpec => []BringUpInv`, `BringUpSpec => ConnectedBeforeRelease` | `Undisturbed` |
| `BringUpReady` | `BringUpSpec => []ReadyAfterPublished` | nothing |
| `HoldInvariant`, `ConfigSafe` | `Spec => []HoldInv`, `Spec => []ConfigHeld` | nothing |
| `GateInvariant`, `GateSafe` | `Spec => []GateInv`, `Spec => GateHolds` | nothing |

"Nothing" means: with cached reads however stale, edits, failures, crashes, name
reuse and any names of resource groups. Only `ConnectedSafe` has a hypothesis of
its own, and each part of `Undisturbed` left out leads to one of the observations
above. The five violated properties are no theorems; what the code does guarantee
in their place is `ForeignEndpointsSafe`, `CleanReported`, `ImplementsLifecycle`
and `GateSafe`.

*ReleaseSafe.* A merge patch removes the finalizer if the copy had it when it
was read and the deletion path took it off. With a stale read the stored object
may by then be a new cluster of the same name. `ReleaseInv` says why that does
no harm: wherever the operator sees a held cluster in deletion, in the cache or
in its before-image, the stored object of that name is either that cluster,
still in deletion, or one on which the operator does not hold its finalizer.
This is not inductive by itself, since the operator may be about to put the
finalizer on the stored object while the cache still shows the older one in
deletion; the third conjunct (`HoldPending`) excludes it: the operator takes
hold of a cluster only after it read it live and without the finalizer, and the
cache only moves forward from there. `CopyInv` records what the body of
`Reconcile` has done to the finalizers of the copy.

*ForeignEndpointsSafe.* `ForeignInv`: from the read of the MC to its patch, the
list in hand has the endpoints of every other cluster as they were read, or, after
the clean-up of unused endpoints, none of those whose resource group continues the
name of the one at hand. The patch stores the list in hand or nothing, so another
cluster's endpoints stay or become what was read. How old the read is plays no part
in it.

*CleanReported.* `Removable(req)` are the endpoints that the deletion is to
remove: those in the list that was read, for links that may be used on what was
read of the cluster. `CleanInv`: after the deletion path the list to be written,
and after `PatchMC` the stored list, has none of them. If the patch is empty the
list in hand is the one that was read, so there was nothing to remove, whatever is
stored; that only private clusters have endpoints is needed here, because the
deletion of a public one removes nothing. If the patch of the MC fails the stored
list is the old one, but then a fault has happened and the outcome is an error,
which no later step turns into success: the second deferred call only ever makes it
worse.

*ReadySafe.* The condition is set in memory when the copy is complete. What is
published need not be in the patch, though: a field that the copy shows unchanged
is not sent, and the copy may come from a stale read of an earlier cluster of the
same name. `HistoryInv` says that this does no harm: a cluster the operator does
not hold yet has nothing published on it (`Fresh` implies `Blank`), because the
finalizer is set first and goes out in the same request as the annotations; and
whatever a cached or copied living object that is held shows as published is
published on the stored one (`Holding`, `Keeps`), because only the single worker
writes these fields and it only adds to them. It contains `ReleaseInv`: without
it a held cluster could be replaced by a new one under the stale copy. `ReadyInv`
adds that the stored condition is complete, or that the reconciliation at hand
has just stored it and has everything else in its second request.

*DoneSafe.* `PublishInv` follows what success will be returned for through the
steps: in the loop the endpoints of the links that were visited are in `mcCopy`
and those of the others still in `todo`; before `PatchMC` they are in `mcCopy`,
after it in `mc`, or in `mcOrig` if the patch was empty; the addresses are in
`wcCopy` until the second request of the WC has been accepted. A request that is
refused or fails turns the outcome into an error. It contains `ReadyInv` because a
field that is not sent must be there.

*ImplementsLifecycle.* Step simulation: every step of `Next` is mapped to a step
of `Lifecycle!Next` or a stutter, group by group as in the table above. `ForeignInv`
makes the patch of the MC a `Write` of one cluster, `LifecycleInv` says what that
cluster gains and loses by it, `CleanInv` gives `Release` its removed endpoints or
its failure, and `HistoryInv` (with `ReleaseInv`) relates the phase and the
finalizer at the moment of the write to what was read: a cluster that is let go is
in deletion and not a living successor of the one in hand. An address that is new
comes with an endpoint in hand, which is then stored, or was in the list, or the
job has failed. `LifecycleInv` rests on `PublishInv` for the loop, which has added
an endpoint before it finds an address.

*QueueImplements.* Every step of `QueueNext` is a step of `Next` or leaves its
variables alone. So the theorems about `Spec` carry over.

*NothingLost.* Work is lost when a reconciliation ends without a key for another
one although the cluster is not done. `WakeInv` puts three things together.
`WrittenInv` (from `ReadyInv`): success is returned for a living
cluster only if the copy is complete, and by then what the copy changed has been
stored. The before-image of the key at hand is what the cache shows, unless an
event has made the key wait for another turn. And a cached object with work left
has its key queued, waiting or at hand, or is `Passed`: the stored object is ahead
of it in the field that the worker wrote. Such a cached object cannot equal the
stored one, so the next event, or the list of a restart, changes it and queues the
key. `Passed` has to say in which field the stored object is ahead, and by how
much, because the worker must not be able to fall back: the finalizer and the
addresses are only added to a living cluster, and a cluster in deletion is not
held again (`HistoryInv`, `ReleaseInv`). The fields a user or CAPZ can change back
play no part in it.

*InstalledSafe.* `contention` starts with clusters that exist before the
operator; the same invariants hold initially there.

*ConnectedSafe.* `Shows(c)` says of an object of the new cluster, stored, cached,
before-image or copy, that if it has the condition the cluster is `Up`: gateway
and, for a private cluster, every link have an address in Azure. The gate decides
on a cached object, so its decision implies `Up` too (`OpeningInv`). What is left
is that `Up` lasts, that is, that no endpoint is taken out of a spec once it has an
address. For the gateway this is the merge patch: the copy has it if the
before-image has (`GatewayInv`). For the links the whole list is written back, and
it may come from a stale read. `ListsInv` is the order argument that saves it: an
endpoint is in the list only if those of all earlier links have an address, the
loop stops at the first one without, so a list computed from a stale one is either
that list, in which case the patch is empty, or has every endpoint that is stored.

*BringUpReady.* Every step is a step of `AzureClusterReconciler` or leaves its
variables, the count of faults aside, alone, except `Die`, which ends both reconciliations and, when only
the gate was at work, still refreshes the cache.

*ConfigSafe.* A ProviderConfig is written only while its Cluster is held, and a
Cluster is released only while there is no live ProviderConfig of its name; the
single worker keeps others from writing one in between. With stale reads the
difficulty is in what the operator believes of a Cluster. `HoldInv` says: a
cached or copied Cluster that is held and lives is still held in the API server,
so a finalizer that is not sent again is there; one that is held and leaves has
no held and living successor under its name, so releasing it takes nothing from
a new Cluster. The conjunct for `pc \in {"identity", "hold"}` makes this
inductive, as `HoldPending` does above.

*GateSafe.* `GateInv`: wherever all gates are seen as met, in the API server, in
the cache, or in the decision to unpause that is about to be sent, they have
been met at one moment. Together with `UnpausedByPatch` (no step other than a
patch computed as an unpause unpauses a control plane) this gives the theorem.

The proofs about `AzureClusterReconciler` group the actions by what they can
write (`Open`, `Body`, `WriteMC`, `WriteWC`, `Leave`, the others) and state once what each group leaves alone;
the invariants are then shown group by group.

Only model-checked: `Converges`, `EveryClusterServed`, `UnusedEndpointsRemoved`,
`BroughtUp`, `ConfigsConverge` and `GateSettles`, which need fairness and are out
of the prover's reach, and the violations, which are counterexamples. Every invariant and action property of the passing runs is
the statement of a theorem.

## Not modelled

* Flags, metrics and health probes of `main.go`, the constructors of the
  reconcilers, the choice among Azure credential types and of the subnet: start-up
  and configuration; where they fail in a reconciliation it is `ReadFails`. That
  leader election leaves one active
  process is an assumption above.
* The work queues of the other two controllers: their specifications assume that
  their objects are served, as `WorkQueue` shows it for the first.
* The WC's subnets as a list that CAPZ writes too. The gateway endpoint is one
  field of the model; CAPZ's own changes of the subnet list are not.
* Several endpoint connections per endpoint: the code creates one.
* The owner lookup of the watch on AzureClusters (control plane controller
  245-269), which only decides when a control plane is queued early, and a nil
  owner Cluster, which is dereferenced there (259) and in the preflight check
  (213): the model's control plane always has its Cluster.
* Mocks, test helpers, Helm chart and manifests.

## Plan

Done, in this order: `AzureClusters` and `PrivateEndpoints`, the core
`AzureClusterReconciler` and its proofs, `ProviderConfigs`, `ControlPlaneGate`,
`WorkQueue`, `ClusterBringUp`, `EndpointLifecycle` and the refinement, the proofs
about the condition and about success, about the work queue, about clean-up after
failures, and about the two controllers together. Left: the endpoint list as a
sequence, with the removal by name from the end, and the conditions as a list to
which `SetCondition` appends, shown to be the set operations and records used
here.

## Running

    tlc -workers 2 -config shared_list.cfg MCWorkQueue       # edits, recovery, contention
    tlc -workers 2 -config name_prefix.cfg MCAzureCluster    # first_reconcile, patch_failure, stale_release
    tlc -workers 2 -config bring_up.cfg MCClusterBringUp
    tlc -workers 2 -config provider_configs.cfg MCProviderConfigs
    tlc -workers 2 -config gate.cfg MCControlPlaneGate       # gate_stuck
    tlapm AzureClusterReconciler_proofs.tla
    tlapm EndpointLifecycle_proofs.tla
    tlapm ReadyCondition_proofs.tla
    tlapm Published_proofs.tla
    tlapm WorkQueue_proofs.tla
    tlapm ClusterBringUp_proofs.tla
    tlapm ProviderConfigs_proofs.tla
    tlapm ControlPlaneGate_proofs.tla

The longest runs, `contention` and `bring_up`, take about two minutes each.
