-------------------------- MODULE ProviderConfigs --------------------------
(***************************************************************************)
(* controllers/providerconfig_controller.go: for every Cluster whose       *)
(* identity it understands the reconciler keeps a Crossplane               *)
(* ProviderConfig, which it removes when the Cluster is deleted.  A        *)
(* finalizer on the Cluster holds it until then.                           *)
(*                                                                         *)
(* Unlike the AzureCluster reconciler it writes at once what it changes:   *)
(* the finalizer first and the ProviderConfig second, and in deletion the  *)
(* other way round.  ProviderConfigs are cluster-scoped and named after    *)
(* the Cluster without its namespace.                                      *)
(***************************************************************************)
EXTENDS ApiServer, Naturals

CONSTANTS
    Clusters,       \* Clusters, by namespace and name
    Names,          \* names without a namespace
    NameOf,         \* the name of a Cluster without its namespace
    Infos,          \* identityInfo: client, subscription and tenant
    NoInfo,         \* an object is missing, or the identity is not supported
    MaxCreates,     \* bound on the creations of Clusters
    MaxDeletes,     \* bound on their deletions
    MaxEdits,       \* bound on the changes of a Cluster's identity
    MaxFaults       \* bound on failed requests and operator crashes

Finalizers == {"providerconfig", "capi"}

Cluster == [deleting : BOOLEAN, finalizers : SUBSET Finalizers]

\* Crossplane keeps a ProviderConfig that is in use in deletion.
ProviderConfig == [deleting : BOOLEAN, info : Infos]

ASSUME NamesAssumption == NameOf \in [Clusters -> Names]

ASSUME ValuesAssumption ==
    /\ NoInfo \notin Infos
    /\ Absent \notin Cluster /\ Absent \notin ProviderConfig

ASSUME BoundsAssumption ==
    /\ MaxCreates \in Nat /\ MaxDeletes \in Nat
    /\ MaxEdits \in Nat /\ MaxFaults \in Nat

VARIABLES
    cluster,        \* API server: the Clusters
    config,         \* API server: the ProviderConfigs
    identity,       \* API server: what a Cluster's references lead to
    clusterCache,   \* the operator's informer cache of cluster
    identityCache,  \* the operator's informer caches of identity
    pc,             \* where the running reconciliation is
    req,            \* the Cluster it is for
    orig,           \* the Cluster as it was read
    info,           \* the identity as it was read
    creates, deletes, edits, faults     \* how often each has happened

cache == <<clusterCache, identityCache>>
locals == <<pc, req, orig, info>>
bounds == <<creates, deletes, edits, faults>>
vars == <<cluster, config, identity, cache, locals, bounds>>

PCs == {"idle", "identity", "hold", "get", "create", "patch", "delete", "release"}

TypeOK ==
    /\ cluster \in [Clusters -> Cluster \cup {Absent}]
    /\ config \in [Names -> ProviderConfig \cup {Absent}]
    /\ identity \in [Clusters -> Infos \cup {NoInfo}]
    /\ clusterCache \in [Clusters -> Cluster \cup {Absent}]
    /\ identityCache \in [Clusters -> Infos \cup {NoInfo}]
    /\ pc \in PCs
    /\ pc # "idle" => req \in Clusters /\ orig \in Cluster
    /\ pc \in {"hold", "get", "create", "patch"} => info \in Infos
    /\ creates \in 0..MaxCreates
    /\ deletes \in 0..MaxDeletes
    /\ edits \in 0..MaxEdits
    /\ faults \in 0..MaxFaults

Init ==
    /\ cluster = [c \in Clusters |-> Absent]
    /\ config = [n \in Names |-> Absent]
    /\ identity = [c \in Clusters |-> NoInfo]
    /\ clusterCache = cluster
    /\ identityCache = identity
    /\ pc = "idle" /\ req = Absent /\ orig = Absent /\ info = NoInfo
    /\ creates = 0 /\ deletes = 0 /\ edits = 0 /\ faults = 0

Fault == faults < MaxFaults /\ faults' = faults + 1

\* Reconcile returns, with or without an error, or the process dies.
Return == pc' = "idle" /\ req' = Absent /\ orig' = Absent /\ info' = NoInfo

-----------------------------------------------------------------------------
(* The patch of the Cluster's finalizers.                                  *)

AddFinalizer(c) == [c EXCEPT !.finalizers = @ \cup {"providerconfig"}]
RemoveFinalizer(c) == [c EXCEPT !.finalizers = @ \ {"providerconfig"}]

Patched(before, after, current) ==
    [current EXCEPT !.finalizers = Merged(before.finalizers, after.finalizers, @)]

\* A request is sent only for a change; it fails when the Cluster is gone or
\* the API server refuses it.
PatchRefused(before, after, current) ==
    /\ after # before
    /\ current # Absent => ~Accepted(current, Patched(before, after, current))

AfterPatch(before, after, current) ==
    IF after = before \/ PatchRefused(before, after, current)
    THEN current
    ELSE Stored(Patched(before, after, current))

\* The Cluster at hand after its copy was patched to become after.
PatchCluster(after) ==
    cluster' = [cluster EXCEPT ![req] = AfterPatch(orig, after, @)]

-----------------------------------------------------------------------------
(* Reconcile and reconcileNormal.                                          *)

\* Mutant: a Cluster that is not found is not an early return.
GetClusterUnchecked(c) ==
    /\ pc = "idle"
    /\ pc' = "identity"
    /\ req' = c
    /\ orig' = clusterCache[c]
    /\ UNCHANGED <<cluster, config, identity, cache, info, bounds>>

\* A Cluster that is not found returns with nothing changed.
GetCluster(c) ==
    /\ pc = "idle"
    /\ clusterCache[c] # Absent
    /\ pc' = IF clusterCache[c].deleting THEN "delete" ELSE "identity"
    /\ req' = c
    /\ orig' = clusterCache[c]
    /\ UNCHANGED <<cluster, config, identity, cache, info, bounds>>

GetIdentity ==
    /\ pc = "identity"
    /\ identityCache[req] # NoInfo
    /\ info' = identityCache[req]
    /\ pc' = "hold"
    /\ UNCHANGED <<cluster, config, identity, cache, req, orig, bounds>>

NoIdentity ==
    /\ pc = "identity"
    /\ identityCache[req] = NoInfo
    /\ Return
    /\ UNCHANGED <<cluster, config, identity, cache, bounds>>

\* Mutant: the ProviderConfig is written although the patch was refused.
HoldClusterUnchecked ==
    /\ pc = "hold"
    /\ PatchCluster(AddFinalizer(orig))
    /\ pc' = "get"
    /\ UNCHANGED <<config, identity, cache, req, orig, info, bounds>>

HoldCluster ==
    /\ pc = "hold"
    /\ ~PatchRefused(orig, AddFinalizer(orig), cluster[req])
    /\ PatchCluster(AddFinalizer(orig))
    /\ pc' = "get"
    /\ UNCHANGED <<config, identity, cache, req, orig, info, bounds>>

HoldRefused ==
    /\ pc = "hold"
    /\ PatchRefused(orig, AddFinalizer(orig), cluster[req])
    /\ Return
    /\ UNCHANGED <<cluster, config, identity, cache, bounds>>

\* The request fails, or it is carried out and its answer is lost.
HoldFails ==
    /\ pc = "hold"
    /\ AddFinalizer(orig) # orig
    /\ Fault
    /\ UNCHANGED cluster \/ PatchCluster(AddFinalizer(orig))
    /\ Return
    /\ UNCHANGED <<config, identity, cache, creates, deletes, edits>>

\* CreateOrPatch: the Get, then one of two requests.
GetConfig ==
    /\ pc = "get"
    /\ pc' = IF config[NameOf[req]] = Absent THEN "create" ELSE "patch"
    /\ UNCHANGED <<cluster, config, identity, cache, req, orig, info, bounds>>

CreateConfig ==
    /\ pc = "create"
    /\ config[NameOf[req]] = Absent
    /\ config' = [config EXCEPT ![NameOf[req]] = [deleting |-> FALSE, info |-> info]]

\* A ProviderConfig that went away since the Get is not found any more.
WithInfo(p, i) == IF p = Absent THEN Absent ELSE [p EXCEPT !.info = i]

PatchConfig ==
    /\ pc = "patch"
    /\ config' = [config EXCEPT ![NameOf[req]] = WithInfo(@, info)]

WriteConfig ==
    /\ CreateConfig \/ PatchConfig
    /\ Return
    /\ UNCHANGED <<cluster, identity, cache, bounds>>

WriteConfigFails ==
    /\ \/ CreateConfig \/ PatchConfig
       \/ pc \in {"create", "patch"} /\ UNCHANGED config
    /\ Fault
    /\ Return
    /\ UNCHANGED <<cluster, identity, cache, creates, deletes, edits>>

\* One of the Gets fails.
GetFails ==
    /\ pc \in {"identity", "get"}
    /\ Fault
    /\ Return
    /\ UNCHANGED <<cluster, config, identity, cache, creates, deletes, edits>>

-----------------------------------------------------------------------------
(* reconcileDelete.                                                        *)

\* A ProviderConfig that is in use stays in deletion; one that is not found
\* is no error.
RemoveConfig ==
    \/ config' = [config EXCEPT ![NameOf[req]] = Absent]
    \/ /\ config[NameOf[req]] # Absent
       /\ config' = [config EXCEPT ![NameOf[req]] = Marked(@)]

DeleteConfig ==
    /\ pc = "delete"
    /\ RemoveConfig
    /\ pc' = "release"
    /\ UNCHANGED <<cluster, identity, cache, req, orig, info, bounds>>

\* Mutant: the error of the deletion is not returned.
DeleteConfigFailsOn ==
    /\ pc = "delete"
    /\ Fault
    /\ pc' = "release"
    /\ UNCHANGED <<cluster, config, identity, cache, req, orig, info, creates, deletes, edits>>

DeleteConfigFails ==
    /\ pc = "delete"
    /\ Fault
    /\ UNCHANGED config \/ RemoveConfig
    /\ Return
    /\ UNCHANGED <<cluster, identity, cache, creates, deletes, edits>>

\* Mutant: the finalizer stays.
ReleaseClusterNot ==
    /\ pc = "release"
    /\ Return
    /\ UNCHANGED <<cluster, config, identity, cache, bounds>>

ReleaseCluster ==
    /\ pc = "release"
    /\ PatchCluster(RemoveFinalizer(orig))
    /\ Return
    /\ UNCHANGED <<config, identity, cache, bounds>>

ReleaseFails ==
    /\ pc = "release"
    /\ RemoveFinalizer(orig) # orig
    /\ Fault
    /\ Return
    /\ UNCHANGED <<cluster, config, identity, cache, creates, deletes, edits>>

-----------------------------------------------------------------------------
(* The operator's process and its caches, one informer for each kind.      *)

SyncClusters ==
    /\ clusterCache' = cluster
    /\ UNCHANGED <<cluster, config, identity, identityCache, locals, bounds>>

SyncIdentities ==
    /\ identityCache' = identity
    /\ UNCHANGED <<cluster, config, identity, clusterCache, locals, bounds>>

Crash ==
    /\ pc # "idle"
    /\ Fault
    /\ Return
    /\ clusterCache' = cluster
    /\ identityCache' = identity
    /\ UNCHANGED <<cluster, config, identity, creates, deletes, edits>>

-----------------------------------------------------------------------------
(* Users, the Cluster controller of CAPI, and Crossplane.                  *)

Create(c) ==
    /\ cluster[c] = Absent
    /\ creates < MaxCreates
    /\ creates' = creates + 1
    /\ cluster' = [cluster EXCEPT ![c] = [deleting |-> FALSE, finalizers |-> {}]]
    /\ UNCHANGED <<config, identity, cache, locals, deletes, edits, faults>>

Delete(c) ==
    /\ cluster[c] # Absent
    /\ ~cluster[c].deleting
    /\ deletes < MaxDeletes
    /\ deletes' = deletes + 1
    /\ cluster' = [cluster EXCEPT ![c] = Stored(Marked(@))]
    /\ UNCHANGED <<config, identity, cache, locals, creates, edits, faults>>

\* An infrastructure object or an identity is created, changed or deleted.
SetIdentity(c, i) ==
    /\ identity[c] # i
    /\ edits < MaxEdits
    /\ edits' = edits + 1
    /\ identity' = [identity EXCEPT ![c] = i]
    /\ UNCHANGED <<cluster, config, cache, locals, creates, deletes, faults>>

CapiAddFinalizer(c) ==
    /\ cluster[c] # Absent
    /\ ~cluster[c].deleting
    /\ "capi" \notin cluster[c].finalizers
    /\ cluster' = [cluster EXCEPT ![c].finalizers = @ \cup {"capi"}]
    /\ UNCHANGED <<config, identity, cache, locals, bounds>>

WithoutCapi(c) == [c EXCEPT !.finalizers = @ \ {"capi"}]

CapiRemoveFinalizer(c) ==
    /\ cluster[c] # Absent
    /\ cluster[c].deleting
    /\ "capi" \in cluster[c].finalizers
    /\ cluster' = [cluster EXCEPT ![c] = Stored(WithoutCapi(@))]
    /\ UNCHANGED <<config, identity, cache, locals, bounds>>

\* The last use of a ProviderConfig in deletion has gone.
CrossplaneRemove(n) ==
    /\ config[n] # Absent
    /\ config[n].deleting
    /\ config' = [config EXCEPT ![n] = Absent]
    /\ UNCHANGED <<cluster, identity, cache, locals, bounds>>

-----------------------------------------------------------------------------
\* The steps of a running reconciliation in which nothing fails.
Continue ==
    \/ GetIdentity \/ NoIdentity
    \/ HoldCluster \/ HoldRefused
    \/ GetConfig \/ WriteConfig
    \/ DeleteConfig \/ ReleaseCluster

Failure ==
    \/ GetFails \/ HoldFails \/ WriteConfigFails
    \/ DeleteConfigFails \/ ReleaseFails
    \/ Crash

Others ==
    \/ \E c \in Clusters :
            \/ Create(c) \/ Delete(c)
            \/ CapiAddFinalizer(c) \/ CapiRemoveFinalizer(c)
            \/ \E i \in Infos \cup {NoInfo} : SetIdentity(c, i)
    \/ \E n \in Names : CrossplaneRemove(n)

Next ==
    \/ \E c \in Clusters : GetCluster(c)
    \/ Continue \/ Failure
    \/ SyncClusters \/ SyncIdentities
    \/ Others

Spec == Init /\ [][Next]_vars

\* As in AzureClusterReconciler: the worker finishes what it started, watches
\* deliver, and every Cluster is queued again and again (SyncPeriod, errors).
\* CAPI finishes a deletion, and the uses of a ProviderConfig come to an end.
Fairness ==
    /\ WF_vars(Continue)
    /\ WF_vars(SyncClusters) /\ WF_vars(SyncIdentities)
    /\ \A c \in Clusters : /\ SF_vars(GetCluster(c))
                           /\ WF_vars(CapiRemoveFinalizer(c))
    /\ \A n \in Names : WF_vars(CrossplaneRemove(n))

FairSpec == Spec /\ Fairness

-----------------------------------------------------------------------------
(* What the reconciler has to guarantee.                                   *)

Held(c) == cluster[c] # Absent /\ "providerconfig" \in cluster[c].finalizers

\* A ProviderConfig on its way out does not count.
Live(n) == config[n] # Absent /\ ~config[n].deleting

\* No ProviderConfig is left without a Cluster that will remove it: one of its
\* name carries the finalizer, whatever was deleted, created again under its
\* name, read from a stale cache, lost or interrupted (the order of the writes
\* in reconcileNormal and reconcileDelete).
ConfigHeld ==
    \A n \in Names : Live(n) => \E c \in Clusters : NameOf[c] = n /\ Held(c)

\* In the end every Cluster is gone or has, if its identity is understood, the
\* finalizer and a ProviderConfig with its identity, or with that of another
\* Cluster of its name, with which it takes turns (Reconcile's retries).
ConfigsConverge ==
    <>[](\A c \in Clusters :
            \/ cluster[c] = Absent
            \/ /\ ~cluster[c].deleting
               /\ identity[c] # NoInfo =>
                    /\ Held(c)
                    /\ Live(NameOf[c])
                    /\ \E d \in Clusters :
                            /\ NameOf[d] = NameOf[c] /\ cluster[d] # Absent
                            /\ config[NameOf[c]].info = identity[d])

-----------------------------------------------------------------------------
(* Why ConfigHeld holds.                                                   *)

Holding(c) == c # Absent /\ ~c.deleting /\ "providerconfig" \in c.finalizers
Leaving(c) == c # Absent /\ c.deleting /\ "providerconfig" \in c.finalizers

NormalPCs == {"identity", "hold", "get", "create", "patch"}
DeletePCs == {"delete", "release"}

\* A cached or copied Cluster that is held and lives is still held; one that
\* is held and leaves has no successor that is held and lives; and nothing
\* is released while its ProviderConfig is there (the single worker).
HoldInv ==
    /\ ConfigHeld
    /\ pc \in NormalPCs => ~orig.deleting
    /\ pc \in DeletePCs => orig.deleting
    /\ \A c \in Clusters : /\ Holding(clusterCache[c]) => Held(c)
                           /\ Leaving(clusterCache[c]) => ~Holding(cluster[c])
    /\ (pc \in NormalPCs /\ Holding(orig)) => Held(req)
    /\ pc \in {"get", "create", "patch"} => Held(req)
    /\ (pc \in DeletePCs /\ Leaving(orig)) =>
            ~Holding(cluster[req]) /\ ~Holding(clusterCache[req])
    /\ (pc \in {"identity", "hold"} /\ Leaving(clusterCache[req])) =>
            Leaving(cluster[req])
    /\ pc = "release" => ~Live(NameOf[req])
=============================================================================
