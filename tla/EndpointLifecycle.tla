-------------------------- MODULE EndpointLifecycle --------------------------
(***************************************************************************)
(* What the AzureCluster reconciler promises about the private endpoints   *)
(* of the management cluster, without copies, patches and addresses.  One  *)
(* job at a time serves one cluster.  It looks at a list of endpoints that *)
(* may be out of date, writes the list back with the endpoints of its      *)
(* cluster changed, and then takes hold of the cluster, announces its API  *)
(* server or lets go of it.                                                *)
(***************************************************************************)
CONSTANTS WorkloadClusters, Links, RGPrefix

VARIABLES
    phase,      \* of a cluster's AzureCluster
    held,       \* the clusters that have the operator's finalizer
    announced,  \* the clusters annotated with their API server's address
    connected,  \* the links to which the management cluster has endpoints
    seen,       \* the same as it was some time ago
    jobs        \* the job at hand, if there is one

lifecycle == <<phase, held, announced, connected, seen, jobs>>

\* The operator is installed where some clusters may be there already.
Init ==
    /\ phase \in [WorkloadClusters -> {"absent", "live"}]
    /\ held = {}
    /\ announced = {}
    /\ connected = [w \in WorkloadClusters |-> {}]
    /\ seen = connected
    /\ jobs = {}

\* The AzureCluster of w goes into phase p, held or not, announced or not.
Becomes(w, p, h, a) ==
    /\ phase' = [phase EXCEPT ![w] = p]
    /\ held' = IF h THEN held \cup {w} ELSE held \ {w}
    /\ announced' = IF a THEN announced \cup {w} ELSE announced \ {w}
    /\ UNCHANGED <<connected, seen>>

-----------------------------------------------------------------------------
(* The clusters.                                                           *)

Create(w) == phase[w] = "absent" /\ Becomes(w, "live", FALSE, FALSE)

\* A cluster that the operator holds stays until the operator has let go.
Delete(w) ==
    /\ phase[w] = "live"
    /\ \/ Becomes(w, "deleting", w \in held, w \in announced)
       \/ w \notin held /\ Becomes(w, "absent", FALSE, FALSE)

Vanish(w) ==
    /\ phase[w] = "deleting"
    /\ w \notin held
    /\ Becomes(w, "absent", FALSE, FALSE)

-----------------------------------------------------------------------------
(* The job.                                                                *)

\* A job for w, which has these links, some of them usable, and is leaving or
\* not.  It may have failed already.
Look(w, links, usable, leaving, failed) ==
    /\ jobs = {}
    /\ jobs' = {[ wc |-> w, list |-> seen, links |-> links, usable |-> usable,
                  leaving |-> leaving, failed |-> failed ]}
    /\ UNCHANGED <<phase, held, announced, connected, seen>>

\* The job goes on, or goes on having failed.
GoesOn(j) == jobs' = {j} \/ jobs' = {[j EXCEPT !.failed = TRUE]}

Fail(j) == GoesOn(j) /\ UNCHANGED <<phase, held, announced, connected, seen>>

\* The list is written as it was seen but for the job's own cluster: one that
\* is leaving loses its usable links, another one gains some of them and loses
\* none that it has.  Clusters with a longer name may lose theirs as well.
Write(j) ==
    /\ connected' \in [WorkloadClusters -> SUBSET Links]
    /\ IF j.leaving
       THEN connected'[j.wc] = j.list[j.wc] \ j.usable
       ELSE /\ j.list[j.wc] \cap j.links \subseteq connected'[j.wc]
            /\ connected'[j.wc] \subseteq j.list[j.wc] \cup j.usable
    /\ \A v \in WorkloadClusters \ {j.wc} :
            \/ connected'[v] = j.list[v]
            \/ ~j.leaving /\ <<j.wc, v>> \in RGPrefix /\ connected'[v] = {}
    /\ GoesOn(j)
    /\ UNCHANGED <<phase, held, announced, seen>>

\* Taking hold of a living cluster, announcing its API server, or both.
Establish(j) ==
    /\ phase[j.wc] = "live" \/ j.wc \in held
    /\ \/ Becomes(j.wc, phase[j.wc], TRUE, j.wc \in announced)
       \/ /\ ~j.leaving
          /\ connected[j.wc] \cup j.list[j.wc] # {} \/ j.failed
          /\ Becomes(j.wc, phase[j.wc], TRUE, TRUE)
    /\ GoesOn(j)

\* What was to be removed is gone, or the job will report its failure.
Release(j) ==
    /\ j.leaving
    /\ phase[j.wc] = "deleting" /\ j.wc \in held
    /\ connected[j.wc] \cap j.list[j.wc] \cap j.usable = {} \/ j.failed
    /\ \/ Becomes(j.wc, "deleting", FALSE, j.wc \in announced)
       \/ Becomes(j.wc, "absent", FALSE, FALSE)
    /\ GoesOn(j)

\* The last finalizer may be another's that the job takes with a stale list.
Drop(j) == Vanish(j.wc) /\ GoesOn(j)

Leave(j) ==
    /\ jobs' = {}
    /\ seen' \in {seen, connected}
    /\ UNCHANGED <<phase, held, announced, connected>>

Refresh == seen' = connected /\ UNCHANGED <<phase, held, announced, connected, jobs>>

-----------------------------------------------------------------------------
Next ==
    \/ \E w \in WorkloadClusters : (Create(w) \/ Delete(w) \/ Vanish(w)) /\ UNCHANGED jobs
    \/ \E w \in WorkloadClusters, links \in SUBSET Links, leaving, failed \in BOOLEAN :
            \E usable \in SUBSET links : Look(w, links, usable, leaving, failed)
    \/ \E j \in jobs : Fail(j) \/ Write(j) \/ Establish(j) \/ Release(j) \/ Drop(j) \/ Leave(j)
    \/ Refresh

Spec == Init /\ [][Next]_lifecycle
=============================================================================
