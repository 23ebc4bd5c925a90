----------------------------- MODULE WorkQueue -----------------------------
(***************************************************************************)
(* AzureClusterReconciler with the work queue that feeds it, which         *)
(* SetupWithManager and the manager's SyncPeriod set up: events of the     *)
(* watch, results of Reconcile and the resync put keys in, the worker      *)
(* takes them out.  That every cluster is reconciled again and again is    *)
(* not assumed: it follows from the order of the queue, or does not.       *)
(*                                                                         *)
(* The queue is controller-runtime's priority queue: one entry for a key,  *)
(* which is ready, to be ready later or kept back while the key is worked  *)
(* on.  The first list and the resync add keys of low priority, events of  *)
(* changes make them urgent, and a retry keeps the priority of its key.    *)
(*                                                                         *)
(* The key of the MC, which Reconcile skips, is left out of the queue: no  *)
(* workload cluster is queued when the MC changes.                         *)
(***************************************************************************)
EXTENDS AzureClusterInvariants, SequencesExt

CONSTANT
    Resync      \* TRUE: SyncPeriod queues all clusters; FALSE: it never comes

\* req is Absent while there is no key at hand.
ASSUME KeysAssumption == IsFiniteSet(WorkloadClusters) /\ Absent \notin WorkloadClusters

ASSUME ResyncAssumption == Resync \in BOOLEAN

VARIABLES
    queue,      \* the keys that are ready, in the order in which they became so
    delayed,    \* the keys that are to be ready later
    urgent,     \* those of all these keys that have more than low priority
    hurry       \* whether the key that is being worked on had more

queueState == <<queue, delayed, urgent, hurry>>
queueVars == <<vars, queueState>>

QueueTypeOK ==
    /\ queue \in Seq(WorkloadClusters) /\ IsInjective(queue)
    /\ delayed \subseteq WorkloadClusters
    /\ ToSet(queue) \cap (delayed \cup {req}) = {}
    /\ urgent \subseteq ToSet(queue) \cup delayed
    /\ hurry \in BOOLEAN

\* Every cluster that the first list shows is queued.
QueueStart(clusters) ==
    /\ Start(clusters)
    /\ queue \in SetToSeqs({w \in WorkloadClusters : wc[w] # Absent})
    /\ delayed = {} /\ urgent = {} /\ hurry = FALSE

QueueInit == QueueStart([w \in WorkloadClusters |-> Absent])

\* Mutant: the entry of a key that is to be ready later is not looked at.
AddTwice(keys) ==
    /\ \E new \in SetToSeqs(keys \ (ToSet(queue) \cup {req})) : queue' = queue \o new
    /\ delayed' = delayed \cup (keys \cap {req})

\* Adding keys that are to be ready at once, in any order.  One that is ready
\* keeps its place; the one that is being worked on waits until it is done.
Add(keys) ==
    /\ \E new \in SetToSeqs(keys \ (ToSet(queue) \cup {req})) : queue' = queue \o new
    /\ delayed' = (delayed \ keys) \cup (keys \cap {req})

Elapse(w) ==
    /\ w \in delayed
    /\ w # req
    /\ delayed' = delayed \ {w}
    /\ queue' = Append(queue, w)
    /\ UNCHANGED <<vars, urgent, hurry>>

-----------------------------------------------------------------------------
(* The worker.                                                             *)

\* An urgent key comes before all others, then the one that has been ready
\* for longer.
Due(i) ==
    /\ queue[i] \in urgent \/ ToSet(queue) \cap urgent = {}
    /\ \A j \in 1..(i - 1) : queue[i] \in urgent /\ queue[j] \notin urgent

TakeNext(w) ==
    \E i \in 1..Len(queue) : queue[i] = w /\ Due(i) /\ queue' = RemoveAt(queue, i)

Dequeue(w) ==
    /\ TakeNext(w)
    /\ GetWorkloadCluster(w)
    /\ urgent' = urgent \ {w}
    /\ hurry' = (w \in urgent)
    /\ UNCHANGED delayed

\* A key whose cluster is not found is forgotten; one whose load balancer is
\* of another type is tried again.
DequeueRefused(w) ==
    /\ TakeNext(w)
    /\ pc = "idle"
    /\ ReadWC(w) # Absent => ~(validateLBType(LBType[w]) /\ validateLBType(McLBType))
    /\ IF ReadWC(w) = Absent
       THEN urgent' = urgent \ {w} /\ UNCHANGED delayed
       ELSE delayed' = delayed \cup {w} /\ UNCHANGED urgent
    /\ UNCHANGED <<vars, hurry>>

\* Mutant: the result of a retriable error is the empty one.
RequeueErrorsOnly == {"error"}

\* Results and errors with which a key is added again, after a while.
Requeue == {"requeue", "error"}

\* The key that was worked on is done, or tried again with its priority.
Finish(again) ==
    /\ delayed' = delayed \cup (IF again THEN {req} ELSE {})
    /\ urgent' = urgent \cup (IF again /\ hurry THEN {req} ELSE {})
    /\ hurry' = FALSE
    /\ UNCHANGED queue

Done == Return /\ Finish(outcome \in Requeue)

\* Nothing but the running reconciliation moves.
Step == Continue /\ ~Return /\ UNCHANGED queueState

\* An error before the deferred calls ends the reconciliation at once.
StepFails ==
    /\ Failure
    /\ IF pc' = "idle" THEN Finish(TRUE) ELSE UNCHANGED queueState

-----------------------------------------------------------------------------
(* The watch, the resync and the process.                                  *)

\* SetupWithManager sets no predicate: every change of an object that the
\* cache sees queues its key.
Watch ==
    /\ Sync
    /\ LET keys == {w \in WorkloadClusters : wcCache'[w] # wcCache[w]}
       IN  Add(keys) /\ urgent' = urgent \cup keys
    /\ UNCHANGED hurry

\* Mutant: the period is not passed on to the cache.
ResyncNever == FALSE /\ UNCHANGED queueVars

ResyncAll ==
    /\ Resync
    /\ Add({w \in WorkloadClusters : wcCache[w] # Absent})
    /\ UNCHANGED <<vars, urgent, hurry>>

\* The queue is lost; the successor's first list queues every cluster.
Restart ==
    /\ Crash
    /\ queue' \in SetToSeqs({w \in WorkloadClusters : wc[w] # Absent})
    /\ delayed' = {} /\ urgent' = {} /\ hurry' = FALSE

-----------------------------------------------------------------------------
Worker ==
    \/ \E w \in WorkloadClusters : Dequeue(w) \/ DequeueRefused(w)
    \/ Step
    \/ Done

QueueNext ==
    \/ Worker
    \/ \E w \in WorkloadClusters : Elapse(w)
    \/ StepFails \/ Restart
    \/ Watch \/ ResyncAll
    \/ (Users \/ Capz) /\ UNCHANGED queueState

\* Every part of the process goes on, and CAPZ does its work.  Of the single
\* clusters nothing is assumed.
QueueFairness ==
    /\ WF_<<queue, locals>>(Worker)
    /\ \A w \in WorkloadClusters : WF_delayed(Elapse(w))
    /\ WF_cache(Watch)
    /\ WF_queue(ResyncAll)
    /\ \A w \in WorkloadClusters : WF_<<wc, gw>>(CapzCluster(w))
    /\ \A e \in Endpoint : WF_pe(CapzEndpoint(e))

QueueSpec == QueueInit /\ [][QueueNext]_queueVars /\ QueueFairness

\* The operator is installed where clusters exist already, with their private
\* links ready.
CapzDone ==
    [NewAzureCluster EXCEPT !.finalizers = {"capz"}, !.linksReady = TRUE]

InstalledSpec ==
    /\ QueueStart([w \in WorkloadClusters |-> CapzDone])
    /\ [][QueueNext]_queueVars
    /\ QueueFairness

-----------------------------------------------------------------------------
\* A cluster that is there is reconciled again and again, however many events
\* and retries of others are queued, all of which go before the keys of the
\* resync (SetupWithManager, RequeueAfter, SyncPeriod).
EveryClusterServed ==
    \A w \in WorkloadClusters : []<>(ReadWC(w) = Absent \/ req = w)

\* Reconcile has nothing left to put on c or to take from it.
Settled(w, c) ==
    IF c.deleting THEN "operator" \notin c.finalizers
                  ELSE "operator" \in c.finalizers /\ Published(w, c)

\* The key of w is queued, waits for its delay or is at hand.
Waiting(w) == w \in ToSet(queue) \cup delayed \/ (pc # "idle" /\ w = req)

\* Work that is left on a cluster and that the cache shows is never dropped:
\* the cluster's key is queued, delayed or at hand.  What the cache does not
\* show yet is still to come as an event (the results and errors of Reconcile,
\* events while the key is at hand, keys not found, restarts).
NothingForgotten ==
    \A w \in WorkloadClusters :
        (wc[w] # Absent /\ wcCache[w] = wc[w] /\ ~Settled(w, wc[w])) => Waiting(w)

\* The stored cluster is past what c shows of it: released, held, or further.
Passed(w, c) ==
    IF c.deleting
    THEN ~Held(w)
    ELSE /\ Held(w)
         /\ "operator" \in c.finalizers =>
                \/ wc[w].gateway /\ ~c.gateway
                \/ wc[w].apiServerIP # NoIP /\ c.apiServerIP = NoIP
                \/ wc[w].mcIngressIP # NoIP /\ c.mcIngressIP = NoIP
                \/ wc[w].gsReady /\ ~c.gsReady

\* A reconciliation works on what the cache shows unless there is an event for
\* later, and what the cache shows unfinished is waiting or stored already, so
\* that nobody but the worker itself can bring it back.
WakeInv ==
    /\ WrittenInv
    /\ (pc # "idle" /\ req \notin delayed) => wcCache[req] = wcOrig
    /\ \A w \in WorkloadClusters :
            (wcCache[w] # Absent /\ ~Settled(w, wcCache[w])) =>
                Waiting(w) \/ Passed(w, wcCache[w])

=============================================================================
