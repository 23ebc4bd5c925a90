----------------------- MODULE AzureClusterInvariants -----------------------
(***************************************************************************)
(* Why the properties of AzureClusterReconciler hold: inductive            *)
(* invariants of the objects as they are stored, cached and in hand.       *)
(***************************************************************************)
EXTENDS AzureClusterReconciler

\* An object on which the deletion path has the finalizer to remove.
Leaving(c) == c # Absent /\ c.deleting /\ "operator" \in c.finalizers

\* What the body of Reconcile does to the finalizers of the copy.
CopyInv ==
    pc # "idle" =>
        /\ wcCopy.deleting = wcOrig.deleting
        /\ pc = "getMC" => wcCopy = wcOrig
        /\ pc \in {"api", "ingress"} => ~wcOrig.deleting
        /\ pc \in {"api", "ingress", "closeMC", "closeWC"} =>
              wcCopy.finalizers = IF wcOrig.deleting
                                  THEN wcOrig.finalizers \ {"operator"}
                                  ELSE wcOrig.finalizers \cup {"operator"}

\* The reconciliation has yet to put the finalizer on a live cluster.
HoldPending ==
    /\ pc # "idle"
    /\ ~wcOrig.deleting /\ "operator" \notin wcOrig.finalizers
    /\ pc = "closeWC" => "object" \in parts

\* Wherever the operator sees a cluster in deletion that it holds, in its
\* cache or in its hands, the cluster of that name is not a newer one that it
\* holds already; and while it is about to take hold of a cluster, a deletion
\* that shows up in the cache is the stored cluster's own (removeFinalizer,
\* setFinalizer and the deferred patches over a stale cache).
ReleaseInv ==
    /\ CopyInv
    /\ \A w \in WorkloadClusters :
            Leaving(wcCache[w]) => (Held(w) => wc[w].deleting)
    /\ (pc # "idle" /\ Leaving(wcOrig)) => (Held(req) => wc[req].deleting)
    /\ (HoldPending /\ Leaving(wcCache[req])) => Leaving(wc[req])

\* The list of endpoints that is going to be written differs from the one that
\* was read in endpoints to the cluster at hand, and, if the clean-up of unused
\* endpoints has run, in the loss of those to clusters whose resource group
\* continues the name of the one at hand.
ForeignInv ==
    pc \in {"api", "ingress", "closeMC"} =>
        \A w \in WorkloadClusters \ {req} :
            \/ EndpointsOf(w, mcCopy) = EndpointsOf(w, mcOrig)
            \/ /\ <<req, w>> \in RGPrefix /\ ~wcOrig.deleting
               /\ EndpointsOf(w, mcCopy) = {}

\* Only private clusters have endpoints, wherever a list of them is; once the
\* deletion path has left the body of Reconcile the list to be written, and
\* once it is written the stored list, has none that was to be removed, unless
\* a request failed and is reported (DeleteMcToWcApi, the order of the deferred
\* calls and their errors).
CleanInv ==
    /\ CopyInv
    /\ \A e \in mc \cup mcCache \cup mcOrig \cup mcCopy : LBType[e.wc] = "Internal"
    /\ pc # "idle" => /\ wcCopy.privateLinks = wcOrig.privateLinks
                      /\ wcCopy.allowed = wcOrig.allowed
    /\ pc = "api" => LBType[req] = "Internal"
    /\ (pc = "closeMC" /\ wcOrig.deleting) =>
            /\ mcCopy \cap Removable(req) = {}
            /\ mcCopy \subseteq mcOrig
    /\ (pc = "closeWC" /\ wcOrig.deleting) =>
            mc \cap Removable(req) = {} \/ (faults > 0 /\ outcome = "error")

\* From the read of the MC to its patch, the endpoints in hand to the cluster
\* are those that were read without the ones to be removed if it is in
\* deletion; otherwise none that has a link is missing, and none was added that
\* has no usable link.  An address that is going to be announced is one, and
\* comes with endpoints in hand, which are then stored unless that failed;
\* nothing is to be reported before the body of Reconcile is left.
LifecycleInv ==
    /\ pc \in {"idle", "getMC", "api", "ingress"} => outcome = "none"
    /\ (pc \in {"api", "ingress", "closeMC"} /\ wcOrig.deleting) =>
            EndpointsOf(req, mcCopy) = EndpointsOf(req, mcOrig) \ Removable(req)
    /\ (pc \in {"api", "ingress", "closeMC"} /\ ~wcOrig.deleting) =>
            /\ \A e \in EndpointsOf(req, mcOrig) :
                    e.link \in wcOrig.privateLinks => e \in mcCopy
            /\ \A e \in EndpointsOf(req, mcCopy) \ mcOrig :
                    e.link \in GetPrivateLinksWithAllowedSubscription(wcOrig)
    /\ (pc # "idle" /\ wcCopy.apiServerIP # wcOrig.apiServerIP) =>
            /\ ~wcOrig.deleting
            /\ wcCopy.apiServerIP # NoIP
            /\ \/ EndpointsOf(req, IF pc = "closeWC" THEN mc \cup mcOrig ELSE mcCopy) # {}
               \/ pc = "closeWC" /\ outcome = "error"

\* An object that the operator does not hold yet, as it was created: none of
\* what Reconcile publishes is on it.
Fresh(c) == c # Absent /\ ~c.deleting /\ "operator" \notin c.finalizers
Blank(c) == ~c.gateway /\ c.apiServerIP = NoIP /\ c.mcIngressIP = NoIP

\* A living object that the operator holds.
Holding(c) == c # Absent /\ ~c.deleting /\ "operator" \in c.finalizers

\* What is published on c is, in the same or another value, published on d.
Keeps(c, d) ==
    /\ c.gateway => d.gateway
    /\ c.apiServerIP # NoIP => d.apiServerIP # NoIP
    /\ c.mcIngressIP # NoIP => d.mcIngressIP # NoIP

\* However stale a read is, what it shows as published on a living cluster is
\* still published on the cluster of that name, which is then the same one;
\* the reconciler only ever adds to it (setFinalizer before everything else,
\* the single worker, and one request for finalizer and annotations).
HistoryInv ==
    /\ ReleaseInv
    /\ \A w \in WorkloadClusters :
            /\ Fresh(wc[w]) => Blank(wc[w])
            /\ Fresh(wcCache[w]) => Blank(wcCache[w])
            /\ Holding(wcCache[w]) => Held(w) /\ Keeps(wcCache[w], wc[w])
    /\ pc # "idle" =>
            /\ Fresh(wcOrig) => Blank(wcOrig)
            /\ Holding(wcOrig) => Held(req) /\ Keeps(wcOrig, wc[req])
            /\ Leaving(wcOrig) => ~Holding(wcCache[req])
            /\ Keeps(wcOrig, wcCopy)
            /\ wcOrig.deleting => /\ wcCopy.gateway = wcOrig.gateway
                                  /\ wcCopy.apiServerIP = wcOrig.apiServerIP
                                  /\ wcCopy.mcIngressIP = wcOrig.mcIngressIP

\* Everything that GSPrivateLinksReady announces is on the object c of w.
Complete(w, c) ==
    /\ c.gateway /\ c.mcIngressIP # NoIP
    /\ LBType[w] = "Internal" => c.apiServerIP # NoIP

\* The condition is set in memory when the copy is complete, and stored no
\* sooner than in the request before the one that stores all the rest.
ReadyInv ==
    /\ HistoryInv
    /\ pc = "api" => todo # {} \/ wcCopy.apiServerIP # NoIP
    /\ (pc = "ingress" /\ LBType[req] = "Internal") => wcCopy.apiServerIP # NoIP
    /\ (pc # "idle" /\ wcCopy.gsReady # wcOrig.gsReady) =>
            /\ pc \in {"closeMC", "closeWC"} /\ wcCopy.gsReady
            /\ Complete(req, wcCopy) /\ ~wcOrig.deleting
    /\ (pc = "closeWC" /\ "status" \in parts) => parts = PatchParts
    /\ faults = 0 =>
        \A w \in WorkloadClusters :
            (wc[w] # Absent /\ ~wc[w].deleting /\ wc[w].gsReady) =>
                \/ Complete(w, wc[w])
                \/ /\ req = w /\ pc = "closeWC" /\ parts = {"object"}
                   /\ Complete(w, wcCopy) /\ ~wcOrig.deleting

\* The endpoint of every usable link of w, which object c has, is among eps.
Connected(w, c, eps) ==
    LET links == GetPrivateLinksWithAllowedSubscription(c)
    IN  links # {} /\ \A l \in links : EndpointFor(w, l) \in eps

\* All that Reconcile is to put on a living cluster of that name is on c.
Published(w, c) ==
    /\ LBType[w] = "Internal" => c.apiServerIP # NoIP
    /\ McLBType = "Internal" => c.gateway /\ c.mcIngressIP # NoIP /\ c.gsReady

\* However stale the reads: success for a living cluster is reported only with
\* everything in the copy, and while success is going to be reported, what the
\* copy changed in the cluster that was read is in the stored one as soon as
\* the request for it is sent (the errors of the deferred calls).
WrittenInv ==
    /\ ReadyInv
    /\ pc \in {"closeMC", "closeWC"} => outcome # "none"
    /\ (pc \in {"closeMC", "closeWC"} /\ outcome = "done" /\ ~wcOrig.deleting) =>
            Published(req, wcCopy)
    /\ (pc = "closeWC" /\ outcome = "done" /\ "object" \notin parts) =>
            /\ ~wcOrig.deleting => Held(req)
            /\ Leaving(wcOrig) => ~Held(req)
            /\ ~wcOrig.deleting =>
                /\ wcCopy.gateway # wcOrig.gateway => wc[req].gateway = wcCopy.gateway
                /\ wcCopy.apiServerIP # wcOrig.apiServerIP =>
                        wc[req].apiServerIP = wcCopy.apiServerIP
                /\ wcCopy.mcIngressIP # wcOrig.mcIngressIP =>
                        wc[req].mcIngressIP = wcCopy.mcIngressIP
    /\ (/\ pc = "closeWC" /\ outcome = "done" /\ "status" \notin parts
        /\ Holding(wcOrig) /\ wcCopy.gsReady # wcOrig.gsReady) =>
            wc[req].gsReady = wcCopy.gsReady

\* The endpoints for which success is reported are first in the list in hand,
\* those of the links still to be visited apart, and then in the stored one or
\* in the one that was read (ReconcileMcToWcApi and the patch of the MC).
PublishInv ==
    /\ WrittenInv
    /\ pc = "api" =>
        /\ LBType[req] = "Internal"
        /\ todo \subseteq GetPrivateLinksWithAllowedSubscription(wcCopy)
        /\ Connected(req, wcCopy, mcCopy \cup {EndpointFor(req, l) : l \in todo})
    /\ (pc = "ingress" /\ LBType[req] = "Internal") => Connected(req, wcCopy, mcCopy)
    /\ (/\ pc \in {"closeMC", "closeWC"} /\ outcome = "done"
        /\ ~wcOrig.deleting /\ LBType[req] = "Internal") =>
            Connected(req, wcCopy, IF pc = "closeMC" THEN mcCopy ELSE mc \cup mcOrig)
=============================================================================
