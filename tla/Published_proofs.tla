-------------------------- MODULE Published_proofs --------------------------
(***************************************************************************)
(* However stale the reads are, Reconcile returns success only for what is *)
(* stored, for any clusters, links, edits, failures and crashes.           *)
(***************************************************************************)
EXTENDS ReadyCondition_proofs

-----------------------------------------------------------------------------
(* Success means that what was changed in the copy is stored.              *)

\* The parts of WrittenInv: what success is reported for, and what the request
\* for the object and the one for the status have stored.
ReportedInv ==
    pc \in {"closeMC", "closeWC"} =>
        /\ outcome # "none"
        /\ (outcome = "done" /\ ~wcOrig.deleting) => Published(req, wcCopy)

ObjectWritten ==
    /\ ~wcOrig.deleting => Held(req)
    /\ Leaving(wcOrig) => ~Held(req)
    /\ ~wcOrig.deleting =>
        /\ wcCopy.gateway # wcOrig.gateway => wc[req].gateway = wcCopy.gateway
        /\ wcCopy.apiServerIP # wcOrig.apiServerIP =>
                wc[req].apiServerIP = wcCopy.apiServerIP
        /\ wcCopy.mcIngressIP # wcOrig.mcIngressIP =>
                wc[req].mcIngressIP = wcCopy.mcIngressIP

StatusWritten ==
    (Holding(wcOrig) /\ wcCopy.gsReady # wcOrig.gsReady) => wc[req].gsReady = wcCopy.gsReady

SentInv ==
    (pc = "closeWC" /\ outcome = "done") =>
        /\ "object" \notin parts => ObjectWritten
        /\ "status" \notin parts => StatusWritten

\* WrittenInv has these parts.
LEMMA WrittenParts == WrittenInv <=> ReadyInv /\ ReportedInv /\ SentInv
BY DEF WrittenInv, ReportedInv, SentInv, ObjectWritten, StatusWritten

\* Opening the scopes ends in success only where there is nothing to publish.
LEMMA OpenReported ==
    ASSUME TypeOK, CopyInv, Open
    PROVE  ReportedInv'
<1>1. UNCHANGED <<req, wcOrig>> /\ pc = "getMC" /\ wcCopy.deleting = wcOrig.deleting
  BY OpenStep DEF KeptByOpen, CopyInv
<1>2. CASE ReconcilePublic
  BY <1>1, <1>2 DEF ReconcilePublic, ContinueWithIngress, CloseWith, ReportedInv, Published
<1>3. CASE NoAllowedLinks \/ PrivateLinksNotReady
  <2>1. outcome' \in {"requeue", "error"}
    BY <1>3 DEF NoAllowedLinks, PrivateLinksNotReady, CloseWith, CloseWithError
  <2> QED
    BY <2>1 DEF ReportedInv
<1>4. CASE ReconcileMcToWcApi
  BY <1>4 DEF ReconcileMcToWcApi, ReportedInv
<1>5. CASE ReconcileDelete
  BY <1>1, <1>5 DEF ReconcileDelete, CloseWith, ReportedInv
<1> QED
  BY <1>2, <1>3, <1>4, <1>5 DEF Open

\* The body ends in success only with everything in the copy.
LEMMA BodyReported ==
    ASSUME TypeOK, CopyReady, Body
    PROVE  ReportedInv'
<1>1. req' = req /\ wcCopy \in AzureCluster
  BY BodyStep DEF KeptByBody, TypeOK
<1>2. ASSUME NEW l \in Links, EndpointFound(l) PROVE ReportedInv'
  BY <1>2 DEF EndpointFound, VisitLink, ReportedInv
<1>3. ASSUME NEW l \in Links, EndpointPending(l) \/ EndpointLookupFails(l)
      PROVE  ReportedInv'
  <2>1. outcome' \in {"requeue", "error"}
    BY <1>3 DEF EndpointPending, EndpointLookupFails, CloseWith, CloseWithError
  <2> QED
    BY <2>1 DEF ReportedInv
<1>4. CASE LinksVisited
  <2>1. /\ wcCopy' = wcCopy /\ wcCopy.apiServerIP # NoIP
        /\ pc' = "ingress" \/ (McLBType # "Internal" /\ outcome' = "done")
    BY <1>4 DEF LinksVisited, ContinueWithIngress, CloseWith, CopyReady
  <2> QED
    BY <1>1, <2>1 DEF ReportedInv, Published
<1>5. CASE GatewayFound
  <2>1. /\ pc = "ingress" /\ wcCopy'.gateway /\ wcCopy'.mcIngressIP # NoIP /\ wcCopy'.gsReady
        /\ wcCopy'.apiServerIP = wcCopy.apiServerIP /\ outcome' = "done"
    BY <1>1, <1>5 DEF GatewayFound, VisitGateway, CloseWith, AzureCluster
  <2> QED
    BY <1>1, <2>1 DEF ReportedInv, Published, CopyReady
<1>6. CASE GatewayPending \/ GatewayLookupFails
  <2>1. outcome' \in {"requeue", "error"}
    BY <1>6 DEF GatewayPending, GatewayLookupFails, CloseWith, CloseWithError
  <2> QED
    BY <2>1 DEF ReportedInv
<1> QED
  BY <1>2, <1>3, <1>4, <1>5, <1>6 DEF Body

\* What the request for the object makes of its fields.
LEMMA PatchedFields ==
    ASSUME NEW before \in AzureCluster, NEW after \in AzureCluster,
           NEW current \in AzureCluster, NEW p, p = PatchedObject(before, after, current)
    PROVE  /\ p.finalizers = Merged(before.finalizers, after.finalizers, current.finalizers)
           /\ p.gateway = Merged(before.gateway, after.gateway, current.gateway)
           /\ p.apiServerIP = Merged(before.apiServerIP, after.apiServerIP, current.apiServerIP)
           /\ p.mcIngressIP = Merged(before.mcIngressIP, after.mcIngressIP, current.mcIngressIP)
           /\ p # Absent
<1>1. p \in AzureCluster
  BY PatchedType
<1> QED
  BY <1>1, AbsentAssumption DEF PatchedObject, AzureCluster

\* The request for the object stores what the copy changed unless it is
\* refused, whatever the object has become since it was read.
LEMMA ObjectSent ==
    ASSUME TypeOK, HistoryInv, PatchWC("object"), outcome' = "done"
    PROVE  ObjectWritten'
<1>0. HandInv /\ CopyInv
  BY HistoryParts DEF ReleaseInv
<1>1. PICK w \in WorkloadClusters : w = req
  BY DEF PatchWC, TypeOK
<1> DEFINE p == PatchedObject(wcOrig, wcCopy, wc[w])
<1>2. /\ pc = "closeWC" /\ UNCHANGED <<req, wcOrig, wcCopy>>
      /\ ~PatchRefused("object", wcOrig, wcCopy, wc[w])
      /\ wc' = [wc EXCEPT ![w] = AfterPatch("object", wcOrig, wcCopy, wc[w])]
  BY <1>1 DEF PatchWC, copies
<1>3. /\ wcOrig \in AzureCluster /\ wcCopy \in AzureCluster /\ wcOrig # Absent
      /\ wc \in [WorkloadClusters -> AzureCluster \cup {Absent}]
      /\ wcCopy.finalizers = IF wcOrig.deleting
                             THEN wcOrig.finalizers \ {"operator"}
                             ELSE wcOrig.finalizers \cup {"operator"}
  BY <1>0, <1>2, AbsentAssumption DEF TypeOK, CopyInv
<1>4. ASSUME wc[w] \in AzureCluster
      PROVE  /\ p.finalizers = Merged(wcOrig.finalizers, wcCopy.finalizers, wc[w].finalizers)
             /\ p.gateway = Merged(wcOrig.gateway, wcCopy.gateway, wc[w].gateway)
             /\ p.apiServerIP
                    = Merged(wcOrig.apiServerIP, wcCopy.apiServerIP, wc[w].apiServerIP)
             /\ p.mcIngressIP
                    = Merged(wcOrig.mcIngressIP, wcCopy.mcIngressIP, wc[w].mcIngressIP)
             /\ p # Absent
  BY <1>3, <1>4, PatchedFields
<1>5. CASE Holding(wcOrig)
  <2>1. Held(w) /\ wc[w] \in AzureCluster /\ wcCopy.finalizers = wcOrig.finalizers
    BY <1>0, <1>1, <1>2, <1>3, <1>5 DEF HandInv, Held, Holding
  <2>2. p.finalizers = wc[w].finalizers /\ "operator" \in p.finalizers
    BY <1>4, <2>1 DEF Merged, Held
  <2> HIDE DEF p
  <2>3. wc'[w] = p
    BY <1>2, <1>3, <2>1, <2>2 DEF AfterPatch, Accepted, Stored, Held, p
  <2> QED
    BY <1>1, <1>2, <1>4, <1>5, <2>1, <2>2, <2>3
       DEF ObjectWritten, Held, Merged, Holding, Leaving
<1>6. CASE wcCopy.finalizers # wcOrig.finalizers
  <2>1. Changed("object", wcOrig, wcCopy)
    <3>1. PatchedObject(wcOrig, wcCopy, wcOrig).finalizers = wcCopy.finalizers
      BY <1>3, <1>6 DEF PatchedObject, Merged, AzureCluster
    <3> QED
      BY <1>6, <3>1 DEF Changed
  <2>2. wc[w] # Absent /\ wc[w] \in AzureCluster /\ Accepted(wc[w], p)
    BY <1>2, <1>3, <2>1 DEF PatchRefused
  <2>3. p.finalizers = wcCopy.finalizers /\ p # Absent
    BY <1>4, <1>6, <2>2 DEF Merged
  <2> HIDE DEF p
  <2>4. wc'[w] = Stored(p)
    BY <1>2, <1>3, <2>2 DEF AfterPatch, p
  <2>5. CASE wcOrig.deleting
    BY <1>1, <1>2, <1>3, <2>3, <2>4, <2>5 DEF ObjectWritten, Held, Stored, Holding
  <2>6. CASE ~wcOrig.deleting
    <3>1. "operator" \in p.finalizers /\ wc'[w] = p
      BY <1>3, <2>3, <2>4, <2>6 DEF Stored
    <3> QED
      BY <1>1, <1>2, <1>4, <2>2, <2>3, <2>6, <3>1 DEF ObjectWritten, Held, Leaving, Merged
  <2> QED
    BY <2>5, <2>6
<1>7. CASE ~Holding(wcOrig) /\ wcCopy.finalizers = wcOrig.finalizers
  <2>1. wcOrig.deleting /\ ~Leaving(wcOrig)
    BY <1>3, <1>7 DEF Holding, Leaving
  <2> QED
    BY <1>2, <1>7, <2>1 DEF ObjectWritten
<1> QED
  BY <1>5, <1>6, <1>7

\* So does the request for the status, and the other one keeps it.
LEMMA StatusSent ==
    ASSUME TypeOK, HistoryInv, NEW part \in PatchParts, PatchWC(part),
           part = "object" => StatusWritten
    PROVE  StatusWritten'
<1>0. HandInv /\ CopyInv
  BY HistoryParts DEF ReleaseInv
<1>1. PICK w \in WorkloadClusters : w = req
  BY DEF PatchWC, TypeOK
<1>2. KeptByWriteWC(part)
  BY <1>0, WriteWCStep DEF WriteWC
<1>3. /\ pc = "closeWC" /\ UNCHANGED <<req, wcOrig, wcCopy>>
      /\ wcOrig \in AzureCluster /\ wcCopy \in AzureCluster
      /\ wc \in [WorkloadClusters -> AzureCluster \cup {Absent}]
      /\ wc'[w] = AfterPatch(part, wcOrig, wcCopy, wc[w])
  BY <1>1, <1>2 DEF KeptByWriteWC, PatchWC, TypeOK
<1> SUFFICES ASSUME Holding(wcOrig), wcCopy.gsReady # wcOrig.gsReady
             PROVE  wc'[w].gsReady = wcCopy.gsReady
  BY <1>1, <1>3 DEF StatusWritten
<1>4. Held(w) /\ Held(w)' /\ Keeps(wcOrig, wcCopy)
  BY <1>0, <1>1, <1>2, <1>3 DEF HandInv, KeptByWriteWC, Held, Holding, Leaving
<1>5. wc[w] \in AzureCluster /\ wc[w] # Absent /\ wc'[w] # Absent
  BY <1>3, <1>4 DEF Held
<1>6. CASE part = "status"
  <2>1. wc'[w] = PatchedStatus(wcOrig, wcCopy, wc[w])
    BY <1>3, <1>5, <1>6 DEF AfterPatch
  <2> QED
    BY <1>5, <2>1 DEF PatchedStatus, Merged, AzureCluster
<1>7. CASE part = "object"
  <2>1. wc'[w].gsReady = wc[w].gsReady
    BY <1>3, <1>4, <1>5, <1>7, AfterPatchFields
  <2> QED
    BY <1>1, <1>7, <2>1 DEF StatusWritten
<1> QED
  BY <1>6, <1>7 DEF PatchParts

\* Every step keeps WrittenInv.
LEMMA WrittenStep ==
    ASSUME TypeOK, WrittenInv, [Next]_vars
    PROVE  WrittenInv'
<1>0. /\ ReadyInv /\ ReportedInv /\ SentInv
      /\ HistoryInv /\ CopyReady /\ CopyInv /\ HandInv
  BY WrittenParts, ReadyParts, HistoryParts DEF HistoryInv, ReleaseInv
<1> SUFFICES ReportedInv' /\ SentInv'
  <2>1. ReadyInv'
    BY <1>0, ReadyStep
  <2> QED
    BY <2>1, WrittenParts, PTL
<1>1. ASSUME NEW w \in WorkloadClusters, GetWorkloadCluster(w) PROVE ReportedInv' /\ SentInv'
  BY <1>1 DEF GetWorkloadCluster, ReportedInv, SentInv
<1>2. CASE Open
  <2>1. pc' # "closeWC"
    BY <1>2, OpenStep DEF KeptByOpen
  <2> QED
    BY <1>0, <1>2, <2>1, OpenReported DEF SentInv
<1>3. CASE Body
  <2>1. pc' # "closeWC"
    BY <1>3, BodyStep DEF KeptByBody
  <2> QED
    BY <1>0, <1>3, <2>1, BodyReported DEF SentInv
<1>4. CASE WriteMC
  <2>1. /\ pc = "closeMC" /\ UNCHANGED <<req, wcOrig, wcCopy>> /\ parts' = PatchParts
        /\ outcome' \in {outcome, "error"}
    BY <1>4 DEF WriteMC, PatchMC, PatchMCFails, copies
  <2> QED
    BY <1>0, <2>1 DEF ReportedInv, SentInv, PatchParts
<1>5. CASE Leave
  BY <1>5 DEF Leave, ReadFails, Return, Crash, ClearLocals,
     ReportedInv, SentInv
<1>6. ASSUME NEW part \in PatchParts, WriteWC(part) PROVE ReportedInv' /\ SentInv'
  <2>1. /\ UNCHANGED <<pc, req, wcOrig, wcCopy>> /\ pc = "closeWC"
        /\ part \in parts /\ parts' = parts \ {part}
    BY <1>0, <1>6, WriteWCStep DEF KeptByWriteWC
  <2>2. outcome' = "done" => outcome = "done" /\ PatchWC(part)
    BY <1>6 DEF WriteWC, PatchWC, PatchWCFails
  <2>3. ReportedInv'
    <3>1. outcome' \in {outcome, "error"}
      BY <1>6 DEF WriteWC, PatchWC, PatchWCFails
    <3> QED
      BY <1>0, <2>1, <3>1 DEF ReportedInv
  <2>4. ("object" \notin parts' => part = "object") /\ (part = "object" => "status" \notin parts)
    BY <1>0, <1>6, <2>1 DEF CopyReady, PatchParts, WriteWC, PatchWC, PatchWCFails, NextPart
  <2>5. (outcome' = "done" /\ "object" \notin parts') => ObjectWritten'
    BY <1>0, <2>2, <2>4, ObjectSent
  <2>6. outcome' = "done" => StatusWritten'
    BY <1>0, <2>1, <2>2, <2>4, StatusSent DEF SentInv
  <2> QED
    BY <2>3, <2>5, <2>6 DEF SentInv
<1>7. CASE Sync \/ (\E e \in Endpoint : CapzEndpoint(e)) \/ UNCHANGED vars
  <2>1. UNCHANGED <<wc, locals>>
    BY <1>7 DEF Sync, CapzEndpoint, CapzCreateEndpoint, CapzDeleteEndpoint, vars, api
  <2> QED
    BY <1>0, <2>1 DEF ReportedInv, SentInv, ObjectWritten, StatusWritten, Held, locals, copies
<1>8. ASSUME NEW w \in WorkloadClusters, WrittenByOthers(w) PROVE ReportedInv' /\ SentInv'
  <2>1. KeptByOthers(w) /\ OthersKeep(w) /\ (pc # "idle" => req \in WorkloadClusters)
    BY <1>8, OthersStep, OthersFields DEF TypeOK
  <2>2. UNCHANGED <<pc, req, wcOrig, wcCopy, parts, outcome>>
    BY <2>1 DEF KeptByOthers
  <2>3. pc # "idle" =>
            /\ Held(req) <=> Held(req)'
            /\ Held(req) => /\ SameFields(wc[req], wc'[req])
                            /\ wc'[req].gsReady = wc[req].gsReady
    BY <2>1, <2>2 DEF KeptByOthers, OthersKeep, Held, SameFields
  <2>4. (pc # "idle" /\ Holding(wcOrig)) => Held(req)
    BY <1>0 DEF HandInv
  <2>5. pc # "idle" => /\ ObjectWritten => ObjectWritten'
                       /\ StatusWritten => StatusWritten'
    BY <2>2, <2>3, <2>4 DEF ObjectWritten, StatusWritten, SameFields
  <2> QED
    BY <1>0, <2>2, <2>5 DEF ReportedInv, SentInv
<1> QED
  BY <1>1, <1>2, <1>3, <1>4, <1>5, <1>6, <1>7, <1>8, Groups

\* WrittenInv holds in every reachable state, whatever is stale: a merge patch
\* that no deferred call reports as failed has stored what the copy changed,
\* although the object may have been edited, deleted or created anew since it
\* was read.
THEOREM WrittenInvariant == Spec => []WrittenInv
<1>1. Init => WrittenInv
  BY DEF Init, Start, WrittenInv, ReadyInv, HistoryInv, ReleaseInv, CopyInv, HoldPending,
     Leaving, Held, Fresh, Holding
<1>2. TypeOK /\ WrittenInv /\ [Next]_vars => WrittenInv'
  BY WrittenStep
<1> QED
  BY <1>1, <1>2, TypeCorrect, PTL DEF Spec

-----------------------------------------------------------------------------
(* The endpoints for which success is reported.                            *)

\* The parts of PublishInv: the list of endpoints in hand, and the endpoints
\* with which success is reported.
ListInv ==
    /\ pc = "api" =>
        /\ LBType[req] = "Internal"
        /\ todo \subseteq GetPrivateLinksWithAllowedSubscription(wcCopy)
        /\ Connected(req, wcCopy, mcCopy \cup {EndpointFor(req, l) : l \in todo})
    /\ (pc = "ingress" /\ LBType[req] = "Internal") => Connected(req, wcCopy, mcCopy)

ResultInv ==
    (/\ pc \in {"closeMC", "closeWC"} /\ outcome = "done"
     /\ ~wcOrig.deleting /\ LBType[req] = "Internal") =>
        Connected(req, wcCopy, IF pc = "closeMC" THEN mcCopy ELSE mc \cup mcOrig)

\* PublishInv has these parts.
LEMMA PublishParts == PublishInv <=> WrittenInv /\ ListInv /\ ResultInv
BY DEF PublishInv, ListInv, ResultInv

\* Removing unused endpoints keeps those of the links in use.
LEMMA UsedKept ==
    ASSUME NEW w, NEW c, NEW eps, Connected(w, c, eps)
    PROVE  Connected(w, c, RemoveUnusedEndpoints(w, c, eps))
BY DEF Connected, RemoveUnusedEndpoints, LookupPrivateLink, EndpointFor,
   GetPrivateLinksWithAllowedSubscription

\* What is connected depends on the object's links only, and on no endpoint
\* more than theirs.
LEMMA ConnectedKept ==
    ASSUME NEW w, NEW c, NEW d, NEW eps, NEW more, Connected(w, c, eps), eps \subseteq more,
           d.privateLinks = c.privateLinks, d.allowed = c.allowed
    PROVE  Connected(w, d, more)
BY DEF Connected, GetPrivateLinksWithAllowedSubscription

\* A step of the body keeps the MC's endpoints ahead of the links visited, and
\* ends in success only when everything is there.
LEMMA BodyPublish ==
    ASSUME TypeOK, ListInv, Body
    PROVE  ListInv' /\ ResultInv'
<1>1. /\ UNCHANGED <<req, wcOrig>> /\ pc \in {"api", "ingress"}
      /\ wcCopy'.privateLinks = wcCopy.privateLinks /\ wcCopy'.allowed = wcCopy.allowed
      /\ wcCopy \in AzureCluster
  BY BodyStep DEF KeptByBody, TypeOK
<1>2. /\ pc = "api" => LBType[req] = "Internal"
      /\ GetPrivateLinksWithAllowedSubscription(wcCopy')
            = GetPrivateLinksWithAllowedSubscription(wcCopy)
  BY <1>1 DEF ListInv, GetPrivateLinksWithAllowedSubscription
<1>3. ASSUME NEW l \in Links, EndpointFound(l) PROVE ListInv' /\ ResultInv'
  <2>1. /\ pc = "api" /\ pc' = "api" /\ todo' = todo \ {l}
        /\ mcCopy' = mcCopy \cup {EndpointFor(req, l)}
    BY <1>3 DEF EndpointFound, VisitLink, AddPrivateEndpointSpec
  <2>2. mcCopy \cup {EndpointFor(req, k) : k \in todo}
            \subseteq mcCopy' \cup {EndpointFor(req, k) : k \in todo'}
    BY <2>1
  <2>3. Connected(req, wcCopy', mcCopy' \cup {EndpointFor(req, k) : k \in todo'})
    BY <1>1, <2>1, <2>2, ConnectedKept DEF ListInv
  <2> QED
    BY <1>1, <1>2, <2>1, <2>3 DEF ListInv, ResultInv
<1>4. ASSUME NEW l \in Links, EndpointPending(l) \/ EndpointLookupFails(l)
      PROVE  ListInv' /\ ResultInv'
  <2>1. pc' = "closeMC" /\ outcome' \in {"requeue", "error"}
    BY <1>4 DEF EndpointPending, EndpointLookupFails, CloseWith, CloseWithError
  <2> QED
    BY <1>1, <2>1 DEF ListInv, ResultInv
<1>5. CASE LinksVisited
  <2>1. /\ pc = "api" /\ todo = {} /\ wcCopy' = wcCopy
        /\ mcCopy' = RemoveUnusedEndpoints(req, wcCopy, mcCopy)
        /\ \/ pc' = "ingress"
           \/ pc' = "closeMC" /\ McLBType # "Internal"
    BY <1>5 DEF LinksVisited, ContinueWithIngress, CloseWith
  <2>2. {EndpointFor(req, k) : k \in todo} = {}
    BY <2>1
  <2>3. Connected(req, wcCopy, mcCopy)
    BY <2>1, <2>2 DEF ListInv
  <2>4. Connected(req, wcCopy', mcCopy')
    BY <2>1, <2>3, UsedKept
  <2> QED
    BY <1>1, <2>1, <2>4 DEF ListInv, ResultInv
<1>6. CASE GatewayFound
  <2>1. pc = "ingress" /\ pc' = "closeMC" /\ mcCopy' = mcCopy
    BY <1>6 DEF GatewayFound, VisitGateway, CloseWith
  <2>2. LBType[req] = "Internal" => Connected(req, wcCopy', mcCopy')
    BY <1>1, <2>1, ConnectedKept DEF ListInv
  <2> QED
    BY <1>1, <2>1, <2>2 DEF ListInv, ResultInv
<1>7. CASE GatewayPending \/ GatewayLookupFails
  <2>1. pc' = "closeMC" /\ outcome' \in {"requeue", "error"}
    BY <1>7 DEF GatewayPending, GatewayLookupFails, CloseWith, CloseWithError
  <2> QED
    BY <1>1, <2>1 DEF ListInv, ResultInv
<1> QED
  BY <1>3, <1>4, <1>5, <1>6, <1>7 DEF Body

\* So does opening the scopes: a path that ends here in success is the
\* deletion's, or there is nothing to publish.
LEMMA OpenPublish ==
    ASSUME TypeOK, CopyInv, Open
    PROVE  ListInv' /\ ResultInv'
<1>1. /\ UNCHANGED <<req, wcOrig>> /\ pc = "getMC"
      /\ wcCopy'.privateLinks = wcCopy.privateLinks /\ wcCopy'.allowed = wcCopy.allowed
      /\ wcCopy.deleting = wcOrig.deleting
  BY OpenStep DEF KeptByOpen, CopyInv
<1>2. GetPrivateLinksWithAllowedSubscription(wcCopy')
        = GetPrivateLinksWithAllowedSubscription(wcCopy)
  BY <1>1 DEF GetPrivateLinksWithAllowedSubscription
<1>3. CASE ReconcilePublic
  <2>1. /\ LBType[req] # "Internal"
        /\ pc' = "ingress" \/ (pc' = "closeMC" /\ McLBType # "Internal")
    BY <1>3 DEF ReconcilePublic, ContinueWithIngress, CloseWith
  <2> QED
    BY <1>1, <2>1 DEF ListInv, ResultInv
<1>4. CASE NoAllowedLinks \/ PrivateLinksNotReady
  <2>1. pc' = "closeMC" /\ outcome' \in {"requeue", "error"}
    BY <1>4 DEF NoAllowedLinks, PrivateLinksNotReady, CloseWith, CloseWithError
  <2> QED
    BY <1>1, <2>1 DEF ListInv, ResultInv
<1>5. CASE ReconcileMcToWcApi
  <2>1. /\ pc' = "api" /\ LBType[req] = "Internal"
        /\ GetPrivateLinksWithAllowedSubscription(wcCopy) # {}
        /\ todo' = GetPrivateLinksWithAllowedSubscription(wcCopy)
    BY <1>5 DEF ReconcileMcToWcApi
  <2>2. Connected(req, wcCopy', mcCopy' \cup {EndpointFor(req, k) : k \in todo'})
    BY <1>2, <2>1 DEF Connected
  <2> QED
    BY <1>1, <1>2, <2>1, <2>2 DEF ListInv, ResultInv
<1>6. CASE ReconcileDelete
  <2>1. pc' = "closeMC" /\ wcOrig'.deleting
    BY <1>1, <1>6 DEF ReconcileDelete, CloseWith
  <2> QED
    BY <1>1, <2>1 DEF ListInv, ResultInv
<1> QED
  BY <1>3, <1>4, <1>5, <1>6 DEF Open

\* If the first deferred call reports no error, the endpoints are stored, or
\* they were in the list that was read.
LEMMA WriteMCPublish ==
    ASSUME ResultInv, WriteMC
    PROVE  ListInv' /\ ResultInv'
<1>1. /\ pc = "closeMC" /\ pc' = "closeWC"
      /\ UNCHANGED <<req, wcOrig, wcCopy, mcOrig>>
  BY DEF WriteMC, PatchMC, PatchMCFails, copies
<1>2. CASE PatchMC
  <2>1. mcCopy \subseteq mc' \cup mcOrig' /\ outcome' = outcome
    BY <1>1, <1>2 DEF PatchMC, Merged
  <2>2. Connected(req, wcCopy, mcCopy) => Connected(req, wcCopy, mc' \cup mcOrig')
    BY <2>1, ConnectedKept
  <2> QED
    BY <1>1, <2>1, <2>2 DEF ListInv, ResultInv
<1>3. CASE PatchMCFails
  BY <1>1, <1>3 DEF PatchMCFails, ListInv, ResultInv
<1> QED
  BY <1>2, <1>3 DEF WriteMC

\* Every step keeps PublishInv.
LEMMA PublishStep ==
    ASSUME TypeOK, PublishInv, [Next]_vars
    PROVE  PublishInv'
<1>0. WrittenInv /\ ListInv /\ ResultInv /\ CopyInv
  BY PublishParts DEF WrittenInv, ReadyInv, HistoryInv, ReleaseInv
<1> SUFFICES ListInv' /\ ResultInv'
  <2>1. WrittenInv'
    BY <1>0, WrittenStep
  <2> QED
    BY <2>1, PublishParts, PTL
<1>1. ASSUME NEW w \in WorkloadClusters, GetWorkloadCluster(w) PROVE ListInv' /\ ResultInv'
  BY <1>1 DEF GetWorkloadCluster, ListInv, ResultInv
<1>2. CASE Open
  BY <1>0, <1>2, OpenPublish
<1>3. CASE Body
  BY <1>0, <1>3, BodyPublish
<1>4. CASE WriteMC
  BY <1>0, <1>4, WriteMCPublish
<1>5. CASE Leave
  BY <1>5 DEF Leave, ReadFails, Return, Crash, ClearLocals, ListInv, ResultInv
<1>6. ASSUME NEW part \in PatchParts, WriteWC(part) PROVE ListInv' /\ ResultInv'
  <2>1. /\ UNCHANGED <<mc, pc, req, wcOrig, wcCopy, mcOrig, mcCopy>> /\ pc = "closeWC"
        /\ outcome' \in {outcome, "error"}
    BY <1>6 DEF WriteWC, PatchWC, PatchWCFails, copies
  <2> QED
    BY <1>0, <2>1 DEF ListInv, ResultInv
<1>7. CASE Sync \/ (\E e \in Endpoint : CapzEndpoint(e)) \/ UNCHANGED vars
  <2>1. UNCHANGED <<mc, locals>>
    BY <1>7 DEF Sync, CapzEndpoint, CapzCreateEndpoint, CapzDeleteEndpoint, vars, api
  <2> QED
    BY <1>0, <2>1 DEF ListInv, ResultInv, locals, copies
<1>8. ASSUME NEW w \in WorkloadClusters, WrittenByOthers(w) PROVE ListInv' /\ ResultInv'
  BY <1>0, <1>8, OthersStep DEF KeptByOthers, ListInv, ResultInv
<1> QED
  BY <1>1, <1>2, <1>3, <1>4, <1>5, <1>6, <1>7, <1>8, Groups

\* PublishInv holds in every reachable state, whatever is stale.
THEOREM PublishInvariant == Spec => []PublishInv
<1>1. Init => PublishInv
  BY DEF Init, Start, PublishInv, WrittenInv, ReadyInv, HistoryInv, ReleaseInv, CopyInv,
     HoldPending, Leaving, Held, Fresh, Holding
<1>2. TypeOK /\ PublishInv /\ [Next]_vars => PublishInv'
  BY PublishStep
<1> QED
  BY <1>1, <1>2, TypeCorrect, PTL DEF Spec

\* What the copy has and did not change was stored when it was read, and what
\* is published on a living cluster stays.
LEMMA PublishMeans == ASSUME TypeOK, PublishInv PROVE DoneMeansPublished
<1> SUFFICES ASSUME pc = "closeWC", parts = {}, outcome = "done", ~wcOrig.deleting
             PROVE  /\ Held(req)
                    /\ LBType[req] = "Internal" =>
                            /\ Connected(req, wcCopy, mc \cup mcOrig)
                            /\ wc[req].apiServerIP # NoIP
                    /\ McLBType = "Internal" => wc[req].gateway /\ wc[req].mcIngressIP # NoIP
  BY DEF DoneMeansPublished, Connected
<1>1. HandInv /\ ReportedInv /\ SentInv /\ ResultInv
  BY PublishParts, WrittenParts, ReadyParts, HistoryParts
<1>2. Published(req, wcCopy) /\ ObjectWritten
  BY <1>1 DEF ReportedInv, SentInv
<1>3. Fresh(wcOrig) \/ Holding(wcOrig)
  BY AbsentAssumption DEF TypeOK, Fresh, Holding
<1>4. Blank(wcOrig) \/ Keeps(wcOrig, wc[req])
  BY <1>1, <1>3 DEF HandInv
<1> QED
  BY <1>1, <1>2, <1>4 DEF ObjectWritten, Published, Blank, Keeps, ResultInv

\* Reconcile never returns success for a living cluster unless the finalizer
\* and the addresses are stored, and with them the endpoints that the cached
\* list did not show, however stale its reads are, for any clusters and links,
\* edits during the reconciliation, refused and failed requests and lost
\* answers.
THEOREM DoneSafe == Spec => []DoneMeansPublished
<1>1. TypeOK /\ PublishInv => DoneMeansPublished
  BY PublishMeans
<1> QED
  BY <1>1, TypeCorrect, PublishInvariant, PTL
=============================================================================
