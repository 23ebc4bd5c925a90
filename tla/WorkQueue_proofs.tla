-------------------------- MODULE WorkQueue_proofs --------------------------
(***************************************************************************)
(* The reconciler behind its work queue is a reconciler: the queue decides *)
(* when a reconciliation starts, and nothing else.                         *)
(***************************************************************************)
EXTENDS WorkQueue, Published_proofs, FiniteSetTheorems

\* Every step of the queue is a step of the reconciler, or none.
LEMMA QueueStep == [QueueNext]_queueVars => [Next]_vars
<1> SUFFICES ASSUME [QueueNext]_queueVars PROVE [Next]_vars
  OBVIOUS
<1>1. ASSUME NEW w \in WorkloadClusters, Dequeue(w) PROVE Next
  BY <1>1 DEF Dequeue, Next, Operator
<1>2. CASE Step \/ Done \/ StepFails \/ Restart \/ Watch
  BY <1>2 DEF Step, Done, StepFails, Restart, Watch, Next, Operator, Continue
<1>3. CASE ResyncAll \/ UNCHANGED queueVars
           \/ \E w \in WorkloadClusters : Elapse(w) \/ DequeueRefused(w)
  BY <1>3 DEF ResyncAll, Elapse, DequeueRefused, queueVars
<1>4. CASE Users \/ Capz
  BY <1>4 DEF Next
<1> QED
  BY <1>1, <1>2, <1>3, <1>4 DEF QueueNext, Worker

\* Whatever is queued, dropped, delayed or resynced, the reconciler behind its
\* queue implements the one that may start at any time, so that all that is
\* proved of Spec holds of it (SetupWithManager).
THEOREM QueueImplements == QueueSpec => Spec
<1>1. QueueInit => Init
  BY DEF QueueInit, QueueStart, Init
<1> QED
  BY <1>1, QueueStep, PTL DEF QueueSpec, Spec

\* In particular no order of queued, retried and resynced keys makes the
\* operator release a living cluster, or show GSPrivateLinksReady too early.
THEOREM QueueSafe == QueueSpec => ReleasedOnlyWhenDeleting /\ []ReadyAfterPublished
BY QueueImplements, ReleaseSafe, ReadySafe

-----------------------------------------------------------------------------
(* No key has two entries in the queue.                                    *)

\* An ordering of some clusters is a sequence without duplicates.
LEMMA Ordering ==
    ASSUME NEW S \in SUBSET WorkloadClusters, NEW s \in SetToSeqs(S)
    PROVE  s \in Seq(S) /\ IsInjective(s)
<1>1. Cardinality(S) \in Nat
  BY KeysAssumption, FS_Subset, FS_CardinalityType
<1> QED
  BY <1>1 DEF SetToSeqs, IsInjective

\* Two sequences without duplicates and without a common element make one.
LEMMA Joined ==
    ASSUME NEW S, NEW s \in Seq(S), NEW t \in Seq(S), IsInjective(s), IsInjective(t),
           ToSet(s) \cap ToSet(t) = {}
    PROVE  s \o t \in Seq(S) /\ IsInjective(s \o t)
<1>1. s \o t \in Seq(S) /\ Len(s \o t) = Len(s) + Len(t)
  OBVIOUS
<1>2. \A i \in 1..Len(s) : \A j \in 1..Len(t) : s[i] # t[j]
  BY DEF ToSet
<1>3. \A i \in 1..Len(s \o t) :
        \/ i \in 1..Len(s) /\ (s \o t)[i] = s[i]
        \/ i - Len(s) \in 1..Len(t) /\ (s \o t)[i] = t[i - Len(s)]
  OBVIOUS
<1>4. /\ \A i, j \in 1..Len(s) : s[i] = s[j] => i = j
      /\ \A i, j \in 1..Len(t) : t[i] = t[j] => i = j
  BY DEF IsInjective
<1>5. ASSUME NEW i \in 1..Len(s \o t), NEW j \in 1..Len(s \o t), (s \o t)[i] = (s \o t)[j]
      PROVE  i = j
  BY <1>1, <1>2, <1>3, <1>4, <1>5
<1> QED
  BY <1>1, <1>5 DEF IsInjective

\* A sequence has the elements of its two parts.
LEMMA JoinedSet ==
    ASSUME NEW S, NEW s \in Seq(S), NEW t \in Seq(S)
    PROVE  ToSet(s \o t) = ToSet(s) \cup ToSet(t)
<1>1. Len(s \o t) = Len(s) + Len(t)
  OBVIOUS
<1>2. /\ \A i \in 1..Len(s) : i \in 1..Len(s \o t) /\ (s \o t)[i] = s[i]
      /\ \A i \in 1..Len(t) : /\ Len(s) + i \in 1..Len(s \o t)
                              /\ (s \o t)[Len(s) + i] = t[i]
      /\ \A i \in 1..Len(s \o t) :
            \/ i \in 1..Len(s) /\ (s \o t)[i] = s[i]
            \/ i - Len(s) \in 1..Len(t) /\ (s \o t)[i] = t[i - Len(s)]
  BY <1>1
<1>3. \A r \in Seq(S) : \A x : x \in ToSet(r) <=> \E i \in 1..Len(r) : x = r[i]
  BY DEF ToSet
<1>4. s \o t \in Seq(S)
  OBVIOUS
<1>5. ASSUME NEW x \in ToSet(s \o t) PROVE x \in ToSet(s) \cup ToSet(t)
  <2>1. PICK i \in 1..Len(s \o t) : x = (s \o t)[i]
    BY <1>3, <1>4
  <2> QED
    BY <1>2, <1>3, <2>1
<1>6. ASSUME NEW x \in ToSet(s) PROVE x \in ToSet(s \o t)
  <2>1. PICK i \in 1..Len(s) : x = s[i]
    BY <1>3
  <2>2. i \in 1..Len(s \o t) /\ x = (s \o t)[i]
    BY <1>2, <2>1
  <2> QED
    BY <1>3, <1>4, <2>2
<1>7. ASSUME NEW x \in ToSet(t) PROVE x \in ToSet(s \o t)
  <2>1. PICK i \in 1..Len(t) : x = t[i]
    BY <1>3
  <2>2. Len(s) + i \in 1..Len(s \o t) /\ x = (s \o t)[Len(s) + i]
    BY <1>2, <2>1
  <2> QED
    BY <1>3, <1>4, <2>2
<1> QED
  BY <1>5, <1>6, <1>7

\* So it is when one element is appended.
LEMMA AppendedSet ==
    ASSUME NEW S, NEW s \in Seq(S), NEW w \in S
    PROVE  ToSet(Append(s, w)) = ToSet(s) \cup {w}
<1>1. <<w>> \in Seq(S) /\ ToSet(<<w>>) = {w} /\ Append(s, w) = s \o <<w>>
  BY DEF ToSet
<1>2. PICK t \in Seq(S) : t = <<w>>
  BY <1>1
<1>3. ToSet(s \o t) = ToSet(s) \cup ToSet(t)
  BY JoinedSet
<1> QED
  BY <1>1, <1>2, <1>3

\* An ordering of a set has all its elements.
LEMMA OrderingAll ==
    ASSUME NEW S \in SUBSET WorkloadClusters, NEW s \in SetToSeqs(S)
    PROVE  ToSet(s) = S
<1> DEFINE n == Cardinality(S)
<1>1. IsFiniteSet(S) /\ n \in Nat
  BY KeysAssumption, FS_Subset, FS_CardinalityType
<1>2. Cardinality(1..n) = n
  BY <1>1, FS_Interval
<1>3. s \in [1..n -> S] /\ s \in Injection(1..n, S)
  BY DEF SetToSeqs, Injection, IsInjective
<1>4. s \in Surjection(1..n, S)
  BY <1>1, <1>2, <1>3, FS_Injection
<1>5. \A x \in S : \E i \in 1..n : s[i] = x
  BY <1>4 DEF Surjection
<1> QED
  BY <1>3, <1>5 DEF ToSet

\* Adding keys queues those that are not queued and not at hand.
LEMMA AddAll ==
    ASSUME QueueTypeOK, NEW keys \in SUBSET WorkloadClusters, Add(keys)
    PROVE  /\ queue' \in Seq(WorkloadClusters) /\ IsInjective(queue')
           /\ ToSet(queue') = ToSet(queue) \cup (keys \ {req})
           /\ delayed' = (delayed \ keys) \cup (keys \cap {req})
<1> DEFINE S == keys \ (ToSet(queue) \cup {req})
<1>1. PICK new \in SetToSeqs(S) : queue' = queue \o new
  BY DEF Add
<1>2. S \in SUBSET WorkloadClusters
  OBVIOUS
<1>3. new \in Seq(S) /\ IsInjective(new) /\ ToSet(new) = S
  BY <1>1, <1>2, Ordering, OrderingAll
<1>4. new \in Seq(WorkloadClusters) /\ ToSet(queue) \cap ToSet(new) = {}
  BY <1>2, <1>3
<1>5. queue \in Seq(WorkloadClusters) /\ IsInjective(queue) /\ req \notin ToSet(queue)
  BY DEF QueueTypeOK
<1>6. queue' \in Seq(WorkloadClusters) /\ IsInjective(queue')
  BY <1>1, <1>3, <1>4, <1>5, Joined
<1>7. ToSet(queue') = ToSet(queue) \cup ToSet(new)
  BY <1>1, <1>4, <1>5, JoinedSet
<1>8. ToSet(queue') = ToSet(queue) \cup (keys \ {req})
  BY <1>3, <1>5, <1>7
<1> QED
  BY <1>6, <1>8 DEF Add

\* Adding keys leaves one entry for each, and makes none urgent that has none.
LEMMA AddStep ==
    ASSUME QueueTypeOK, NEW keys \in SUBSET WorkloadClusters, Add(keys),
           UNCHANGED <<req, hurry>>, urgent' \subseteq urgent \cup keys
    PROVE  QueueTypeOK'
BY AddAll DEF QueueTypeOK

\* The key that is taken leaves the queue, and no other does.
LEMMA Taken ==
    ASSUME QueueTypeOK, NEW w \in WorkloadClusters, TakeNext(w)
    PROVE  /\ queue' \in Seq(WorkloadClusters) /\ IsInjective(queue')
           /\ ToSet(queue') = ToSet(queue) \ {w} /\ w \in ToSet(queue)
<1>1. PICK i \in 1..Len(queue) : queue[i] = w /\ queue' = RemoveAt(queue, i)
  BY DEF TakeNext
<1>2. queue \in Seq(WorkloadClusters) /\ Len(queue) \in Nat
  BY DEF QueueTypeOK
<1> DEFINE s == SubSeq(queue, 1, i - 1)
           t == SubSeq(queue, i + 1, Len(queue))
<1>3. /\ s \in Seq(WorkloadClusters) /\ Len(s) = i - 1
      /\ \A k \in 1..(i - 1) : s[k] = queue[k]
  BY <1>2
<1>4. /\ t \in Seq(WorkloadClusters) /\ Len(t) = Len(queue) - i
      /\ \A k \in 1..(Len(queue) - i) : t[k] = queue[i + k]
  BY <1>2
<1>5. queue' = s \o t
  BY <1>1 DEF RemoveAt
<1> HIDE DEF s, t
<1>6. \A j, k \in 1..Len(queue) : queue[j] = queue[k] => j = k
  BY <1>2 DEF QueueTypeOK, IsInjective
<1>7. \A k \in 1..Len(s) : k \in 1..Len(queue) /\ k < i /\ s[k] = queue[k]
  BY <1>2, <1>3
<1>8. \A k \in 1..Len(t) : i + k \in 1..Len(queue) /\ i + k > i /\ t[k] = queue[i + k]
  BY <1>2, <1>4
<1>9. IsInjective(s) /\ IsInjective(t)
  <2>1. \A j, k \in 1..Len(s) : s[j] = s[k] => j = k
    BY <1>6, <1>7
  <2>2. \A j, k \in 1..Len(t) : t[j] = t[k] => j = k
    BY <1>2, <1>6, <1>8
  <2> QED
    BY <1>3, <1>4, <2>1, <2>2 DEF IsInjective
<1>10. /\ ToSet(s) = {queue[k] : k \in 1..(i - 1)}
       /\ ToSet(t) = {queue[k] : k \in (i + 1)..Len(queue)}
  <2>1. ToSet(s) = {queue[k] : k \in 1..(i - 1)}
    BY <1>3 DEF ToSet
  <2>2. \A k \in (i + 1)..Len(queue) : k - i \in 1..Len(t) /\ t[k - i] = queue[k]
    BY <1>2, <1>4
  <2>3. \A k \in 1..Len(t) : i + k \in (i + 1)..Len(queue)
    BY <1>2, <1>4
  <2>4. ToSet(t) = {t[k] : k \in 1..Len(t)}
    BY <1>4 DEF ToSet
  <2>5. ToSet(t) \subseteq {queue[k] : k \in (i + 1)..Len(queue)}
    BY <1>8, <2>3, <2>4
  <2>6. {queue[k] : k \in (i + 1)..Len(queue)} \subseteq ToSet(t)
    BY <2>2, <2>4
  <2> QED
    BY <2>1, <2>5, <2>6
<1>11. ToSet(s) \cap ToSet(t) = {}
  BY <1>2, <1>6, <1>10
<1>12. ToSet(queue) = {queue[k] : k \in 1..Len(queue)}
  BY <1>2 DEF ToSet
<1>13. ToSet(s) \cup ToSet(t) = ToSet(queue) \ {w} /\ w \in ToSet(queue)
  <2>1. \A k \in 1..Len(queue) : k = i \/ k \in 1..(i - 1) \/ k \in (i + 1)..Len(queue)
    BY <1>2
  <2>2. \A k \in (1..(i - 1)) \cup ((i + 1)..Len(queue)) : k \in 1..Len(queue) /\ k # i
    BY <1>2
  <2> QED
    BY <1>1, <1>6, <1>10, <1>12, <2>1, <2>2
<1> QED
  BY <1>3, <1>4, <1>5, <1>9, <1>11, <1>13, Joined, JoinedSet

\* Steps of a reconciliation that goes on keep its key at hand.
LEMMA AtHandKept ==
    ASSUME TypeOK, CopyInv, Open \/ Body \/ WriteMC \/ \E part \in PatchParts : WriteWC(part)
    PROVE  req' = req
<1>1. ASSUME NEW part \in PatchParts, WriteWC(part) PROVE req' = req
  BY <1>1 DEF WriteWC, PatchWC, PatchWCFails
<1> QED
  BY <1>1, OpenStep, BodyStep DEF KeptByOpen, KeptByBody, WriteMC, PatchMC, PatchMCFails

\* Every step keeps one entry for a key.
LEMMA QueueTypeStep ==
    ASSUME TypeOK, CopyInv, QueueTypeOK, [QueueNext]_queueVars
    PROVE  QueueTypeOK'
<1> USE DEF QueueTypeOK
<1>1. ASSUME NEW w \in WorkloadClusters, Dequeue(w) PROVE QueueTypeOK'
  BY <1>1, Taken DEF Dequeue, GetWorkloadCluster
<1>2. ASSUME NEW w \in WorkloadClusters, DequeueRefused(w) PROVE QueueTypeOK'
  <2>1. /\ req' = req /\ hurry' = hurry /\ TakeNext(w)
        /\ \/ urgent' = urgent \ {w} /\ delayed' = delayed
           \/ urgent' = urgent /\ delayed' = delayed \cup {w}
    BY <1>2 DEF DequeueRefused, vars, locals
  <2> QED
    BY <2>1, Taken
<1>3. ASSUME queue' = queue, hurry' = FALSE, req' = Absent, req \in WorkloadClusters,
             delayed' \in {delayed, delayed \cup {req}},
             urgent' = urgent \/ (urgent' = urgent \cup {req} /\ req \in delayed')
      PROVE  QueueTypeOK'
  <2>1. ToSet(queue) \subseteq WorkloadClusters
    BY DEF ToSet
  <2> QED
    BY <1>3, <2>1, KeysAssumption
<1>4. CASE Done
  <2>1. req' = Absent /\ req \in WorkloadClusters
    BY <1>4 DEF Done, Return, ClearLocals, TypeOK
  <2> QED
    BY <1>3, <1>4, <2>1 DEF Done, Finish
<1>5. CASE StepFails /\ ReadFails
  <2>1. Finish(TRUE) /\ req' = Absent /\ req \in WorkloadClusters
    BY <1>5 DEF StepFails, ReadFails, ClearLocals, TypeOK
  <2> QED
    BY <1>3, <2>1 DEF Finish
<1>6. CASE Step \/ (StepFails /\ ~ReadFails)
  <2>1. Open \/ Body \/ WriteMC \/ \E part \in PatchParts : WriteWC(part)
    BY <1>6 DEF Step, StepFails, Continue, Failure, Open, Body, WriteMC, WriteWC
  <2>2. req' = req
    BY <2>1, AtHandKept
  <2>3. pc' # "idle"
    <3>1. ASSUME NEW part \in PatchParts, WriteWC(part) PROVE pc' # "idle"
      BY <3>1, WriteWCStep DEF KeptByWriteWC
    <3> QED
      BY <2>1, <3>1, OpenStep, BodyStep DEF KeptByOpen, KeptByBody, WriteMC, PatchMC,
         PatchMCFails
  <2>4. UNCHANGED queueState
    BY <1>6, <2>3 DEF Step, StepFails
  <2> QED
    BY <2>2, <2>4 DEF queueState
<1>7. ASSUME NEW w \in WorkloadClusters, Elapse(w) PROVE QueueTypeOK'
  <2>1. /\ w \in delayed /\ w # req /\ delayed' = delayed \ {w}
        /\ queue' = queue \o <<w>> /\ UNCHANGED <<req, urgent, hurry>>
    BY <1>7 DEF Elapse, vars, locals
  <2>2. <<w>> \in Seq(WorkloadClusters) /\ IsInjective(<<w>>) /\ ToSet(<<w>>) = {w}
    BY DEF IsInjective, ToSet
  <2>3. queue' \in Seq(WorkloadClusters) /\ IsInjective(queue')
    BY <2>1, <2>2, Joined
  <2>4. ToSet(queue') = ToSet(queue) \cup {w}
    BY <1>7, AppendedSet DEF Elapse
  <2> QED
    BY <2>1, <2>3, <2>4
<1>8. CASE Watch
  <2>1. \E keys \in SUBSET WorkloadClusters :
            Add(keys) /\ urgent' = urgent \cup keys /\ UNCHANGED <<req, hurry>>
    BY <1>8 DEF Watch, Sync, locals
  <2> QED
    BY <2>1, AddStep
<1>9. CASE ResyncAll
  <2>1. \E keys \in SUBSET WorkloadClusters : Add(keys) /\ UNCHANGED <<req, urgent, hurry>>
    BY <1>9 DEF ResyncAll, vars, locals
  <2> QED
    BY <2>1, AddStep
<1>10. CASE Restart
  <2>1. {w \in WorkloadClusters : wc[w] # Absent} \in SUBSET WorkloadClusters
    OBVIOUS
  <2>2. queue' \in Seq(WorkloadClusters) /\ IsInjective(queue')
    BY <1>10, <2>1, Ordering DEF Restart
  <2>3. ToSet(queue') \subseteq WorkloadClusters
    BY <2>2 DEF ToSet
  <2> QED
    BY <1>10, <2>2, <2>3, KeysAssumption DEF Restart, Crash, ClearLocals
<1>11. CASE (Users \/ Capz) /\ UNCHANGED queueState
  <2>1. req' = req
    BY <1>11 DEF Users, Capz, Create, Delete, EditPrivateLinks, CapzCluster, CapzEndpoint,
       CapzAddFinalizer, CapzPrivateLinksReady, CapzDeleteCluster, CapzCreateGateway,
       CapzCreateEndpoint, CapzDeleteEndpoint, locals
  <2> QED
    BY <1>11, <2>1 DEF queueState
<1>12. CASE UNCHANGED queueVars
  BY <1>12 DEF queueVars, queueState, vars, locals
<1> QED
  BY <1>1, <1>2, <1>4, <1>5, <1>6, <1>7, <1>8, <1>9, <1>10, <1>11, <1>12
     DEF QueueNext, Worker

\* What is true when the queue starts.
LEMMA QueueTypeStart ==
    ASSUME NEW clusters, QueueStart(clusters)
    PROVE  QueueTypeOK
<1>1. {w \in WorkloadClusters : wc[w] # Absent} \in SUBSET WorkloadClusters
  OBVIOUS
<1>2. queue \in Seq(WorkloadClusters) /\ IsInjective(queue)
  BY <1>1, Ordering DEF QueueStart
<1>3. ToSet(queue) \subseteq WorkloadClusters
  BY <1>2 DEF ToSet
<1> QED
  BY <1>2, <1>3, KeysAssumption DEF QueueStart, Start, QueueTypeOK

\* A key never has two entries, ready, delayed or at hand, so that an event
\* storm costs at most one more reconciliation of every cluster, and no urgent
\* key is lost (Add, Elapse and Finish against what is there already).
THEOREM QueueTypeCorrect == QueueSpec => []QueueTypeOK
<1>1. QueueInit => QueueTypeOK
  BY QueueTypeStart DEF QueueInit
<1>2. TypeOK /\ CopyInv /\ QueueTypeOK /\ [QueueNext]_queueVars => QueueTypeOK'
  BY QueueTypeStep
<1> QED
  BY <1>1, <1>2, QueueImplements, TypeCorrect, CopyInvariant, PTL DEF QueueSpec

-----------------------------------------------------------------------------
(* No work is forgotten.                                                   *)

\* The parts of WakeInv about the cluster at hand and about all of them.
AtHandInv == (pc # "idle" /\ req \notin delayed) => wcCache[req] = wcOrig

Awaited(w) ==
    (wcCache[w] # Absent /\ ~Settled(w, wcCache[w])) => Waiting(w) \/ Passed(w, wcCache[w])

\* WakeInv has these parts.
LEMMA WakeParts ==
    WakeInv <=> WrittenInv /\ AtHandInv /\ \A w \in WorkloadClusters : Awaited(w)
BY DEF WakeInv, AtHandInv, Awaited

\* A cluster that nobody touches is awaited as long as it is waiting.
LEMMA AwaitedKept ==
    ASSUME NEW w \in WorkloadClusters, Awaited(w), Waiting(w) => Waiting(w)',
           wc'[w] = wc[w], wcCache'[w] = wcCache[w]
    PROVE  Awaited(w)'
BY DEF Awaited, Passed, Held

\* A reconciliation that returns success leaves nothing to do on what it read,
\* or a stored cluster that is past it.
LEMMA SuccessPasses ==
    ASSUME TypeOK, WrittenInv, pc = "closeWC", parts = {}, outcome = "done",
           ~Settled(req, wcOrig)
    PROVE  Passed(req, wcOrig)
<1>0. /\ ObjectWritten /\ StatusWritten /\ wcOrig \in AzureCluster /\ wcOrig # Absent
      /\ ~wcOrig.deleting => Published(req, wcCopy)
  BY WrittenParts, AbsentAssumption DEF SentInv, ReportedInv, TypeOK
<1>1. CASE wcOrig.deleting
  BY <1>0, <1>1 DEF Settled, Leaving, ObjectWritten, Passed
<1>2. CASE ~wcOrig.deleting /\ "operator" \notin wcOrig.finalizers
  BY <1>0, <1>2 DEF ObjectWritten, Passed
<1>3. CASE Holding(wcOrig)
  <2>1. ~Published(req, wcOrig) /\ Published(req, wcCopy) /\ Held(req)
    BY <1>0, <1>3 DEF Settled, Holding, ObjectWritten
  <2>2. /\ wcOrig.gateway \in BOOLEAN /\ wcCopy.gateway \in BOOLEAN
        /\ wcOrig.gsReady \in BOOLEAN /\ wcCopy.gsReady \in BOOLEAN
    BY DEF TypeOK, AzureCluster
  <2>3. \/ wc[req].gateway /\ ~wcOrig.gateway
        \/ wc[req].apiServerIP # NoIP /\ wcOrig.apiServerIP = NoIP
        \/ wc[req].mcIngressIP # NoIP /\ wcOrig.mcIngressIP = NoIP
        \/ wc[req].gsReady /\ ~wcOrig.gsReady
    BY <1>0, <1>3, <2>1, <2>2 DEF Published, ObjectWritten, StatusWritten, Holding
  <2> QED
    BY <1>3, <2>1, <2>3 DEF Passed, Holding
<1> QED
  BY <1>0, <1>1, <1>2, <1>3 DEF Holding

\* A step of the reconciliation that goes on touches no other cluster, and its
\* own key is at hand.
LEMMA GoingOn ==
    ASSUME TypeOK, WakeInv, UNCHANGED queue, delayed \subseteq delayed',
           Open \/ Body \/ WriteMC \/ \E part \in PatchParts : WriteWC(part)
    PROVE  AtHandInv' /\ \A w \in WorkloadClusters : Awaited(w)'
<1>0. AtHandInv /\ CopyInv /\ \A w \in WorkloadClusters : Awaited(w)
  BY WakeParts DEF WrittenInv, ReadyInv, HistoryInv, ReleaseInv
<1>1. /\ UNCHANGED <<wcCache, req, wcOrig>> /\ pc # "idle" /\ pc' # "idle"
      /\ \A w \in WorkloadClusters \ {req} : wc'[w] = wc[w]
  <2>1. CASE Open
    BY <2>1, OpenStep DEF KeptByOpen
  <2>2. CASE Body
    BY <2>2, BodyStep DEF KeptByBody
  <2>3. CASE WriteMC
    BY <2>3 DEF WriteMC, PatchMC, PatchMCFails, cache, copies
  <2>4. ASSUME NEW part \in PatchParts, WriteWC(part)
        PROVE  /\ UNCHANGED <<wcCache, req, wcOrig>> /\ pc # "idle" /\ pc' # "idle"
               /\ \A w \in WorkloadClusters \ {req} : wc'[w] = wc[w]
    BY <1>0, <2>4, WriteWCStep DEF KeptByWriteWC
  <2> QED
    BY <2>1, <2>2, <2>3, <2>4
<1>2. ASSUME NEW w \in WorkloadClusters PROVE Awaited(w)'
  <2>1. CASE w = req
    BY <1>1, <2>1 DEF Awaited, Waiting
  <2>2. CASE w # req
    <3>1. Waiting(w) => Waiting(w)'
      BY <1>1 DEF Waiting
    <3> QED
      BY <1>0, <1>1, <2>2, <3>1, AwaitedKept
  <2> QED
    BY <2>1, <2>2
<1> QED
  BY <1>0, <1>1, <1>2 DEF AtHandInv

\* Users and CAPZ do not bring back what a cluster is past.
LEMMA OthersAwaited ==
    ASSUME TypeOK, WakeInv, UNCHANGED <<queue, delayed>>,
           NEW v \in WorkloadClusters, WrittenByOthers(v)
    PROVE  AtHandInv' /\ \A w \in WorkloadClusters : Awaited(w)'
<1>0. AtHandInv /\ \A w \in WorkloadClusters : Awaited(w)
  BY WakeParts
<1>1. KeptByOthers(v) /\ OthersKeep(v)
  BY OthersStep, OthersFields
<1>2. UNCHANGED <<wcCache, pc, req, wcOrig>> /\ \A w \in WorkloadClusters \ {v} : wc'[w] = wc[w]
  BY <1>1 DEF KeptByOthers
<1>3. \A w \in WorkloadClusters : Waiting(w) => Waiting(w)'
  BY <1>2 DEF Waiting
<1>4. \A c : Passed(v, c) => Passed(v, c)'
  BY <1>1 DEF KeptByOthers, OthersKeep, SameFields, Passed, Held
<1>5. Awaited(v)'
  BY <1>0, <1>2, <1>3, <1>4 DEF Awaited
<1>6. \A w \in WorkloadClusters \ {v} : Awaited(w)'
  BY <1>0, <1>2, <1>3, AwaitedKept
<1> QED
  BY <1>0, <1>2, <1>5, <1>6 DEF AtHandInv

\* Every step of the queue, and of all who share it, keeps WakeInv.
LEMMA WakeStep ==
    ASSUME TypeOK, QueueTypeOK, WakeInv, [QueueNext]_queueVars
    PROVE  WakeInv'
<1>0. WrittenInv /\ AtHandInv /\ \A w \in WorkloadClusters : Awaited(w)
  BY WakeParts
<1> SUFFICES AtHandInv' /\ \A w \in WorkloadClusters : Awaited(w)'
  <2>1. WrittenInv'
    BY <1>0, QueueStep, WrittenStep
  <2> QED
    BY <2>1 DEF WakeInv, AtHandInv, Awaited
<1>1. ASSUME NEW v \in WorkloadClusters, Dequeue(v)
      PROVE  AtHandInv' /\ \A w \in WorkloadClusters : Awaited(w)'
  <2>1. /\ UNCHANGED <<wc, wcCache, delayed>> /\ pc = "idle" /\ pc' # "idle"
        /\ req' = v /\ wcOrig' = wcCache[v]
    BY <1>1 DEF Dequeue, GetWorkloadCluster, ReadWC, api, cache
  <2>2. ToSet(queue) \subseteq ToSet(queue') \cup {v}
    BY <1>1, Taken DEF Dequeue
  <2>3. \A w \in WorkloadClusters : Waiting(w) => Waiting(w)'
    BY <2>1, <2>2 DEF Waiting
  <2> QED
    BY <1>0, <2>1, <2>3, AwaitedKept DEF AtHandInv
<1>2. ASSUME NEW v \in WorkloadClusters, DequeueRefused(v)
      PROVE  AtHandInv' /\ \A w \in WorkloadClusters : Awaited(w)'
  <2>1. /\ UNCHANGED <<wc, wcCache, pc, req>> /\ pc = "idle"
        /\ delayed \subseteq delayed' /\ (wcCache[v] # Absent => v \in delayed')
    BY <1>2 DEF DequeueRefused, ReadWC, vars, api, cache, locals
  <2>2. ToSet(queue) \subseteq ToSet(queue') \cup {v}
    BY <1>2, Taken DEF DequeueRefused
  <2>3. ASSUME NEW w \in WorkloadClusters PROVE Awaited(w)'
    <3>1. CASE w = v
      BY <2>1, <3>1 DEF Awaited, Waiting
    <3>2. CASE w # v
      <4>1. Waiting(w) => Waiting(w)'
        BY <2>1, <2>2, <3>2 DEF Waiting
      <4> QED
        BY <1>0, <2>1, <4>1, AwaitedKept
    <3> QED
      BY <3>1, <3>2
  <2> QED
    BY <2>1, <2>3 DEF AtHandInv
<1>3. CASE Step
  <2>1. Open \/ Body \/ WriteMC \/ \E part \in PatchParts : WriteWC(part)
    BY <1>3 DEF Step, Continue, Open, Body, WriteMC, WriteWC
  <2> QED
    BY <1>3, <2>1, GoingOn DEF Step, queueState
<1>4. CASE Done
  <2>1. /\ UNCHANGED <<wc, wcCache, queue>> /\ pc = "closeWC" /\ parts = {} /\ pc' = "idle"
        /\ delayed' = delayed \cup (IF outcome \in Requeue THEN {req} ELSE {})
    BY <1>4 DEF Done, Finish, Return, ClearLocals, api, cache
  <2>2. ASSUME NEW w \in WorkloadClusters PROVE Awaited(w)'
    <3>1. CASE w # req
      <4>1. Waiting(w) => Waiting(w)'
        BY <2>1, <3>1 DEF Waiting
      <4> QED
        BY <1>0, <2>1, <4>1, AwaitedKept
    <3>2. CASE w = req /\ w \in delayed'
      BY <3>2 DEF Awaited, Waiting
    <3>3. CASE w = req /\ w \notin delayed'
      <4>1. outcome = "done" /\ wcCache[w] = wcOrig
        BY <1>0, <2>1, <3>3, WrittenParts DEF ReportedInv, Requeue, AtHandInv, TypeOK, Outcomes
      <4>2. ~Settled(w, wcOrig) => Passed(w, wcOrig)
        BY <1>0, <2>1, <3>3, <4>1, SuccessPasses
      <4>3. Passed(w, wcOrig) => Passed(w, wcCache[w])'
        BY <2>1, <4>1 DEF Passed, Held
      <4> QED
        BY <2>1, <4>1, <4>2, <4>3 DEF Awaited
    <3> QED
      BY <3>1, <3>2, <3>3
  <2> QED
    BY <2>1, <2>2 DEF AtHandInv
<1>5. CASE StepFails
  <2>1. UNCHANGED queue /\ delayed \subseteq delayed' /\ (pc' = "idle" => req \in delayed')
    BY <1>5 DEF StepFails, Finish, queueState
  <2>2. CASE ReadFails
    <3>1. UNCHANGED <<wc, wcCache>> /\ pc' = "idle"
      BY <2>2 DEF ReadFails, ClearLocals, api, cache
    <3>2. \A w \in WorkloadClusters : Waiting(w) => Waiting(w)'
      BY <2>1, <3>1 DEF Waiting
    <3> QED
      BY <1>0, <3>1, <3>2, AwaitedKept DEF AtHandInv
  <2>3. CASE Body \/ WriteMC \/ \E part \in PatchParts : WriteWC(part)
    BY <2>1, <2>3, GoingOn
  <2> QED
    BY <1>5, <2>2, <2>3 DEF StepFails, Failure, Body, WriteMC, WriteWC
<1>6. ASSUME NEW v \in WorkloadClusters, Elapse(v)
      PROVE  AtHandInv' /\ \A w \in WorkloadClusters : Awaited(w)'
  <2>1. /\ UNCHANGED <<wc, wcCache, pc, req, wcOrig>>
        /\ v # req /\ delayed' = delayed \ {v}
    BY <1>6 DEF Elapse, vars, api, cache, locals, copies
  <2>2. ToSet(queue) \cup {v} \subseteq ToSet(queue')
    BY <1>6, AppendedSet DEF Elapse, QueueTypeOK
  <2>3. \A w \in WorkloadClusters : Waiting(w) => Waiting(w)'
    BY <2>1, <2>2 DEF Waiting
  <2> QED
    BY <1>0, <2>1, <2>3, AwaitedKept DEF AtHandInv
<1>7. CASE Restart
  <2>1. UNCHANGED wc /\ wcCache' = wc /\ pc' = "idle"
    BY <1>7 DEF Restart, Crash, ClearLocals, api
  <2>2. \A w \in WorkloadClusters : wc[w] # Absent => w \in ToSet(queue')
    <3>1. {w \in WorkloadClusters : wc[w] # Absent} \in SUBSET WorkloadClusters
      OBVIOUS
    <3> QED
      BY <1>7, <3>1, OrderingAll DEF Restart
  <2> QED
    BY <2>1, <2>2 DEF AtHandInv, Awaited, Waiting
<1>8. CASE Watch
  <2> DEFINE keys == {w \in WorkloadClusters : wcCache'[w] # wcCache[w]}
  <2>1. UNCHANGED <<wc, pc, req, wcOrig>> /\ wcCache' = wc /\ Add(keys)
    BY <1>8 DEF Watch, Sync, api, locals, copies
  <2>2. /\ ToSet(queue) \cup delayed \cup keys \subseteq ToSet(queue') \cup delayed'
        /\ req \in delayed \cup keys => req \in delayed'
    BY <2>1, AddAll
  <2>3. ASSUME NEW w \in WorkloadClusters PROVE Awaited(w)'
    <3>1. CASE w \in keys
      BY <2>2, <3>1 DEF Awaited, Waiting
    <3>2. CASE wcCache'[w] = wcCache[w]
      <4>1. Waiting(w) => Waiting(w)'
        BY <2>1, <2>2 DEF Waiting
      <4> QED
        BY <1>0, <2>1, <3>2, <4>1, AwaitedKept
    <3> QED
      BY <3>1, <3>2
  <2>4. AtHandInv'
    BY <1>0, <2>1, <2>2 DEF AtHandInv, TypeOK
  <2> QED
    BY <2>3, <2>4
<1>9. CASE ResyncAll
  <2> DEFINE keys == {w \in WorkloadClusters : wcCache[w] # Absent}
  <2>1. UNCHANGED <<wc, wcCache, pc, req, wcOrig>> /\ Add(keys)
    BY <1>9 DEF ResyncAll, vars, api, cache, locals, copies
  <2>2. /\ ToSet(queue) \cup delayed \subseteq ToSet(queue') \cup delayed'
        /\ req \in delayed => req \in delayed'
    BY <2>1, AddAll
  <2>3. \A w \in WorkloadClusters : Waiting(w) => Waiting(w)'
    BY <2>1, <2>2 DEF Waiting
  <2> QED
    BY <1>0, <2>1, <2>2, <2>3, AwaitedKept DEF AtHandInv
<1>10. CASE (Users \/ Capz) /\ UNCHANGED queueState
  <2>1. ASSUME NEW v \in WorkloadClusters, WrittenByOthers(v)
        PROVE  AtHandInv' /\ \A w \in WorkloadClusters : Awaited(w)'
    BY <1>10, <2>1, OthersAwaited DEF queueState
  <2>2. ASSUME NEW e \in Endpoint, CapzEndpoint(e)
        PROVE  AtHandInv' /\ \A w \in WorkloadClusters : Awaited(w)'
    <3>1. UNCHANGED <<wc, wcCache, pc, req, wcOrig>>
      BY <2>2 DEF CapzEndpoint, CapzCreateEndpoint, CapzDeleteEndpoint, api, cache, locals,
         copies
    <3>2. \A w \in WorkloadClusters : Waiting(w) => Waiting(w)'
      BY <1>10, <3>1 DEF Waiting, queueState
    <3> QED
      BY <1>0, <1>10, <3>1, <3>2, AwaitedKept DEF AtHandInv, queueState
  <2> QED
    BY <1>10, <2>1, <2>2 DEF Users, Capz, WrittenByOthers
<1>11. CASE UNCHANGED queueVars
  <2>1. UNCHANGED <<wc, wcCache, pc, req, wcOrig, queue, delayed>>
    BY <1>11 DEF queueVars, queueState, vars, api, cache, locals, copies
  <2>2. \A w \in WorkloadClusters : Waiting(w) => Waiting(w)'
    BY <2>1 DEF Waiting
  <2> QED
    BY <1>0, <2>1, <2>2, AwaitedKept DEF AtHandInv
<1> QED
  BY <1>1, <1>2, <1>3, <1>4, <1>5, <1>6, <1>7, <1>8, <1>9, <1>10, <1>11
     DEF QueueNext, Worker

\* The first list queues every cluster there is, and nothing is at hand.
LEMMA WakeStart ==
    ASSUME NEW c \in {Absent, CapzDone},
           QueueStart([w \in WorkloadClusters |-> c])
    PROVE  TypeOK /\ QueueTypeOK /\ WakeInv
<1>1. /\ wc = [w \in WorkloadClusters |-> c] /\ wcCache = wc /\ pc = "idle" /\ faults = 0
      /\ queue \in SetToSeqs({w \in WorkloadClusters : wc[w] # Absent}) /\ delayed = {}
  BY DEF QueueStart, Start
<1>2. /\ CapzDone \in AzureCluster /\ Fresh(CapzDone) /\ Blank(CapzDone)
      /\ ~CapzDone.gsReady
  <2>1. CapzDone = [NewAzureCluster EXCEPT !.finalizers = {"capz"}, !.linksReady = TRUE]
    BY DEF CapzDone
  <2>2. CapzDone \in AzureCluster
    BY <2>1, NewType DEF AzureCluster, Finalizers
  <2>3. /\ CapzDone.finalizers = {"capz"} /\ ~CapzDone.deleting /\ ~CapzDone.gsReady
        /\ Blank(CapzDone)
    BY <2>1 DEF NewAzureCluster, Blank
  <2> QED
    BY <2>2, <2>3, AbsentAssumption DEF Fresh
<1>3. TypeOK
  BY <1>2, BoundsAssumption DEF QueueStart, Start, TypeOK, PCs, Outcomes, MaybeIP
<1>4. {w \in WorkloadClusters : wc[w] # Absent} \in SUBSET WorkloadClusters
  OBVIOUS
<1>5. QueueTypeOK
  BY QueueTypeStart
<1>6. \A w \in WorkloadClusters :
        /\ ~Leaving(wc[w]) /\ ~Holding(wc[w]) /\ ~Held(w) /\ (Fresh(wc[w]) => Blank(wc[w]))
        /\ wc[w] # Absent => ~wc[w].gsReady
  BY <1>1, <1>2 DEF Leaving, Holding, Held, Fresh
<1>7. ReadyInv
  BY <1>1, <1>6 DEF ReadyInv, HistoryInv, ReleaseInv, CopyInv, HoldPending
<1>8. WrittenInv
  BY <1>1, <1>7 DEF WrittenInv
<1>9. \A w \in WorkloadClusters : wcCache[w] # Absent => Waiting(w)
  BY <1>1, <1>4, OrderingAll DEF Waiting
<1> QED
  BY <1>1, <1>3, <1>5, <1>8, <1>9 DEF WakeInv

\* What is awaited is not forgotten: a stored cluster is not past itself.
LEMMA WakeMeans == ASSUME WakeInv PROVE NothingForgotten
<1> SUFFICES ASSUME NEW w \in WorkloadClusters, wc[w] # Absent, wcCache[w] = wc[w],
                    ~Settled(w, wc[w])
             PROVE  Waiting(w)
  BY DEF NothingForgotten
<1>1. ~Passed(w, wc[w])
  BY DEF Passed, Settled, Held
<1> QED
  BY <1>1 DEF WakeInv

\* WakeInv holds in every reachable state of the reconciler behind its queue.
THEOREM WakeInvariant == QueueSpec => []WakeInv
<1>1. QueueInit => TypeOK /\ QueueTypeOK /\ WakeInv
  BY WakeStart DEF QueueInit
<1>2. TypeOK /\ QueueTypeOK /\ WakeInv /\ [QueueNext]_queueVars
      => TypeOK' /\ QueueTypeOK' /\ WakeInv'
  BY QueueStep, TypeStep, QueueTypeStep, WakeStep
     DEF WakeInv, WrittenInv, ReadyInv, HistoryInv, ReleaseInv
<1> QED
  BY <1>1, <1>2, PTL DEF QueueSpec

\* No wakeup is lost, for any clusters, links, failures and crashes, and with
\* or without the resync: a cluster on which work is left is queued, delayed or
\* at hand, or the event that shows it is still to come.
THEOREM NothingLost == QueueSpec => []NothingForgotten
BY WakeInvariant, WakeMeans, PTL

\* An operator that is installed where clusters run already, and first hears
\* of them all at once, is as safe as one that sees each of them created: it
\* releases no living cluster, shows GSPrivateLinksReady on none too early,
\* forgets none and queues none twice (the first list of the informer).
THEOREM InstalledSafe ==
    InstalledSpec => /\ ReleasedOnlyWhenDeleting
                     /\ []ReadyAfterPublished
                     /\ []NothingForgotten
                     /\ []QueueTypeOK
<1>1. QueueStart([w \in WorkloadClusters |-> CapzDone]) => TypeOK /\ QueueTypeOK /\ WakeInv
  BY WakeStart
<1>2. TypeOK /\ QueueTypeOK /\ WakeInv /\ [QueueNext]_queueVars
      => TypeOK' /\ QueueTypeOK' /\ WakeInv'
  BY QueueStep, TypeStep, QueueTypeStep, WakeStep
     DEF WakeInv, WrittenInv, ReadyInv, HistoryInv, ReleaseInv
<1>3. TypeOK /\ WakeInv /\ [QueueNext]_queueVars
      => [\A w \in WorkloadClusters : Held(w) /\ ~Held(w)' => wc[w].deleting]_vars
  BY QueueStep, ReleaseAction DEF WakeInv, WrittenInv, ReadyInv, HistoryInv
<1>4. WakeInv => ReadyAfterPublished
  BY ReadyMeans DEF WakeInv, WrittenInv
<1>5. WakeInv => NothingForgotten
  BY WakeMeans
<1> QED
  BY <1>1, <1>2, <1>3, <1>4, <1>5, PTL DEF InstalledSpec, ReleasedOnlyWhenDeleting
=============================================================================
