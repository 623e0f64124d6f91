-------------------------- MODULE RebuilderdProofs --------------------------
(***************************************************************************)
(* Proofs for every set of inputs, workers and threads, every deadline,    *)
(* delay and limit.  They follow one inductive invariant, Inv.  The cases  *)
(* of Next are sorted once by what they do to the rows of table queue      *)
(* (QueueStep), to the ids of the workers (RegistryStep), to a worker      *)
(* (WorkerMoves) and to a report (ReportMoves); each part of Inv is then   *)
(* shown to survive those few kinds of step.                               *)
(***************************************************************************)
EXTENDS RebuilderdProperties, FiniteSetTheorems, WellFoundedInduction, TLAPS

(* The id of a row of table queue was given out by its counter, and to     *)
(* that row only.                                                          *)
IssuedIds ==
  /\ \A q \in queue : q.id < nextQueueId
  /\ \A q, r \in queue : q.id = r.id => q = r

(* The id of a worker, and the holder of a job even if its row in table    *)
(* workers is gone, was given out by the counter of table workers.         *)
HoldersIssued ==
  /\ \A w \in Workers : registry[w] # None => registry[w] < nextWorkerId
  /\ \A q \in queue : Held(q) => q.worker < nextWorkerId

(* POST /queue has an input in hand at the statements that use one.        *)
RequestInStep == request.pc \in {"delay", "enqueue"} => request.input \in Inputs

(* A worker that waits for a job is authenticated; one that builds holds   *)
(* the id of a row of its input or of a row that is gone.                  *)
WorkerInStep(w) ==
  /\ worker[w].pc = "popping" => registry[w] # None
  /\ worker[w].pc = "building" =>
       /\ worker[w].input \in Inputs
       /\ worker[w].qid < nextQueueId
       /\ \A q \in queue : q.id = worker[w].qid => q.input = worker[w].input

(* A report in progress names a row of the input its sender built or a row *)
(* that is gone, has selected no other input, and has only friends of that *)
(* input left to record.                                                   *)
ReportInStep(t) ==
  /\ ~At(t, "idle") =>
       /\ reports[t].built \in Inputs
       /\ reports[t].qid < nextQueueId
       /\ \A q \in queue : q.id = reports[t].qid => q.input = reports[t].built
       /\ ~At(t, "select") => reports[t].input = reports[t].built
  /\ \A f \in reports[t].todo : SameFriends(f, reports[t].built)

(* The inductive invariant.                                                *)
Inv ==
  /\ TypeOK
  /\ IssuedIds
  /\ HeldJobsCanExpire
  /\ HoldersIssued
  /\ RequestInStep
  /\ \A w \in Workers : WorkerInStep(w)
  /\ \A t \in Threads : ReportInStep(t)

-----------------------------------------------------------------------------
(* Authentication and registration of a worker, and the upsert of a job,   *)
(* keep the types of the tables they write.                                *)
LEMMA UpdatesAreTyped ==
  ASSUME DatabaseTypeOK
  PROVE  /\ \A w \in Workers : UpsertWorker(w) \/ Authenticate(w) \/ UNCHANGED workerRows
              => registry' \in [Workers -> (Nat \ {0}) \cup {None}] /\ nextWorkerId' \in Nat \ {0}
         /\ \A i \in Inputs, p \in Priorities : Upsert(i, p)
              => queue' \in SUBSET QueueRow /\ nextQueueId' \in Nat \ {0}
<1>1. ASSUME NEW w \in Workers, UpsertWorker(w)
      PROVE  registry' \in [Workers -> (Nat \ {0}) \cup {None}] /\ nextWorkerId' \in Nat \ {0}
  BY <1>1 DEF DatabaseTypeOK, UpsertWorker, workerRows
<1>2. ASSUME NEW w \in Workers, Authenticate(w) \/ UNCHANGED workerRows
      PROVE  registry' \in [Workers -> (Nat \ {0}) \cup {None}] /\ nextWorkerId' \in Nat \ {0}
  BY <1>1, <1>2 DEF DatabaseTypeOK, Authenticate, workerRows
<1>3. ASSUME NEW i \in Inputs, NEW p \in Priorities, Upsert(i, p)
      PROVE  queue' \in SUBSET QueueRow /\ nextQueueId' \in Nat \ {0}
  <2>1. CASE Queued(i)
    BY <1>3, <2>1 DEF DatabaseTypeOK, Upsert, QueueRow
  <2>2. CASE ~Queued(i)
    BY <1>3, <2>2 DEF DatabaseTypeOK, Upsert, QueueRow
  <2>3. QED  BY <2>1, <2>2
<1>4. QED  BY <1>1, <1>2, <1>3

(* So do the updates of existing jobs: a stale job given up, a job handed  *)
(* out, a ping, the passage of time.                                       *)
LEMMA QueueUpdatesAreTyped ==
  ASSUME DatabaseTypeOK
  PROVE  /\ ClearStaleJobs => queue' \in SUBSET QueueRow
         /\ Elapse => queue' \in SUBSET QueueRow
         /\ \A w \in Workers, q \in queue : PopJob(w, q) => queue' \in SUBSET QueueRow
         /\ \A w \in Workers, id \in Nat : PingJob(w, id) => queue' \in SUBSET QueueRow
<1> USE DEF DatabaseTypeOK, QueueRow
<1>1. ClearStaleJobs => queue' \in SUBSET QueueRow
  BY DEF ClearStaleJobs
<1>2. ASSUME Elapse PROVE queue' \in SUBSET QueueRow
  <2>1. ASSUME NEW q \in queue PROVE Older(q) \in QueueRow
    BY <2>1, TimeAssumption, NoneAssumption DEF Older
  <2>2. QED  BY <1>2, <2>1 DEF Elapse
<1>3. ASSUME NEW w \in Workers, NEW q \in queue, PopJob(w, q) PROVE queue' \in SUBSET QueueRow
  <2>1. q \in QueueRow /\ registry[w] \in (Nat \ {0}) \cup {None} /\ 0 \in 0 .. PingDeadline + 1
    BY TimeAssumption
  <2>2. [q EXCEPT !.worker = registry[w], !.age = 0] \in QueueRow
    BY <2>1
  <2>3. QED  BY <1>3, <2>2 DEF PopJob
<1>4. ASSUME NEW w \in Workers, NEW id \in Nat, PingJob(w, id) PROVE queue' \in SUBSET QueueRow
  BY <1>4, TimeAssumption DEF PingJob
<1>5. QED  BY <1>1, <1>2, <1>3, <1>4

(* The rebuilds that are copied are those of an input, the friend of the   *)
(* lowest id: it exists because < on Nat is well-founded.                  *)
LEMMA CopiesAreOfInputs ==
  ASSUME DatabaseTypeOK, NEW i \in Inputs
  PROVE  \E f \in Inputs : CopyExistingRebuilds(i) = rebuilds[f]
<1> USE DEF DatabaseTypeOK
<1> DEFINE others == Friends(i) \ {i}
           ids    == {rowid[f] : f \in others}
<1>1. CASE others = {}
  BY <1>1 DEF CopyExistingRebuilds
<1>2. CASE others # {}
  <2>1. others \subseteq Inputs
    BY DEF Friends, FriendsIn, Known
  <2>2. ids \subseteq Nat /\ ids # {}
    BY <1>2, <2>1
  <2>3. PICK n \in ids : \A m \in ids : ~(<<m, n>> \in OpToRel(<, Nat))
    BY <2>2, WFMin, NatLessThanWellFounded, Zenon
  <2>4. \A m \in ids : ~(m < n)
    BY <2>2, <2>3, Zenon DEF OpToRel
  <2>5. n \in Nat /\ ids \subseteq Nat
    BY <2>2
  <2>6. \E f \in others : \A g \in others : rowid[f] <= rowid[g]
    <3>1. PICK f \in others : n = rowid[f]
      OBVIOUS
    <3>2. ASSUME NEW g \in others PROVE rowid[f] <= rowid[g]
      <4> DEFINE m == rowid[g]
      <4>1. m \in ids /\ m \in Nat /\ ~(m < n)
        BY <2>4, <2>5
      <4> HIDE DEF m, ids
      <4>2. n <= m
        BY <2>5, <4>1
      <4>3. QED  BY <3>1, <4>2 DEF m
    <3>3. QED  BY <3>2
  <2>7. (CHOOSE f \in others : \A g \in others : rowid[f] <= rowid[g]) \in others
    BY <2>6, Zenon
  <2>8. QED  BY <1>2, <2>1, <2>7 DEF CopyExistingRebuilds
<1>3. QED  BY <1>1, <1>2

(* Importing one package of a sync keeps the types.                        *)
LEMMA ImportsAreTyped ==
  ASSUME DatabaseTypeOK, PackageApiTypeOK, NEW i \in Inputs, ImportPackage(i)
  PROVE  /\ rowid' \in [Inputs -> Nat] /\ seen' \in [Sources -> BOOLEAN]
         /\ rebuilds' \in [Inputs -> RebuildView] /\ PackageApiTypeOK'
<1> USE DEF DatabaseTypeOK, PackageApiTypeOK, ImportPackage
<1>1. rowid' \in [Inputs -> Nat]
  <2>1. IsFiniteSet(Known)
    BY FS_Subset, MapAssumption DEF Known
  <2>2. Cardinality(Known) \in Nat
    BY <2>1, FS_CardinalityType
  <2>3. QED  BY <2>2
<1>2. seen' \in [Sources -> BOOLEAN]
  BY MapAssumption
<1>3. CopyExistingRebuilds(i) \in RebuildView
  BY CopiesAreOfInputs
<1>4. rebuilds' \in [Inputs -> RebuildView]
  BY <1>3
<1>5. PackageApiTypeOK'
  OBVIOUS
<1>6. QED  BY <1>1, <1>2, <1>4, <1>5

(* Every statement of submit_rebuild_report keeps the types.               *)
LEMMA ReportsAreTyped ==
  ASSUME DatabaseTypeOK, BuildApiTypeOK, NEW t \in Threads, ReportInStep(t),
         HandleReport(t) \/ AbandonReport(t)
  PROVE  DatabaseTypeOK' /\ BuildApiTypeOK'
<1> USE DEF BuildApiTypeOK, dbVars, inputVars, queueVars, workerRows
<1>0. IdleReport \in Report
  BY DEF IdleReport, Report, ReportSteps, Outcomes
<1>a. Finish(t) => BuildApiTypeOK'
  BY <1>0 DEF Finish
<1>b. \A pc \in ReportSteps : GoTo(t, pc) => BuildApiTypeOK'
  BY DEF GoTo, Report
<1>c. ~At(t, "idle") /\ ~At(t, "select") => reports[t].input \in Inputs
  BY DEF ReportInStep
<1>d. \A i : Friends(i) \subseteq Inputs
  BY DEF Friends, FriendsIn, Known
<1>e. \A r \in Report : reports' = [reports EXCEPT ![t] = r] => BuildApiTypeOK'
  OBVIOUS
<1>f. reports[t] \in Report
  OBVIOUS
<1>1. CASE SelectJob(t)
  <2>1. ASSUME NEW q \in queue PROVE [reports[t] EXCEPT !.pc = "friends", !.input = q.input] \in Report
    BY <1>f DEF DatabaseTypeOK, QueueRow, Report, ReportSteps
  <2>2. BuildApiTypeOK'
    <3>1. \/ Finish(t)
          \/ \E q \in queue :
               reports' = [reports EXCEPT ![t] = [@ EXCEPT !.pc = "friends", !.input = q.input]]
      BY <1>1 DEF SelectJob
    <3>2. QED  BY <3>1, <1>a, <1>e, <2>1
  <2>3. UNCHANGED dbVars
    BY <1>1 DEF SelectJob
  <2>4. QED  BY <2>2, <2>3 DEF DatabaseTypeOK
<1>2. CASE SelectFriends(t)
  <2> DEFINE friends == Friends(reports[t].input)
  <2>1. [reports[t] EXCEPT !.pc = "record", !.friends = friends, !.todo = friends] \in Report
    BY <1>d, <1>f DEF Report, ReportSteps
  <2>2. QED  BY <1>2, <1>e, <2>1 DEF SelectFriends, DatabaseTypeOK
<1>3. CASE \E f \in Inputs, inOrder \in BuiltAtOrders : RecordResult(t, f, inOrder)
  <2>1. PICK f \in Inputs, inOrder \in BuiltAtOrders : RecordResult(t, f, inOrder)
    BY <1>3
  <2> DEFINE r == [reports[t] EXCEPT
                     !.todo = reports[t].todo \ {f},
                     !.pc = IF reports[t].todo = {f} THEN "dequeue" ELSE "record"]
  <2>2. r \in Report /\ reports' = [reports EXCEPT ![t] = r]
    <3>1. r \in Report
      BY <1>f DEF Report, ReportSteps
    <3>2. reports' = [reports EXCEPT ![t] = r]
      BY <2>1 DEF RecordResult
    <3>3. QED  BY <3>1, <3>2
  <2>3. Insert(rebuilds[f], reports[t].status, inOrder) \in RebuildView
    <3>1. rebuilds[f] \in RebuildView /\ reports[t].status \in Results
      BY <1>f DEF DatabaseTypeOK, Report, Results
    <3>2. QED  BY <3>1 DEF Insert, RebuildView
  <2>4. BuildApiTypeOK'
    BY <1>e, <2>2
  <2>5. rebuilds' \in [Inputs -> RebuildView]
    BY <2>1, <2>3 DEF RecordResult, DatabaseTypeOK
  <2>6. QED  BY <2>1, <2>4, <2>5 DEF RecordResult, DatabaseTypeOK
<1>4. CASE DequeueJob(t)
  BY <1>4, <1>a, <1>b DEF DequeueJob, DatabaseTypeOK, ReportSteps
<1>5. CASE CountRetry(t)
  BY <1>5, <1>b DEF CountRetry, DatabaseTypeOK, ReportSteps
<1>6. CASE CheckRetries(t)
  <2>1. PICK f \in Friends(reports[t].input) :
          reports' = IF Exhausted(retries[f])
                     THEN [reports EXCEPT ![t].pc = "mark"]
                     ELSE [reports EXCEPT ![t] = [@ EXCEPT !.pc = "delay", !.largest = retries[f]]]
    BY <1>6 DEF CheckRetries
  <2>2. f \in Inputs /\ retries[f] \in Nat
    BY <1>d, <2>1 DEF DatabaseTypeOK
  <2>3. [reports[t] EXCEPT !.pc = "delay", !.largest = retries[f]] \in Report
    BY <1>f, <2>2 DEF Report, ReportSteps
  <2>4. BuildApiTypeOK'
    BY <1>b, <1>e, <2>1, <2>3 DEF GoTo, ReportSteps
  <2>5. QED  BY <1>6, <2>4 DEF CheckRetries, DatabaseTypeOK
<1>7. CASE SelectExhausted(t)
  <2>1. [reports[t] EXCEPT !.pc = "clear", !.friends = Friends(reports[t].input)] \in Report
    BY <1>d, <1>f DEF Report, ReportSteps
  <2>2. QED  BY <1>7, <1>e, <2>1 DEF SelectExhausted, DatabaseTypeOK
<1>8. CASE MarkNonRetriable(t)
  BY <1>8, <1>b DEF MarkNonRetriable, DatabaseTypeOK, ReportSteps
<1>9. CASE UnqueueFriends(t)
  BY <1>9, <1>a DEF UnqueueFriends, DatabaseTypeOK
<1>10. CASE SetNextRetry(t)
  <2>1. (reports[t].largest + 1) * RetryDelay \in Nat
    <3>1. reports[t].largest \in Nat
      BY DEF Report
    <3>2. QED  BY <3>1, TimeAssumption
  <2>2. delay' \in [Inputs -> Nat]
    BY <1>10, <2>1 DEF SetNextRetry, DatabaseTypeOK
  <2>3. QED  BY <1>10, <1>b, <2>2 DEF SetNextRetry, DatabaseTypeOK, ReportSteps
<1>11. CASE RequeueJob(t)
  <2>1. reports[t].input \in Inputs /\ Retry \in Priorities
    BY <1>11, <1>c DEF RequeueJob, At, Priorities
  <2>2. queue' \in SUBSET QueueRow /\ nextQueueId' \in Nat \ {0}
    BY <1>11, <2>1, UpdatesAreTyped DEF RequeueJob
  <2>3. QED  BY <1>11, <1>a, <2>2 DEF RequeueJob, DatabaseTypeOK
<1>12. CASE AbandonReport(t)
  BY <1>12, <1>a DEF AbandonReport, DatabaseTypeOK
<1>13. QED
  BY <1>1, <1>2, <1>3, <1>4, <1>5, <1>6, <1>7, <1>8, <1>9, <1>10, <1>11, <1>12 DEF HandleReport

(* Every statement of request_rebuild keeps the types.                     *)
LEMMA RequestsAreTyped ==
  ASSUME DatabaseTypeOK, QueueApiTypeOK, RequestInStep, RequestRebuild
  PROVE  DatabaseTypeOK' /\ QueueApiTypeOK'
<1> USE DEF QueueApiTypeOK, dbVars, inputVars, queueVars, workerRows
<1>0. IdleRequest \in [pc : RequestSteps, todo : SUBSET Inputs, input : Inputs \cup {None},
                      reset : BOOLEAN, priority : Priorities]
  BY DEF IdleRequest, RequestSteps, Priorities
<1>1. CASE \E source \in Sources \cup {None}, scope \in Scopes \cup {None},
              status \in Outcomes \cup {"UNKWN", None}, reset \in BOOLEAN :
             SelectInputs(source, scope, status, reset, Manual)
  BY <1>1 DEF SelectInputs, DatabaseTypeOK, RequestSteps, Priorities
<1>2. CASE \E i \in request.todo : ResetInput(i)
  <2>1. PICK i \in Inputs : i \in request.todo /\ ResetInput(i)
    BY <1>2
  <2>2. request' \in [pc : RequestSteps, todo : SUBSET Inputs, input : Inputs \cup {None},
                     reset : BOOLEAN, priority : Priorities]
    BY <2>1 DEF ResetInput, RequestSteps
  <2>3. ResetNewest(rebuilds[i]) \in RebuildView
    <3>1. rebuilds[i] \in RebuildView
      BY DEF DatabaseTypeOK
    <3>2. QED  BY <3>1 DEF ResetNewest, RebuildView, Results
  <2>4. QED  BY <2>1, <2>2, <2>3 DEF ResetInput, DatabaseTypeOK
<1>3. CASE ClearDelay
  BY <1>3 DEF ClearDelay, DatabaseTypeOK, RequestSteps
<1>4. CASE EnqueueInput
  <2>1. queue' \in SUBSET QueueRow /\ nextQueueId' \in Nat \ {0}
    BY <1>4, UpdatesAreTyped DEF EnqueueInput, RequestInStep
  <2>2. request' = IdleRequest \/ request' = [request EXCEPT !.pc = "next", !.input = None]
    BY <1>4 DEF EnqueueInput
  <2>3. QueueApiTypeOK'
    BY <1>0, <2>2 DEF RequestSteps
  <2>4. QED  BY <1>4, <2>1, <2>3 DEF EnqueueInput, DatabaseTypeOK
<1>5. CASE AbandonRequest
  BY <1>0, <1>5 DEF AbandonRequest, DatabaseTypeOK
<1>6. QED
  BY <1>1, <1>2, <1>3, <1>4, <1>5 DEF RequestRebuild

(* Every step of submit_package_report keeps the types.                    *)
LEMMA SyncsAreTyped ==
  ASSUME DatabaseTypeOK, PackageApiTypeOK, StartSync \/ SyncStep
  PROVE  DatabaseTypeOK' /\ PackageApiTypeOK'
<1> USE DEF inputVars, queueVars, workerRows
<1>1. CASE StartSync
  <2>1. PICK scope \in Scopes, reported \in SUBSET Inputs : BeginSync(scope, reported)
    BY <1>1 DEF StartSync
  <2>2. PackageApiTypeOK'
    BY <2>1 DEF BeginSync, PackageApiTypeOK
  <2>3. seen' \in [Sources -> BOOLEAN]
    BY <2>1 DEF BeginSync, DatabaseTypeOK
  <2>4. QED  BY <2>1, <2>2, <2>3 DEF BeginSync, DatabaseTypeOK
<1>2. ASSUME NEW i \in Inputs, ImportPackage(i), delay' \in [Inputs -> Nat],
             queue' \in SUBSET QueueRow, nextQueueId' \in Nat \ {0}
      PROVE  DatabaseTypeOK' /\ PackageApiTypeOK'
  BY <1>2, ImportsAreTyped DEF ImportPackage, DatabaseTypeOK
<1>3. \A i \in Inputs : Imported(i) \in [Inputs -> Nat]
  BY TimeAssumption DEF Imported, DatabaseTypeOK
<1>4. sync.todo \subseteq Inputs
  BY DEF PackageApiTypeOK
<1>5. CASE \E i \in sync.todo : SkipPackage(i)
  BY <1>2, <1>3, <1>4, <1>5 DEF SkipPackage, DatabaseTypeOK
<1>6. CASE \E i \in sync.todo : GiveUpPackage(i)
  <2>1. PICK i \in Inputs : i \in sync.todo /\ GiveUpPackage(i)
    BY <1>4, <1>6
  <2>2. /\ ImportPackage(i)
        /\ UNCHANGED nextQueueId
        /\ queue' \subseteq queue
    BY <2>1, Zenon DEF GiveUpPackage
  <2>3. delay' \in [Inputs -> Nat]
    BY <2>1 DEF GiveUpPackage, DatabaseTypeOK
  <2>4. QED  BY <1>2, <2>2, <2>3 DEF DatabaseTypeOK
<1>7. CASE \E i \in sync.todo : SchedulePackage(i)
  <2>1. PICK i \in sync.todo : SchedulePackage(i)
    BY <1>7
  <2>2. PICK p \in Priorities : Upsert(i, p)
    BY <2>1 DEF SchedulePackage, Priorities
  <2>3. QED  BY <1>2, <1>3, <1>4, <2>1, <2>2, UpdatesAreTyped DEF SchedulePackage
<1>8. CASE CommitSync
  BY <1>8 DEF CommitSync, IdleSync, DatabaseTypeOK, PackageApiTypeOK
<1>9. QED  BY <1>1, <1>5, <1>6, <1>7, <1>8 DEF SyncStep

(* Every step of a worker process, with the request it sends, keeps the    *)
(* types.                                                                  *)
LEMMA WorkersAreTyped ==
  ASSUME TypeOK, NEW w \in Workers, WorkerStep(w)
  PROVE  TypeOK'
<1> USE DEF TypeOK, dbVars, inputVars, queueVars, workerRows
<1>0. IdleWorker \in [pc : WorkerSteps, qid : Nat, input : Inputs \cup {None}]
  BY DEF IdleWorker, WorkerSteps
<1>a. \A r \in [pc : WorkerSteps, qid : Nat, input : Inputs \cup {None}] :
        Become(w, r) => WorkerTypeOK'
  BY DEF Become, WorkerTypeOK
<1>1. CASE Poll(w)
  <2>1. queue' \in SUBSET QueueRow
    BY <1>1, QueueUpdatesAreTyped DEF Poll, RequestWork
  <2>2. registry' \in [Workers -> (Nat \ {0}) \cup {None}] /\ nextWorkerId' \in Nat \ {0}
    BY <1>1, UpdatesAreTyped DEF Poll, RequestWork
  <2>3. WorkerTypeOK'
    BY <1>0, <1>1, <1>a DEF Poll, IdleWorker, WorkerSteps
  <2>4. QED
    BY <1>1, <2>1, <2>2, <2>3
    DEF Poll, RequestWork, DatabaseTypeOK, QueueApiTypeOK, BuildApiTypeOK, PackageApiTypeOK
<1>2. CASE \E q \in queue : StartBuild(w, q) \/ LoseJob(w, q)
  <2>1. PICK q \in queue : StartBuild(w, q) \/ LoseJob(w, q)
    BY <1>2
  <2>2. PopJob(w, q) /\ UNCHANGED <<reports, sync>>
    BY <2>1 DEF StartBuild, LoseJob
  <2>3. queue' \in SUBSET QueueRow
    BY <2>2, QueueUpdatesAreTyped
  <2>4. [pc |-> "building", qid |-> q.id, input |-> q.input]
          \in [pc : WorkerSteps, qid : Nat, input : Inputs \cup {None}]
    BY DEF DatabaseTypeOK, QueueRow, WorkerSteps
  <2>5. WorkerTypeOK'
    BY <1>0, <1>a, <2>1, <2>4 DEF StartBuild, LoseJob
  <2>6. QED
    BY <2>2, <2>3, <2>5
    DEF PopJob, DatabaseTypeOK, QueueApiTypeOK, BuildApiTypeOK, PackageApiTypeOK
<1>3. CASE FindNothing(w) \/ StopWorker(w)
  <2>1. WorkerTypeOK'
    BY <1>0, <1>3, <1>a DEF FindNothing, StopWorker
  <2>2. QED
    BY <1>3, <2>1
    DEF FindNothing, StopWorker, DatabaseTypeOK, QueueApiTypeOK, BuildApiTypeOK, PackageApiTypeOK
<1>4. CASE Ping(w)
  <2>1. queue' \in SUBSET QueueRow
    BY <1>4, QueueUpdatesAreTyped DEF Ping, WorkerTypeOK
  <2>2. registry' \in [Workers -> (Nat \ {0}) \cup {None}] /\ nextWorkerId' \in Nat \ {0}
    BY <1>4, UpdatesAreTyped DEF Ping, PingJob
  <2>3. QED
    BY <1>4, <2>1, <2>2
    DEF Ping, PingJob, DatabaseTypeOK, QueueApiTypeOK, BuildApiTypeOK, PackageApiTypeOK, WorkerTypeOK
<1>5. CASE \E t \in Threads, status \in Outcomes : SubmitReport(w, t, status)
  <2>1. PICK t \in Threads, status \in Outcomes : SubmitReport(w, t, status)
    BY <1>5
  <2>2. registry' \in [Workers -> (Nat \ {0}) \cup {None}] /\ nextWorkerId' \in Nat \ {0}
    BY <2>1, UpdatesAreTyped DEF SubmitReport
  <2>3. worker[w].qid \in Nat /\ worker[w].input \in Inputs \cup {None}
    BY DEF WorkerTypeOK
  <2>4. [IdleReport EXCEPT !.pc = "select", !.qid = worker[w].qid, !.built = worker[w].input,
                           !.status = status] \in Report
    BY <2>3 DEF IdleReport, Report, ReportSteps, Outcomes
  <2>5. BuildApiTypeOK'
    BY <2>1, <2>4 DEF SubmitReport, ReceiveReport, BuildApiTypeOK
  <2>6. WorkerTypeOK'
    BY <1>0, <1>a, <2>1 DEF SubmitReport
  <2>7. QED
    BY <2>1, <2>2, <2>5, <2>6
    DEF SubmitReport, DatabaseTypeOK, QueueApiTypeOK, PackageApiTypeOK
<1>6. CASE SignUp(w) \/ Unregister(w)
  <2>1. registry' \in [Workers -> (Nat \ {0}) \cup {None}] /\ nextWorkerId' \in Nat \ {0}
    BY <1>6, UpdatesAreTyped DEF SignUp, RegisterWorker, Unregister, UnregisterWorker, DatabaseTypeOK
  <2>2. UNCHANGED <<inputVars, rebuilds, queueVars, request, reports, sync, worker>>
    BY <1>6 DEF SignUp, RegisterWorker, Unregister, UnregisterWorker
  <2>3. QED
    BY <2>1, <2>2
    DEF DatabaseTypeOK, QueueApiTypeOK, BuildApiTypeOK, PackageApiTypeOK, WorkerTypeOK
<1>7. QED  BY <1>1, <1>2, <1>3, <1>4, <1>5, <1>6 DEF WorkerStep

(* TypeOK is preserved by every step from a state that satisfies Inv.      *)
LEMMA TypesArePreserved == Inv /\ [Next]_vars => TypeOK'
<1> SUFFICES ASSUME Inv, [Next]_vars PROVE TypeOK'
  OBVIOUS
<1> USE DEF Inv, TypeOK, inputVars, queueVars, workerRows
<1>1. CASE \E w \in Workers : WorkerStep(w)
  BY <1>1, WorkersAreTyped
<1>2. CASE \E t \in Threads : ReportStep(t)
  <2>1. PICK t \in Threads : ReportStep(t)
    BY <1>2
  <2>2. DatabaseTypeOK' /\ BuildApiTypeOK'
    BY <2>1, ReportsAreTyped DEF ReportStep
  <2>3. QED  BY <2>1, <2>2 DEF ReportStep, QueueApiTypeOK, PackageApiTypeOK, WorkerTypeOK
<1>3. CASE RequestRebuild
  <2>1. DatabaseTypeOK' /\ QueueApiTypeOK'
    BY <1>3, RequestsAreTyped
  <2>2. QED
    BY <1>3, <2>1 DEF RequestRebuild, BuildApiTypeOK, PackageApiTypeOK, WorkerTypeOK
<1>4. CASE DropJobs
  <2>1. /\ queue' \subseteq queue
        /\ UNCHANGED <<inputVars, rebuilds, nextQueueId, workerRows, request, reports, sync, worker>>
    BY <1>4 DEF DropJobs, DropQueuedJobs, DropQueuedJob
  <2>2. QED
    BY <2>1 DEF DatabaseTypeOK, QueueApiTypeOK, BuildApiTypeOK, PackageApiTypeOK, WorkerTypeOK
<1>5. CASE StartSync \/ ContinueSync
  <2>1. DatabaseTypeOK' /\ PackageApiTypeOK'
    BY <1>5, SyncsAreTyped DEF ContinueSync
  <2>2. QED
    BY <1>5, <2>1
    DEF StartSync, ContinueSync, QueueApiTypeOK, BuildApiTypeOK, WorkerTypeOK
<1>6. CASE Tick
  <2>1. queue' \in SUBSET QueueRow
    BY <1>6, QueueUpdatesAreTyped DEF Tick
  <2>2. delay' \in [Inputs -> Nat]
    BY <1>6 DEF Tick, Elapse, DatabaseTypeOK
  <2>3. QED
    BY <1>6, <2>1, <2>2
    DEF Tick, Elapse, DatabaseTypeOK, QueueApiTypeOK, BuildApiTypeOK, PackageApiTypeOK, WorkerTypeOK
<1>7. CASE UNCHANGED vars
  BY <1>7
  DEF vars, dbVars, DatabaseTypeOK, QueueApiTypeOK, BuildApiTypeOK, PackageApiTypeOK, WorkerTypeOK
<1>8. QED  BY <1>1, <1>2, <1>3, <1>4, <1>5, <1>6, <1>7 DEF Next

-----------------------------------------------------------------------------
(* What a step may do to table queue.                                      *)
QueueStep ==
  \/ queue' \subseteq queue /\ UNCHANGED nextQueueId
  \/ ClearStaleJobs /\ UNCHANGED nextQueueId
  \/ \E w \in Workers, q \in queue : registry[w] # None /\ PopJob(w, q)
  \/ \E w \in Workers, id \in Nat : registry'[w] # None /\ PingJob(w, id)
  \/ \E i \in Inputs, p \in Priorities : Upsert(i, p)
  \/ Elapse

(* What a step may do to the ids of the workers.                           *)
RegistryStep ==
  \/ UNCHANGED workerRows
  \/ \E w \in Workers : UpsertWorker(w) \/ UnregisterWorker(w)

(* A row keeps its id and its input, and a row that is inserted takes an   *)
(* id that the counter had not given out.                                  *)
QueueGrows ==
  /\ nextQueueId <= nextQueueId'
  /\ \A r \in queue' : \/ \E q \in queue : q.id = r.id /\ q.input = r.input
                       \/ nextQueueId <= r.id

(* Every step of the system is one of those.                               *)
LEMMA NextSteps == Inv /\ [Next]_vars => QueueStep /\ RegistryStep
<1> SUFFICES ASSUME Inv, [Next]_vars PROVE QueueStep /\ RegistryStep
  OBVIOUS
<1> USE DEF Inv, TypeOK, inputVars, queueVars, workerRows
<1>1. ASSUME NEW w \in Workers, WorkerStep(w) PROVE QueueStep /\ RegistryStep
  <2>1. CASE Poll(w)
    BY <2>1 DEF Poll, RequestWork, Authenticate, QueueStep, RegistryStep
  <2>2. CASE \E q \in queue : StartBuild(w, q) \/ LoseJob(w, q)
    <3>1. registry[w] # None
      BY <2>2 DEF StartBuild, LoseJob, WorkerInStep
    <3>2. PICK q \in queue : PopJob(w, q)
      BY <2>2 DEF StartBuild, LoseJob
    <3>3. QueueStep
      BY <3>1, <3>2 DEF QueueStep
    <3>4. QED  BY <3>2, <3>3 DEF PopJob, RegistryStep
  <2>3. CASE FindNothing(w) \/ StopWorker(w)
    BY <2>3 DEF FindNothing, StopWorker, dbVars, QueueStep, RegistryStep
  <2>4. CASE Ping(w)
    <3>1. worker[w].qid \in Nat
      BY DEF WorkerTypeOK
    <3>2. PingJob(w, worker[w].qid)
      BY <2>4 DEF Ping
    <3>3. registry'[w] # None
      BY <3>2, NoneAssumption DEF PingJob, Authenticate, UpsertWorker, DatabaseTypeOK
    <3>4. QueueStep
      BY <3>1, <3>2, <3>3 DEF QueueStep
    <3>5. QED  BY <3>2, <3>4 DEF PingJob, Authenticate, RegistryStep
  <2>5. CASE \E t \in Threads, status \in Outcomes : SubmitReport(w, t, status)
    BY <2>5 DEF SubmitReport, Authenticate, QueueStep, RegistryStep
  <2>6. CASE SignUp(w) \/ Unregister(w)
    BY <2>6 DEF SignUp, Unregister, RegisterWorker, UnregisterWorker, QueueStep, RegistryStep
  <2>7. QED  BY <1>1, <2>1, <2>2, <2>3, <2>4, <2>5, <2>6 DEF WorkerStep
<1>2. ASSUME NEW t \in Threads, ReportStep(t) PROVE QueueStep /\ RegistryStep
  <2>1. CASE RequeueJob(t)
    <3>1. reports[t].input \in Inputs /\ Retry \in Priorities
      BY <2>1 DEF RequeueJob, At, ReportInStep, Priorities
    <3>2. QED  BY <2>1, <3>1 DEF RequeueJob, QueueStep, RegistryStep
  <2>2. CASE ~RequeueJob(t)
    <3>1. queue' \subseteq queue /\ UNCHANGED <<nextQueueId, workerRows>>
      BY <1>2, <2>2
      DEF ReportStep, HandleReport, AbandonReport, SelectJob, SelectFriends, RecordResult, DequeueJob,
          CountRetry, CheckRetries, SelectExhausted, MarkNonRetriable, UnqueueFriends, SetNextRetry, dbVars
    <3>2. QED  BY <3>1 DEF QueueStep, RegistryStep
  <2>3. QED  BY <2>1, <2>2
<1>3. CASE RequestRebuild
  <2>1. CASE EnqueueInput
    <3>1. request.input \in Inputs /\ request.priority \in Priorities
      BY <2>1 DEF EnqueueInput, RequestInStep, QueueApiTypeOK
    <3>2. QED  BY <2>1, <3>1 DEF EnqueueInput, QueueStep, RegistryStep
  <2>2. CASE ~EnqueueInput
    <3>1. queue' \subseteq queue /\ UNCHANGED <<nextQueueId, workerRows>>
      BY <1>3, <2>2 DEF RequestRebuild, SelectInputs, ResetInput, ClearDelay, AbandonRequest, dbVars
    <3>2. QED  BY <3>1 DEF QueueStep, RegistryStep
  <2>3. QED  BY <2>1, <2>2
<1>4. CASE DropJobs
  BY <1>4 DEF DropJobs, DropQueuedJobs, DropQueuedJob, QueueStep, RegistryStep
<1>5. CASE StartSync
  BY <1>5 DEF StartSync, BeginSync, QueueStep, RegistryStep
<1>6. CASE ContinueSync
  <2>1. CASE \E i \in sync.todo : SchedulePackage(i)
    <3>1. PICK i \in Inputs : SchedulePackage(i)
      BY <2>1 DEF PackageApiTypeOK
    <3>2. \E p \in Priorities : Upsert(i, p)
      BY <3>1 DEF SchedulePackage, Priorities
    <3>3. QueueStep
      BY <3>2 DEF QueueStep
    <3>4. QED  BY <3>1, <3>3 DEF SchedulePackage, ImportPackage, RegistryStep
  <2>2. CASE ~\E i \in sync.todo : SchedulePackage(i)
    <3>1. queue' \subseteq queue /\ UNCHANGED <<nextQueueId, workerRows>>
      BY <1>6, <2>2 DEF ContinueSync, SyncStep, SkipPackage, GiveUpPackage, ImportPackage, CommitSync
    <3>2. QED  BY <3>1 DEF QueueStep, RegistryStep
  <2>3. QED  BY <2>1, <2>2
<1>7. CASE Tick
  BY <1>7 DEF Tick, Elapse, QueueStep, RegistryStep
<1>8. CASE UNCHANGED vars
  BY <1>8 DEF vars, dbVars, QueueStep, RegistryStep
<1>9. QED  BY <1>1, <1>2, <1>3, <1>4, <1>5, <1>6, <1>7, <1>8 DEF Next

(* The ids in table queue stay unique, and a job stays held exactly as     *)
(* long as it carries a ping. A step that rewrites rows is a map on rows   *)
(* (<1>a).                                                                 *)
LEMMA RowsArePreserved ==
  ASSUME DatabaseTypeOK, IssuedIds, HeldJobsCanExpire, QueueStep
  PROVE  IssuedIds' /\ HeldJobsCanExpire' /\ QueueGrows
<1>0. /\ nextQueueId \in Nat
      /\ \A q \in queue : q.id \in Nat /\ q = [id |-> q.id, input |-> q.input, priority |-> q.priority,
                                              worker |-> q.worker, age |-> q.age]
  BY DEF DatabaseTypeOK, QueueRow
<1>a. ASSUME NEW f,
             queue' = {f[q] : q \in queue},
             nextQueueId' = nextQueueId,
             \A q \in queue : /\ f[q].id = q.id /\ f[q].input = q.input
                              /\ (Held(f[q]) <=> f[q].age # None)
      PROVE  IssuedIds' /\ HeldJobsCanExpire' /\ QueueGrows
  <2>1. ASSUME NEW r \in queue'
        PROVE  \E q \in queue : /\ r = f[q] /\ r.id = q.id /\ r.input = q.input
                                /\ (Held(r) <=> r.age # None)
    <3>1. PICK q \in queue : r = f[q]
      BY <1>a
    <3>2. r.id = q.id /\ r.input = q.input /\ (Held(r) <=> r.age # None)
      BY <1>a, <3>1, Zenon
    <3>3. QED  BY <3>1, <3>2
  <2>2. ASSUME NEW r \in queue', NEW s \in queue', r.id = s.id PROVE r = s
    <3>1. PICK q \in queue : r = f[q] /\ r.id = q.id
      BY <2>1
    <3>2. PICK u \in queue : s = f[u] /\ s.id = u.id
      BY <2>1
    <3>3. q = u
      BY <2>2, <3>1, <3>2, Zenon DEF IssuedIds
    <3>4. QED  BY <3>1, <3>2, <3>3, Zenon
  <2>3. ASSUME NEW r \in queue' PROVE r.id < nextQueueId'
    <3>1. PICK q \in queue : r.id = q.id
      BY <2>1
    <3>2. QED  BY <1>a, <3>1, Zenon DEF IssuedIds
  <2>4. IssuedIds'
    BY <2>2, <2>3, Zenon DEF IssuedIds
  <2>5. HeldJobsCanExpire'
    BY <2>1, Zenon DEF HeldJobsCanExpire
  <2>6. QueueGrows
    <3>1. nextQueueId <= nextQueueId'
      BY <1>0, <1>a
    <3>2. \A r \in queue' : \E q \in queue : q.id = r.id /\ q.input = r.input
      BY <2>1, Zenon
    <3>3. QED  BY <3>1, <3>2, Zenon DEF QueueGrows
  <2>7. QED  BY <2>4, <2>5, <2>6
<1> USE NoneAssumption DEF Held, IssuedIds, HeldJobsCanExpire, QueueGrows
<1>1. CASE queue' \subseteq queue /\ UNCHANGED nextQueueId
  BY <1>0, <1>1
<1>2. CASE ClearStaleJobs /\ UNCHANGED nextQueueId
  <2> DEFINE f == [q \in queue |-> IF Stale(q) THEN [q EXCEPT !.worker = None, !.age = None] ELSE q]
  <2>1. queue' = {f[q] : q \in queue}
    BY <1>2 DEF ClearStaleJobs
  <2>2. \A q \in queue : /\ f[q].id = q.id /\ f[q].input = q.input
                         /\ (Held(f[q]) <=> f[q].age # None)
    BY <1>0
  <2> HIDE DEF f
  <2>3. QED  BY <1>2, <1>a, <2>1, <2>2
<1>3. ASSUME NEW w \in Workers, NEW q \in queue, registry[w] # None, PopJob(w, q)
      PROVE  IssuedIds' /\ HeldJobsCanExpire' /\ QueueGrows
  <2> DEFINE f == [u \in queue |-> IF u = q THEN [q EXCEPT !.worker = registry[w], !.age = 0] ELSE u]
  <2>1. queue' = {f[u] : u \in queue} /\ nextQueueId' = nextQueueId
    BY <1>3 DEF PopJob
  <2>2. \A u \in queue : /\ f[u].id = u.id /\ f[u].input = u.input
                         /\ (Held(f[u]) <=> f[u].age # None)
    BY <1>0, <1>3
  <2> HIDE DEF f
  <2>3. QED  BY <1>a, <2>1, <2>2
<1>4. ASSUME NEW w \in Workers, NEW id \in Nat, PingJob(w, id), registry'[w] # None
      PROVE  IssuedIds' /\ HeldJobsCanExpire' /\ QueueGrows
  <2> DEFINE f == [q \in queue |-> IF q.id = id /\ q.worker = registry'[w]
                                   THEN [q EXCEPT !.age = 0] ELSE q]
  <2>1. queue' = {f[q] : q \in queue} /\ nextQueueId' = nextQueueId
    BY <1>4 DEF PingJob
  <2>2. \A q \in queue : /\ f[q].id = q.id /\ f[q].input = q.input
                         /\ (Held(f[q]) <=> f[q].age # None)
    BY <1>0, <1>4
  <2> HIDE DEF f
  <2>3. QED  BY <1>a, <2>1, <2>2
<1>5. ASSUME NEW i \in Inputs, NEW p \in Priorities, Upsert(i, p)
      PROVE  IssuedIds' /\ HeldJobsCanExpire' /\ QueueGrows
  <2>1. CASE Queued(i)
    <3> DEFINE f == [q \in queue |-> IF q.input = i THEN [q EXCEPT !.priority = p] ELSE q]
    <3>1. queue' = {f[q] : q \in queue} /\ nextQueueId' = nextQueueId
      BY <1>5, <2>1 DEF Upsert
    <3>2. \A q \in queue : /\ f[q].id = q.id /\ f[q].input = q.input
                           /\ (Held(f[q]) <=> f[q].age # None)
      BY <1>0
    <3> HIDE DEF f
    <3>3. QED  BY <1>a, <3>1, <3>2
  <2>2. CASE ~Queued(i)
    <3>1. /\ queue' = queue \cup {[id |-> nextQueueId, input |-> i, priority |-> p,
                                    worker |-> None, age |-> None]}
          /\ nextQueueId' = nextQueueId + 1
      BY <1>5, <2>2 DEF Upsert
    <3>2. QED  BY <1>0, <3>1
  <2>3. QED  BY <2>1, <2>2
<1>6. CASE Elapse
  <2> DEFINE f == [q \in queue |-> Older(q)]
  <2>1. queue' = {f[q] : q \in queue} /\ nextQueueId' = nextQueueId
    BY <1>6 DEF Elapse
  <2>2. ASSUME NEW q \in queue
        PROVE  /\ f[q].id = q.id /\ f[q].input = q.input
               /\ (Held(f[q]) <=> f[q].age # None)
    <3>1. q.age = None \/ q.age \in Nat
      BY TimeAssumption DEF DatabaseTypeOK, QueueRow
    <3>2. QED  BY <1>0, <3>1 DEF Older
  <2> HIDE DEF f
  <2>3. QED  BY <1>a, <2>1, <2>2
<1>7. QED  BY <1>1, <1>2, <1>3, <1>4, <1>5, <1>6 DEF QueueStep

(* The holders of jobs stay below the counter of table workers: a row gets *)
(* its holder from the registry, and the counter never goes back.          *)
LEMMA HoldersArePreserved ==
  ASSUME DatabaseTypeOK, HoldersIssued, QueueStep, RegistryStep
  PROVE  HoldersIssued'
<1> USE NoneAssumption DEF Held
<1>1. nextWorkerId \in Nat /\ \A w \in Workers : registry[w] = None \/ registry[w] \in Nat
  BY DEF DatabaseTypeOK
<1>2. /\ nextWorkerId' \in Nat /\ nextWorkerId <= nextWorkerId'
      /\ \A w \in Workers : registry'[w] # None => registry'[w] < nextWorkerId'
  <2>1. CASE UNCHANGED workerRows
    BY <1>1, <2>1 DEF workerRows, HoldersIssued
  <2>2. ASSUME NEW w \in Workers, UpsertWorker(w) \/ UnregisterWorker(w)
        PROVE  /\ nextWorkerId' \in Nat /\ nextWorkerId <= nextWorkerId'
               /\ \A v \in Workers : registry'[v] # None => registry'[v] < nextWorkerId'
    BY <1>1, <2>2 DEF UpsertWorker, UnregisterWorker, workerRows, HoldersIssued, DatabaseTypeOK
  <2>3. QED  BY <2>1, <2>2 DEF RegistryStep
<1>3. \A q \in queue : q.worker = None \/ q.worker \in Nat
  BY DEF DatabaseTypeOK, QueueRow
<1>4. \A r \in queue' : \/ r.worker = None
                       \/ \E q \in queue : r.worker = q.worker
                       \/ \E w \in Workers : r.worker = registry[w]
  <2>1. \A q \in queue : q = [id |-> q.id, input |-> q.input, priority |-> q.priority,
                             worker |-> q.worker, age |-> q.age]
    BY DEF DatabaseTypeOK, QueueRow
  <2>2. CASE queue' \subseteq queue
    BY <2>2
  <2>3. CASE ClearStaleJobs
    <3>1. \A r \in queue' : \E q \in queue :
            r = IF Stale(q) THEN [q EXCEPT !.worker = None, !.age = None] ELSE q
      BY <2>3 DEF ClearStaleJobs
    <3>2. QED  BY <2>1, <3>1
  <2>4. CASE \E w \in Workers, q \in queue : PopJob(w, q)
    BY <2>1, <2>4 DEF PopJob
  <2>5. CASE \E w \in Workers, id \in Nat : PingJob(w, id)
    BY <2>1, <2>5 DEF PingJob
  <2>6. CASE \E i \in Inputs, p \in Priorities : Upsert(i, p)
    BY <2>1, <2>6 DEF Upsert
  <2>7. CASE Elapse
    BY <2>1, <2>7 DEF Elapse, Older
  <2>8. QED  BY <2>2, <2>3, <2>4, <2>5, <2>6, <2>7 DEF QueueStep
<1>5. \A r \in queue' : r.worker # None => r.worker < nextWorkerId'
  BY <1>1, <1>2, <1>3, <1>4 DEF HoldersIssued
<1>6. QED  BY <1>2, <1>5 DEF HoldersIssued

-----------------------------------------------------------------------------
(* What a step may do to the process of worker w.                          *)
WorkerMoves(w) ==
  \/ worker'[w].pc = "idle"
  \/ worker'[w].pc = "popping" /\ registry'[w] # None
  \/ worker'[w] = worker[w] /\ (worker[w].pc = "popping" => registry'[w] # None)
  \/ \E q \in queue : worker'[w] = [pc |-> "building", qid |-> q.id, input |-> q.input]

(* A request that authenticates or registers a worker takes no row of      *)
(* table workers away, and a worker it lets in has one.                    *)
LEMMA RegistrationsLast ==
  ASSUME DatabaseTypeOK, NEW w \in Workers, UpsertWorker(w) \/ Authenticate(w)
  PROVE  /\ registry'[w] # None \/ SignupRequired
         /\ Authenticate(w) => registry'[w] # None
         /\ \A v \in Workers : registry[v] # None => registry'[v] # None
<1> USE NoneAssumption DEF workerRows
<1>1. ASSUME UpsertWorker(w)
      PROVE  \A v \in Workers : (registry[v] # None \/ v = w) => registry'[v] # None
  BY <1>1 DEF UpsertWorker, DatabaseTypeOK
<1>2. QED  BY <1>1 DEF Authenticate

(* Every step of the system does one of those to each worker.              *)
LEMMA WorkersMove == Inv /\ [Next]_vars => \A v \in Workers : WorkerMoves(v)
<1> SUFFICES ASSUME Inv, [Next]_vars, NEW v \in Workers PROVE WorkerMoves(v)
  OBVIOUS
<1> USE DEF Inv, TypeOK, WorkerTypeOK
<1>0. worker[v].pc = "popping" => registry[v] # None
  BY DEF WorkerInStep
<1>1. ASSUME NEW w \in Workers, WorkerStep(w) PROVE WorkerMoves(v)
  <2>1. CASE Poll(w)
    BY <1>0, <2>1, RegistrationsLast DEF Poll, RequestWork, Become, WorkerMoves
  <2>2. CASE \E q \in queue : StartBuild(w, q) \/ LoseJob(w, q)
    BY <1>0, <2>2 DEF StartBuild, LoseJob, PopJob, Become, IdleWorker, WorkerMoves, workerRows
  <2>3. CASE FindNothing(w) \/ StopWorker(w)
    BY <1>0, <2>3
    DEF FindNothing, StopWorker, Become, IdleWorker, WorkerMoves, dbVars, workerRows
  <2>4. CASE Ping(w)
    BY <1>0, <2>4, RegistrationsLast DEF Ping, PingJob, WorkerMoves
  <2>5. CASE \E t \in Threads, status \in Outcomes : SubmitReport(w, t, status)
    BY <1>0, <2>5, RegistrationsLast DEF SubmitReport, Become, IdleWorker, WorkerMoves
  <2>6. CASE SignUp(w)
    BY <1>0, <2>6, RegistrationsLast DEF SignUp, RegisterWorker, WorkerMoves
  <2>7. CASE Unregister(w)
    BY <1>0, <2>7 DEF Unregister, UnregisterWorker, WorkerMoves, DatabaseTypeOK
  <2>8. QED  BY <1>1, <2>1, <2>2, <2>3, <2>4, <2>5, <2>6, <2>7 DEF WorkerStep
<1>2. CASE UNCHANGED <<workerRows, worker>>
  BY <1>0, <1>2 DEF WorkerMoves, workerRows
<1>3. CASE \E t \in Threads : ReportStep(t)
  <2>1. UNCHANGED <<workerRows, worker>>
    BY <1>3
    DEF ReportStep, HandleReport, AbandonReport, SelectJob, SelectFriends, RecordResult, DequeueJob,
        CountRetry, CheckRetries, SelectExhausted, MarkNonRetriable, UnqueueFriends, SetNextRetry,
        RequeueJob, dbVars
  <2>2. QED  BY <1>2, <2>1
<1>4. CASE RequestRebuild
  <2>1. UNCHANGED <<workerRows, worker>>
    BY <1>4
    DEF RequestRebuild, SelectInputs, ResetInput, ClearDelay, EnqueueInput, AbandonRequest, dbVars
  <2>2. QED  BY <1>2, <2>1
<1>5. CASE DropJobs \/ StartSync \/ Tick
  BY <1>2, <1>5 DEF DropJobs, DropQueuedJobs, DropQueuedJob, StartSync, BeginSync, Tick, Elapse
<1>6. CASE ContinueSync
  BY <1>2, <1>6
  DEF ContinueSync, SyncStep, SkipPackage, GiveUpPackage, SchedulePackage, ImportPackage, CommitSync
<1>7. CASE UNCHANGED vars
  BY <1>2, <1>7 DEF vars, dbVars
<1>8. QED  BY <1>1, <1>3, <1>4, <1>5, <1>6, <1>7 DEF Next

(* The queue row that a worker builds keeps its input, or is gone for      *)
(* good.                                                                   *)
LEMMA WorkersArePreserved ==
  ASSUME TypeOK, IssuedIds, QueueGrows, NEW w \in Workers, WorkerInStep(w), WorkerMoves(w),
         nextQueueId' \in Nat
  PROVE  WorkerInStep(w)'
<1>0. /\ nextQueueId \in Nat /\ worker[w].qid \in Nat
      /\ \A q \in queue : q.id \in Nat /\ q.input \in Inputs
  BY DEF TypeOK, DatabaseTypeOK, QueueRow, WorkerTypeOK
<1>1. CASE worker'[w].pc = "idle" \/ (worker'[w].pc = "popping" /\ registry'[w] # None)
  BY <1>1 DEF WorkerInStep
<1>2. CASE worker'[w] = worker[w] /\ (worker[w].pc = "popping" => registry'[w] # None)
  <2>1. ASSUME worker[w].pc = "building", NEW r \in queue', r.id = worker[w].qid
        PROVE  r.input = worker[w].input
    BY <1>0, <2>1 DEF QueueGrows, WorkerInStep
  <2>2. worker[w].pc = "building" => worker[w].qid < nextQueueId'
    BY <1>0 DEF QueueGrows, WorkerInStep
  <2>3. QED  BY <1>2, <2>1, <2>2 DEF WorkerInStep
<1>3. ASSUME NEW q \in queue, worker'[w] = [pc |-> "building", qid |-> q.id, input |-> q.input]
      PROVE  WorkerInStep(w)'
  <2>1. \A r \in queue' : r.id = q.id => r.input = q.input
    BY <1>0 DEF IssuedIds, QueueGrows
  <2>2. q.id < nextQueueId'
    BY <1>0 DEF IssuedIds, QueueGrows
  <2>3. QED  BY <1>0, <1>3, <2>1, <2>2 DEF WorkerInStep
<1>4. QED  BY <1>1, <1>2, <1>3 DEF WorkerMoves

-----------------------------------------------------------------------------
(* What a step may do to the handler of reports in thread t.               *)
ReportMoves(t) ==
  \/ reports'[t] = reports[t]
  \/ reports'[t] = IdleReport
  \/ \E w \in Workers, status \in Outcomes :
       /\ worker[w].pc = "building"
       /\ reports'[t] = [IdleReport EXCEPT !.pc = "select", !.qid = worker[w].qid,
                                           !.built = worker[w].input, !.status = status]
  \/ /\ ~At(t, "idle") /\ reports'[t].pc # "select"
     /\ reports'[t].qid = reports[t].qid /\ reports'[t].built = reports[t].built
     /\ \/ At(t, "select") /\ \E q \in queue : q.id = reports[t].qid /\ reports'[t].input = q.input
        \/ ~At(t, "select") /\ reports'[t].input = reports[t].input
     /\ \A f \in reports'[t].todo :
          f \in reports[t].todo \/ (~At(t, "select") /\ SameFriends(f, reports[t].input))

(* Every step of the system does one of those to each handler of reports.  *)
LEMMA ReportsMove == Inv /\ [Next]_vars => \A u \in Threads : ReportMoves(u)
<1> SUFFICES ASSUME Inv, [Next]_vars, NEW u \in Threads PROVE ReportMoves(u)
  OBVIOUS
<1> USE DEF Inv, TypeOK, BuildApiTypeOK
<1>0. CASE UNCHANGED reports
  BY <1>0 DEF ReportMoves
<1>1. ASSUME NEW w \in Workers, WorkerStep(w) PROVE ReportMoves(u)
  <2>1. CASE \E t \in Threads, status \in Outcomes : SubmitReport(w, t, status)
    BY <2>1 DEF SubmitReport, ReceiveReport, ReportMoves
  <2>2. CASE ~\E t \in Threads, status \in Outcomes : SubmitReport(w, t, status)
    <3>1. UNCHANGED reports
      BY <1>1, <2>2
      DEF WorkerStep, Poll, StartBuild, LoseJob, FindNothing, Ping, StopWorker, SignUp, Unregister
    <3>2. QED  BY <1>0, <3>1
  <2>3. QED  BY <2>1, <2>2
<1>2. ASSUME NEW t \in Threads, ReportStep(t) PROVE ReportMoves(u)
  <2>0. CASE u # t
    <3>1. reports'[u] = reports[u]
      BY <1>2, <2>0
      DEF ReportStep, HandleReport, AbandonReport, SelectJob, SelectFriends, RecordResult, DequeueJob,
          CountRetry, CheckRetries, SelectExhausted, MarkNonRetriable, UnqueueFriends, SetNextRetry,
          RequeueJob, Finish, GoTo
    <3>2. QED  BY <3>1 DEF ReportMoves
  <2> SUFFICES ASSUME u = t PROVE ReportMoves(t)
    BY <2>0
  <2>a. CASE Finish(t)
    BY <2>a DEF Finish, ReportMoves
  <2>b. ASSUME NEW pc \in ReportSteps \ {"select"}, GoTo(t, pc), ~At(t, "idle"), ~At(t, "select")
        PROVE  ReportMoves(t)
    BY <2>b DEF GoTo, ReportMoves, Report
  <2>1. CASE SelectJob(t)
    <3>1. CASE \E q \in queue :
                 /\ q.id = reports[t].qid
                 /\ reports' = [reports EXCEPT ![t] = [@ EXCEPT !.pc = "friends", !.input = q.input]]
      <4>1. PICK q \in queue :
              /\ q.id = reports[t].qid
              /\ reports' = [reports EXCEPT ![t] = [@ EXCEPT !.pc = "friends", !.input = q.input]]
        BY <3>1
      <4>2. reports[t] \in Report /\ reports[t].pc = "select"
        BY <2>1 DEF SelectJob, At
      <4>3. /\ reports'[t].pc = "friends" /\ reports'[t].input = q.input
            /\ reports'[t].qid = reports[t].qid /\ reports'[t].built = reports[t].built
            /\ reports'[t].todo = reports[t].todo
        BY <4>1, <4>2 DEF Report
      <4>4. QED  BY <4>1, <4>2, <4>3 DEF At, ReportMoves
    <3>2. QED  BY <2>1, <2>a, <3>1 DEF SelectJob
  <2>2. CASE SelectFriends(t)
    BY <2>2 DEF SelectFriends, Friends, FriendsIn, SameFriends, At, ReportMoves, Report
  <2>3. CASE \E f \in Inputs, inOrder \in BuiltAtOrders : RecordResult(t, f, inOrder)
    <3>1. PICK f \in Inputs, inOrder \in BuiltAtOrders : RecordResult(t, f, inOrder)
      BY <2>3
    <3>2. /\ At(t, "record")
          /\ reports'[t].pc \in {"dequeue", "record"}
          /\ reports'[t].qid = reports[t].qid /\ reports'[t].built = reports[t].built
          /\ reports'[t].input = reports[t].input
          /\ reports'[t].todo \subseteq reports[t].todo
      <4>1. reports'[t] = [reports[t] EXCEPT
                             !.todo = reports[t].todo \ {f},
                             !.pc = IF reports[t].todo = {f} THEN "dequeue" ELSE "record"]
        BY <3>1 DEF RecordResult
      <4>2. reports[t] \in Report /\ At(t, "record")
        BY <3>1 DEF RecordResult
      <4>3. QED  BY <4>1, <4>2 DEF Report
    <3>3. QED  BY <3>2 DEF At, ReportMoves
  <2>4. CASE CheckRetries(t)
    <3>1. ~At(t, "idle") /\ ~At(t, "select")
      BY <2>4 DEF CheckRetries, At
    <3>2. CASE GoTo(t, "mark")
      BY <2>b, <3>1, <3>2 DEF ReportSteps
    <3>3. ASSUME NEW n,
                 reports' = [reports EXCEPT ![t] = [@ EXCEPT !.pc = "delay", !.largest = n]]
          PROVE  ReportMoves(t)
      BY <3>1, <3>3 DEF ReportMoves, Report
    <3>4. QED  BY <2>4, <3>2, <3>3 DEF CheckRetries, GoTo
  <2>5. CASE SelectExhausted(t)
    BY <2>5 DEF SelectExhausted, At, ReportMoves, Report
  <2>6. CASE DequeueJob(t) \/ CountRetry(t) \/ MarkNonRetriable(t) \/ SetNextRetry(t)
    <3>1. ~At(t, "idle") /\ ~At(t, "select")
      BY <2>6 DEF DequeueJob, CountRetry, MarkNonRetriable, SetNextRetry, At
    <3>2. Finish(t) \/ GoTo(t, "retries") \/ GoTo(t, "largest") \/ GoTo(t, "unqueue")
          \/ GoTo(t, "requeue")
      BY <2>6 DEF DequeueJob, CountRetry, MarkNonRetriable, SetNextRetry
    <3>3. QED  BY <2>a, <2>b, <3>1, <3>2 DEF ReportSteps
  <2>7. CASE UnqueueFriends(t) \/ RequeueJob(t) \/ AbandonReport(t)
    BY <2>a, <2>7 DEF UnqueueFriends, RequeueJob, AbandonReport
  <2>8. QED
    BY <1>2, <2>1, <2>2, <2>3, <2>4, <2>5, <2>6, <2>7 DEF ReportStep, HandleReport
<1>3. CASE RequestRebuild \/ DropJobs \/ StartSync \/ ContinueSync \/ Tick
  BY <1>0, <1>3 DEF RequestRebuild, DropJobs, StartSync, ContinueSync, Tick
<1>4. CASE UNCHANGED vars
  BY <1>0, <1>4 DEF vars
<1>5. QED  BY <1>1, <1>2, <1>3, <1>4 DEF Next

(* A report stays with the input that its sender built.                    *)
LEMMA ReportsArePreserved ==
  ASSUME TypeOK, IssuedIds, QueueGrows, nextQueueId' \in Nat,
         \A w \in Workers : WorkerInStep(w),
         NEW t \in Threads, ReportInStep(t), ReportMoves(t)
  PROVE  ReportInStep(t)'
<1> USE DEF At
<1>0. /\ nextQueueId \in Nat /\ reports[t].qid \in Nat
      /\ \A q \in queue : q.id \in Nat /\ q.input \in Inputs
      /\ \A w \in Workers : worker[w].qid \in Nat
  BY DEF TypeOK, DatabaseTypeOK, QueueRow, BuildApiTypeOK, Report, WorkerTypeOK
<1>1. ~At(t, "idle") =>
        /\ reports[t].qid < nextQueueId'
        /\ \A r \in queue' : r.id = reports[t].qid => r.input = reports[t].built
  BY <1>0 DEF QueueGrows, ReportInStep
<1>2. CASE reports'[t] = reports[t]
  BY <1>1, <1>2 DEF ReportInStep, SameFriends
<1>3. CASE reports'[t] = IdleReport
  BY <1>3 DEF ReportInStep, IdleReport
<1>4. ASSUME NEW w \in Workers, NEW status \in Outcomes, worker[w].pc = "building",
             reports'[t] = [IdleReport EXCEPT !.pc = "select", !.qid = worker[w].qid,
                                              !.built = worker[w].input, !.status = status]
      PROVE  ReportInStep(t)'
  <2>1. /\ worker[w].input \in Inputs /\ worker[w].qid < nextQueueId
        /\ \A q \in queue : q.id = worker[w].qid => q.input = worker[w].input
    BY <1>4 DEF WorkerInStep
  <2>2. /\ worker[w].qid < nextQueueId'
        /\ \A r \in queue' : r.id = worker[w].qid => r.input = worker[w].input
    BY <1>0, <2>1 DEF QueueGrows
  <2>3. QED  BY <1>4, <2>1, <2>2 DEF ReportInStep, IdleReport
<1>5. ASSUME ~At(t, "idle"), reports'[t].pc # "select",
             reports'[t].qid = reports[t].qid, reports'[t].built = reports[t].built,
             \/ At(t, "select") /\ \E q \in queue : q.id = reports[t].qid /\ reports'[t].input = q.input
             \/ ~At(t, "select") /\ reports'[t].input = reports[t].input,
             \A f \in reports'[t].todo :
               f \in reports[t].todo \/ (~At(t, "select") /\ SameFriends(f, reports[t].input))
      PROVE  ReportInStep(t)'
  <2>1. /\ reports[t].built \in Inputs /\ reports[t].qid < nextQueueId
        /\ \A q \in queue : q.id = reports[t].qid => q.input = reports[t].built
        /\ ~At(t, "select") => reports[t].input = reports[t].built
        /\ \A f \in reports[t].todo : SameFriends(f, reports[t].built)
    BY <1>5 DEF ReportInStep
  <2>2. /\ reports[t].qid < nextQueueId'
        /\ \A r \in queue' : r.id = reports[t].qid => r.input = reports[t].built
    BY <1>1, <1>5
  <2>3. reports'[t].input = reports[t].built
    BY <1>5, <2>1
  <2>4. \A f \in reports'[t].todo : SameFriends(f, reports[t].built)
    BY <1>5, <2>1
  <2>5. QED  BY <1>5, <2>1, <2>2, <2>3, <2>4 DEF ReportInStep, SameFriends
<1>6. QED  BY <1>2, <1>3, <1>4, <1>5 DEF ReportMoves

-----------------------------------------------------------------------------
(* POST /queue takes an input in hand before the statements that use it.   *)
LEMMA RequestIsPreserved == Inv /\ [Next]_vars => RequestInStep'
<1> SUFFICES ASSUME Inv, [Next]_vars PROVE RequestInStep'
  OBVIOUS
<1> USE DEF Inv, TypeOK, QueueApiTypeOK, RequestInStep
<1>1. CASE RequestRebuild
  <2>1. ASSUME NEW i \in request.todo, ResetInput(i) PROVE RequestInStep'
    BY <2>1 DEF ResetInput
  <2>2. CASE request'.pc \in {"next", "idle"}
    BY <2>2
  <2>3. ASSUME NEW source, NEW scope, NEW status, NEW reset, NEW priority,
               SelectInputs(source, scope, status, reset, priority)
        PROVE  request'.pc \in {"next", "idle"}
    BY <2>3 DEF SelectInputs
  <2>4. CASE ClearDelay
    BY <2>4 DEF ClearDelay
  <2>5. EnqueueInput \/ AbandonRequest => request'.pc \in {"next", "idle"}
    <3>1. CASE request' = [request EXCEPT !.pc = "next", !.input = None]
      BY <3>1
    <3>2. CASE request' = IdleRequest
      BY <3>2 DEF IdleRequest
    <3>3. QED  BY <3>1, <3>2, Zenon DEF EnqueueInput, AbandonRequest
  <2>6. QED  BY <1>1, <2>1, <2>2, <2>3, <2>4, <2>5 DEF RequestRebuild
<1>2. CASE UNCHANGED request
  BY <1>2
<1>3. CASE ~RequestRebuild
  <2>1. UNCHANGED request
    BY <1>3
    DEF Next, WorkerStep, Poll, RequestWork, StartBuild, LoseJob, PopJob, FindNothing, Ping, PingJob,
        SubmitReport, StopWorker, SignUp, Unregister, ReportStep, DropJobs, DropQueuedJobs,
        DropQueuedJob, StartSync, ContinueSync, Tick, vars
  <2>2. QED  BY <1>2, <2>1
<1>4. QED  BY <1>1, <1>3

(* Inv is inductive.                                                       *)
LEMMA InvIsPreserved == Inv /\ [Next]_vars => Inv'
<1> SUFFICES ASSUME Inv, [Next]_vars PROVE Inv'
  OBVIOUS
<1>1. TypeOK /\ TypeOK' /\ DatabaseTypeOK /\ nextQueueId' \in Nat
  BY TypesArePreserved DEF Inv, TypeOK, DatabaseTypeOK
<1>2. QueueStep /\ RegistryStep
  BY NextSteps
<1>3. IssuedIds' /\ HeldJobsCanExpire' /\ QueueGrows
  BY <1>1, <1>2, RowsArePreserved DEF Inv
<1>4. HoldersIssued'
  BY <1>1, <1>2, HoldersArePreserved DEF Inv
<1>5. RequestInStep'
  BY RequestIsPreserved
<1>6. \A w \in Workers : WorkerInStep(w)'
  BY <1>1, <1>3, WorkersMove, WorkersArePreserved DEF Inv
<1>7. \A t \in Threads : ReportInStep(t)'
  BY <1>1, <1>3, ReportsMove, ReportsArePreserved DEF Inv
<1>8. QED  BY <1>1, <1>3, <1>4, <1>5, <1>6, <1>7 DEF Inv

(* Inv holds while the tables are empty.                                   *)
LEMMA InvHoldsInitially == Init => Inv
<1> SUFFICES ASSUME Init PROVE Inv
  OBVIOUS
<1> USE DEF Init, DatabaseInit, QueueApiInit, BuildApiInit, PackageApiInit
<1>1. DatabaseTypeOK
  BY DEF DatabaseTypeOK, RebuildView, NoRebuild, Results
<1>2. QueueApiTypeOK /\ RequestInStep
  BY DEF QueueApiTypeOK, IdleRequest, RequestSteps, Priorities, RequestInStep
<1>3. BuildApiTypeOK /\ \A t \in Threads : ReportInStep(t)
  BY DEF BuildApiTypeOK, Report, IdleReport, ReportSteps, Outcomes, ReportInStep, At
<1>4. PackageApiTypeOK
  BY DEF PackageApiTypeOK, IdleSync
<1>5. WorkerTypeOK /\ \A w \in Workers : WorkerInStep(w)
  BY DEF WorkerTypeOK, IdleWorker, WorkerSteps, WorkerInStep
<1>6. IssuedIds /\ HeldJobsCanExpire /\ HoldersIssued
  BY DEF IssuedIds, HeldJobsCanExpire, HoldersIssued
<1>7. QED  BY <1>1, <1>2, <1>3, <1>4, <1>5, <1>6 DEF Inv, TypeOK

(* The inductive invariant holds in every reachable state.                 *)
THEOREM InvHolds == Spec => []Inv
BY InvHoldsInitially, InvIsPreserved, PTL DEF Spec

(* Every variable keeps its type, the rows of the tables included.         *)
THEOREM TypeCorrect == Spec => []TypeOK
<1>1. Inv => TypeOK
  BY DEF Inv
<1>2. QED  BY <1>1, InvHolds, PTL

(* A job has a holder exactly if it carries a ping: request_work, which    *)
(* only looks at last_ping, can take every job from a silent holder.       *)
THEOREM JobsExpire == Spec => []HeldJobsCanExpire
<1>1. Inv => HeldJobsCanExpire
  BY DEF Inv
<1>2. QED  BY <1>1, InvHolds, PTL

(* The queue id in a report never names the job of another package than    *)
(* the one its sender built, whatever was deleted, requeued or reported    *)
(* meanwhile, and the result is recorded for friends of that package only. *)
THEOREM ReportsMatch == Spec => []ReportsMatchBuilds
<1>1. Inv => ReportsMatchBuilds
  BY DEF Inv, ReportsMatchBuilds, WorkerInStep, ReportInStep
<1>2. QED  BY <1>1, InvHolds, PTL

(* No step takes a job from a worker that pinged it within PING_DEADLINE,  *)
(* or hands it from one worker to another without freeing it in between.   *)
THEOREM LeasesAreRespected == Spec => LeaseRespected
<1>1. ASSUME Inv, [Next]_vars, NEW q \in queue, NEW r \in queue',
             r.id = q.id, Held(q), r.worker # q.worker
      PROVE  r.worker = None /\ Stale(q)
  <2> USE DEF Held
  <2>1. /\ QueueStep
        /\ \A u \in queue : u.id = q.id => u = q
        /\ q.id < nextQueueId
        /\ \A u \in queue : u \in QueueRow
    BY <1>1, NextSteps DEF Inv, TypeOK, DatabaseTypeOK, IssuedIds
  <2>2. CASE queue' \subseteq queue
    BY <1>1, <2>1, <2>2
  <2>3. CASE ClearStaleJobs
    <3>1. PICK u \in queue : r = IF Stale(u) THEN [u EXCEPT !.worker = None, !.age = None] ELSE u
      BY <1>1, <2>3 DEF ClearStaleJobs
    <3>2. u = q
      BY <1>1, <2>1, <3>1 DEF QueueRow
    <3>3. QED  BY <1>1, <2>1, <3>1, <3>2 DEF QueueRow
  <2>4. ASSUME NEW w \in Workers, NEW u \in queue, PopJob(w, u) PROVE FALSE
    <3>1. u.worker = None
      BY <2>4 DEF PopJob, FirstInLine, Eligible
    <3>2. r \in queue \/ r = [u EXCEPT !.worker = registry[w], !.age = 0]
      BY <1>1, <2>4 DEF PopJob
    <3>3. r.id = u.id \/ r \in queue
      BY <2>1, <3>2 DEF QueueRow
    <3>4. QED  BY <1>1, <2>1, <3>1, <3>2, <3>3
  <2>5. ASSUME NEW w \in Workers, NEW id \in Nat, PingJob(w, id) PROVE FALSE
    <3>1. PICK u \in queue : r = u \/ r = [u EXCEPT !.age = 0]
      BY <1>1, <2>5 DEF PingJob
    <3>2. r.id = u.id /\ r.worker = u.worker
      BY <2>1, <3>1 DEF QueueRow
    <3>3. QED  BY <1>1, <2>1, <3>2
  <2>6. ASSUME NEW i \in Inputs, NEW p \in Priorities, Upsert(i, p) PROVE FALSE
    <3>1. \/ \E u \in queue : r = u \/ r = [u EXCEPT !.priority = p]
          \/ r.id = nextQueueId
      BY <1>1, <2>6 DEF Upsert
    <3>2. CASE r.id = nextQueueId
      BY <1>1, <2>1, <3>2 DEF Inv, TypeOK, DatabaseTypeOK
    <3>3. CASE \E u \in queue : r = u \/ r = [u EXCEPT !.priority = p]
      <4>1. PICK u \in queue : r = u \/ r = [u EXCEPT !.priority = p]
        BY <3>3
      <4>2. r.id = u.id /\ r.worker = u.worker
        BY <2>1, <4>1 DEF QueueRow
      <4>3. QED  BY <1>1, <2>1, <4>2
    <3>4. QED  BY <3>1, <3>2, <3>3
  <2>7. CASE Elapse
    <3>1. PICK u \in queue : r = u \/ r = [u EXCEPT !.age = u.age + 1]
      BY <1>1, <2>7 DEF Elapse, Older
    <3>2. r.id = u.id /\ r.worker = u.worker
      BY <2>1, <3>1 DEF QueueRow
    <3>3. QED  BY <1>1, <2>1, <3>2
  <2>8. QED  BY <2>1, <2>2, <2>3, <2>4, <2>5, <2>6, <2>7 DEF QueueStep
<1>2. Inv /\ [Next]_vars =>
        [\A q \in queue, r \in queue' :
           r.id = q.id /\ Held(q) /\ r.worker # q.worker => r.worker = None /\ Stale(q)]_vars
  BY <1>1
<1>3. QED  BY <1>2, InvHolds, PTL DEF Spec, LeaseRespected

(* A worker that is given a row in table workers is not taken for the      *)
(* holder of a job that a deleted worker left behind.                      *)
THEOREM NewWorkersAreFree == Spec => NewWorkersHoldNothing
<1>1. ASSUME Inv, [Next]_vars, NEW w \in Workers, NEW q \in queue,
             registry[w] = None, registry'[w] # None
      PROVE  q.worker # registry'[w]
  <2>1. RegistryStep
    BY <1>1, NextSteps
  <2>2. PICK v \in Workers : UpsertWorker(v) \/ UnregisterWorker(v)
    BY <1>1, <2>1 DEF RegistryStep, workerRows
  <2>3. registry'[w] = nextWorkerId
    BY <1>1, <2>2
    DEF UpsertWorker, UnregisterWorker, workerRows, Inv, TypeOK, DatabaseTypeOK
  <2>4. nextWorkerId \in Nat /\ (q.worker = None \/ q.worker \in Nat)
    BY <1>1 DEF Inv, TypeOK, DatabaseTypeOK, QueueRow
  <2>5. q.worker = None \/ q.worker < nextWorkerId
    BY <1>1 DEF Inv, HoldersIssued, Held
  <2>6. QED  BY <2>3, <2>4, <2>5, NoneAssumption
<1>2. Inv /\ [Next]_vars =>
        [\A w \in Workers, q \in queue :
           registry[w] = None /\ registry'[w] # None => q.worker # registry'[w]]_vars
  BY <1>1
<1>3. QED  BY <1>2, InvHolds, PTL DEF Spec, NewWorkersHoldNothing

(* No step of a sync drops or changes a held job. Marking friends as non-  *)
(* retriable could, but it only happens when no friend is queued.          *)
THEOREM SyncsKeepHeldJobs == Spec => SyncKeepsHeldJobs
<1>1. ASSUME [Next]_vars, sync.active, NEW q \in queue, Held(q) PROVE q \in queue'
  <2> USE DEF inputVars, queueVars, workerRows, dbVars
  <2>1. ContinueSync \/ UNCHANGED vars
    BY <1>1
    DEF Next, WorkerStep, Poll, StartBuild, LoseJob, FindNothing, Ping, SubmitReport, StopWorker,
        SignUp, Unregister, ReportStep, RequestRebuild, DropJobs, StartSync, BeginSync, Tick, LockFree
  <2>2. CASE UNCHANGED vars
    BY <2>2 DEF vars
  <2>3. ASSUME NEW i \in sync.todo, SkipPackage(i) PROVE q \in queue'
    BY <2>3 DEF SkipPackage
  <2>4. ASSUME NEW i \in sync.todo, GiveUpPackage(i) PROVE q \in queue'
    BY <2>4 DEF GiveUpPackage, NeedsJob, QueuedFriend
  <2>5. ASSUME NEW i \in sync.todo, SchedulePackage(i) PROVE q \in queue'
    <3>1. ~Queued(i)
      BY <2>5 DEF SchedulePackage, NeedsJob, QueuedFriend, Queued, FriendsIn
    <3>2. QED  BY <2>5, <3>1 DEF SchedulePackage, Upsert
  <2>6. CASE CommitSync
    BY <1>1, <2>6 DEF CommitSync, Unwanted, Held
  <2>7. QED  BY <2>1, <2>2, <2>3, <2>4, <2>5, <2>6 DEF ContinueSync, SyncStep
<1>2. [Next]_vars => [sync.active => \A q \in queue : Held(q) => q \in queue']_vars
  BY <1>1
<1>3. QED  BY <1>2, PTL DEF Spec, SyncKeepsHeldJobs
=============================================================================
