-------------------------- MODULE SchedulingProofs --------------------------
(***************************************************************************)
(* Proofs of what the daemon promises of its schedule, on top of Inv: what *)
(* a sync reports is scheduled, what is scheduled stays so, and the limit  *)
(* on retries holds unless two reports on friends decide at once.  They    *)
(* need to know where a row of table queue may come from (JobsCome) and    *)
(* how it may go (JobsGo), and what the handlers have in hand              *)
(* (SchedulingInv).                                                        *)
(***************************************************************************)
EXTENDS RebuilderdProofs

-----------------------------------------------------------------------------
(* While a sync holds the write lock only its own handler moves.           *)
LEMMA SyncsRunAlone ==
  ASSUME [Next]_vars, sync.active
  PROVE  ContinueSync \/ UNCHANGED vars
BY DEF Next, WorkerStep, Poll, StartBuild, LoseJob, FindNothing, Ping, SubmitReport, StopWorker,
       SignUp, Unregister, ReportStep, RequestRebuild, DropJobs, StartSync, BeginSync, Tick, LockFree

(* Importing a package adds it to the known ones and touches the results   *)
(* of no other.                                                            *)
LEMMA ImportsAdd ==
  ASSUME DatabaseTypeOK, NEW i \in Inputs, ImportPackage(i)
  PROVE  /\ Known' = Known \cup {i}
         /\ UNCHANGED retries
         /\ \A j \in Inputs : j # i \/ i \in Known => rebuilds'[j] = rebuilds[j]
<1>1. IsFiniteSet(Known)
  BY FS_Subset, MapAssumption DEF Known
<1>2. Cardinality(Known) \in Nat
  BY <1>1, FS_CardinalityType
<1>3. Known' = Known \cup {i}
  <2>1. CASE i \in Known
    BY <2>1 DEF ImportPackage, Known
  <2>2. CASE i \notin Known
    <3>1. rowid' = [rowid EXCEPT ![i] = Cardinality(Known) + 1]
      BY <2>2 DEF ImportPackage
    <3>2. Cardinality(Known) + 1 # 0
      BY <1>2
    <3>3. QED  BY <3>1, <3>2 DEF Known, DatabaseTypeOK
  <2>3. QED  BY <2>1, <2>2
<1>4. \A j \in Inputs : j # i \/ i \in Known => rebuilds'[j] = rebuilds[j]
  BY DEF ImportPackage, IsNewPackage, DatabaseTypeOK
<1>5. QED  BY <1>3, <1>4 DEF ImportPackage

(* A new job has no holder; a job that is asked for again keeps all but    *)
(* its priority.                                                           *)
LEMMA UpsertQueues ==
  ASSUME DatabaseTypeOK, NEW i \in Inputs, NEW p \in Priorities, Upsert(i, p)
  PROVE  /\ \E r \in queue' : r.input = i
         /\ \A q \in queue : \E r \in queue' : r.id = q.id /\ r.input = q.input
         /\ \A r \in queue' : \/ \E q \in queue : q.input = r.input /\ q.priority = r.priority
                              \/ r.input = i /\ r.priority = p
<1> USE DEF DatabaseTypeOK, QueueRow
<1>1. CASE Queued(i)
  <2> DEFINE f(q) == IF q.input = i THEN [q EXCEPT !.priority = p] ELSE q
  <2>1. queue' = {f(q) : q \in queue}
    BY <1>1 DEF Upsert
  <2>2. \A q \in queue : /\ f(q).id = q.id /\ f(q).input = q.input
                         /\ q.input = i => f(q).priority = p
                         /\ q.input # i => f(q).priority = q.priority
    OBVIOUS
  <2>3. \A q \in queue : f(q) \in queue'
    BY <2>1
  <2>4. \A q \in queue : \E r \in queue' : r.id = q.id /\ r.input = q.input
    BY <2>2, <2>3
  <2>5. \E r \in queue' : r.input = i
    BY <1>1, <2>4 DEF Queued
  <2>6. ASSUME NEW r \in queue'
        PROVE  \/ \E q \in queue : q.input = r.input /\ q.priority = r.priority
               \/ r.input = i /\ r.priority = p
    <3>1. PICK q \in queue : r = f(q)
      BY <2>1
    <3>2. QED  BY <2>2, <3>1
  <2>7. QED  BY <2>4, <2>5, <2>6
<1>2. CASE ~Queued(i)
  <2> DEFINE new == [id |-> nextQueueId, input |-> i, priority |-> p, worker |-> None, age |-> None]
  <2>1. queue' = queue \cup {new}
    BY <1>2 DEF Upsert
  <2>2. new.input = i /\ new.priority = p
    OBVIOUS
  <2> HIDE DEF new
  <2>3. QED  BY <2>1, <2>2
<1>3. QED  BY <1>1, <1>2

-----------------------------------------------------------------------------
(* What a sync has done so far: every package that it has taken from its   *)
(* report is reproduced, past its retries, or queued.                      *)
TakenAreScheduled ==
  sync.active => \A i \in sync.reported \ sync.todo :
    i \in Known /\ (Reproduced(i) \/ GivenUp(i) \/ QueuedFriend(Known, i))

LEMMA TakenStayScheduled == Inv /\ TakenAreScheduled /\ [Next]_vars => TakenAreScheduled'
<1> SUFFICES ASSUME Inv, TakenAreScheduled, [Next]_vars PROVE TakenAreScheduled'
  OBVIOUS
<1> USE DEF Inv, TypeOK
<1>1. CASE ~sync.active
  <2>1. CASE StartSync
    BY <2>1 DEF StartSync, BeginSync, TakenAreScheduled
  <2>2. CASE UNCHANGED sync
    BY <1>1, <2>2 DEF TakenAreScheduled
  <2>3. CASE ContinueSync
    <3>1. sync'.active = FALSE
      <4>1. CASE CommitSync
        BY <4>1 DEF CommitSync, IdleSync
      <4>2. ASSUME NEW i, ImportPackage(i) PROVE sync'.active = FALSE
        BY <1>1, <4>2 DEF ImportPackage, PackageApiTypeOK
      <4>3. QED
        BY <2>3, <4>1, <4>2 DEF ContinueSync, SyncStep, SkipPackage, GiveUpPackage, SchedulePackage
    <3>2. QED  BY <3>1 DEF TakenAreScheduled
  <2>4. StartSync \/ ContinueSync \/ UNCHANGED sync
    BY DEF Next, WorkerStep, Poll, StartBuild, LoseJob, FindNothing, Ping, SubmitReport, StopWorker,
           SignUp, Unregister, ReportStep, RequestRebuild, DropJobs, Tick, vars
  <2>5. QED  BY <2>1, <2>2, <2>3, <2>4
<1>2. CASE sync.active
  <2>1. CASE UNCHANGED vars
    BY <2>1 DEF TakenAreScheduled, vars, dbVars, inputVars, queueVars, Reproduced, GivenUp,
         QueuedFriend, FriendsIn, FriendsExhausted, Known, CurrentStatus
  <2>2. CASE CommitSync
    BY <2>2 DEF CommitSync, IdleSync, TakenAreScheduled
  <2>3. ASSUME NEW i \in sync.todo, SkipPackage(i) \/ GiveUpPackage(i) \/ SchedulePackage(i)
        PROVE  TakenAreScheduled'
    <3>1. /\ i \in Inputs /\ ImportPackage(i)
      BY <2>3 DEF SkipPackage, GiveUpPackage, SchedulePackage, PackageApiTypeOK
    <3>2. /\ Known' = Known \cup {i} /\ UNCHANGED retries
          /\ \A j \in Inputs : j # i \/ i \in Known => rebuilds'[j] = rebuilds[j]
      BY <3>1, ImportsAdd
    <3>3. sync' = [sync EXCEPT !.todo = @ \ {i}]
      BY <3>1 DEF ImportPackage
    <3>4. Reproduced(i)' \/ GivenUp(i)' \/ QueuedFriend(Known, i)'
      <4>1. CASE SkipPackage(i)
        BY <3>2, <4>1 DEF SkipPackage, queueVars, Reproduced, QueuedFriend, FriendsIn
      <4>2. CASE GiveUpPackage(i)
        BY <3>2, <4>2 DEF GiveUpPackage, GivenUp, FriendsExhausted, FriendsIn
      <4>3. CASE SchedulePackage(i)
        <5>1. PICK p \in Priorities : Upsert(i, p)
          BY <4>3 DEF SchedulePackage, Priorities
        <5>2. \E r \in queue' : r.input = i
          BY <3>1, <5>1, UpsertQueues
        <5>3. QED  BY <3>2, <5>2 DEF QueuedFriend, FriendsIn
      <4>4. QED  BY <2>3, <4>1, <4>2, <4>3
    <3>5. ASSUME NEW j \in sync.reported \ sync.todo
          PROVE  j \in Known' /\ (Reproduced(j)' \/ GivenUp(j)' \/ QueuedFriend(Known, j)')
      <4>1. j \in Known /\ j \in Inputs /\ (Reproduced(j) \/ GivenUp(j) \/ QueuedFriend(Known, j))
        BY <1>2 DEF TakenAreScheduled, Known
      <4>2. Reproduced(j) => Reproduced(j)'
        BY <3>2, <4>1 DEF Reproduced
      <4>3. GivenUp(j) => GivenUp(j)'
        BY <3>2 DEF GivenUp, FriendsExhausted, FriendsIn
      <4>4. ASSUME QueuedFriend(Known, j) PROVE GivenUp(j)' \/ QueuedFriend(Known, j)'
        <5>1. PICK q \in queue : q.input \in Known /\ FriendKey[q.input] = FriendKey[j]
          BY <4>4 DEF QueuedFriend, FriendsIn
        <5>2. (\E r \in queue' : r.input = q.input) => QueuedFriend(Known, j)'
          BY <3>2, <5>1 DEF QueuedFriend, FriendsIn
        <5>3. CASE SkipPackage(i)
          BY <5>2, <5>3 DEF SkipPackage, queueVars
        <5>4. CASE SchedulePackage(i)
          <6>1. PICK p \in Priorities : Upsert(i, p)
            BY <5>4 DEF SchedulePackage, Priorities
          <6>2. \E r \in queue' : r.input = q.input
            BY <3>1, <6>1, UpsertQueues
          <6>3. QED  BY <5>2, <6>2
        <5>5. CASE GiveUpPackage(i)
          <6>1. CASE FriendKey[i] = FriendKey[j]
            BY <3>2, <5>5, <6>1 DEF GiveUpPackage, GivenUp, FriendsExhausted, FriendsIn
          <6>2. CASE FriendKey[i] # FriendKey[j]
            BY <5>1, <5>2, <5>5, <6>2 DEF GiveUpPackage, FriendsIn
          <6>3. QED  BY <6>1, <6>2
        <5>6. QED  BY <2>3, <5>3, <5>4, <5>5
      <4>5. QED  BY <3>2, <4>1, <4>2, <4>3, <4>4
    <3>6. sync'.reported = sync.reported /\ sync'.todo = sync.todo \ {i}
      BY <3>3 DEF PackageApiTypeOK
    <3>7. QED  BY <3>2, <3>4, <3>5, <3>6 DEF TakenAreScheduled
  <2>4. QED  BY <1>2, <2>1, <2>2, <2>3, SyncsRunAlone DEF ContinueSync, SyncStep
<1>3. QED  BY <1>1, <1>2

(* When a sync commits, every package it reported is reproduced, past its  *)
(* retries, or queued, but for those that relied on a job which the commit *)
(* drops: no order of the packages in the report leaves one out.           *)
THEOREM SyncsScheduleReported == Spec => SyncSchedulesReported
<1>1. Init => TakenAreScheduled
  BY DEF Init, PackageApiInit, IdleSync, TakenAreScheduled
<1>2. ASSUME Inv, TakenAreScheduled, CommitSync, NEW i \in sync.reported
      PROVE  \/ Reproduced(i) \/ GivenUp(i)
             \/ QueuedFriend(Known, i)'
             \/ \E q \in queue : Unwanted(q) /\ SameFriends(i, q.input)
  <2>1. i \in Known /\ (Reproduced(i) \/ GivenUp(i) \/ QueuedFriend(Known, i))
    BY <1>2 DEF CommitSync, TakenAreScheduled
  <2>2. CASE QueuedFriend(Known, i)
    <3>1. PICK q \in queue : q.input \in Known /\ FriendKey[q.input] = FriendKey[i]
      BY <2>2 DEF QueuedFriend, FriendsIn
    <3>2. Known' = Known /\ (~Unwanted(q) => q \in queue')
      BY <1>2 DEF CommitSync, Known, inputVars
    <3>3. QED  BY <3>1, <3>2 DEF QueuedFriend, FriendsIn, SameFriends
  <2>3. QED  BY <2>1, <2>2
<1>3. Inv /\ TakenAreScheduled /\ [Next]_vars =>
        [CommitSync => \A i \in sync.reported :
           \/ Reproduced(i) \/ GivenUp(i)
           \/ QueuedFriend(Known, i)'
           \/ \E q \in queue : Unwanted(q) /\ SameFriends(i, q.input)]_vars
  BY <1>2
<1>4. QED  BY <1>1, <1>3, InvHolds, TakenStayScheduled, PTL DEF Spec, SyncSchedulesReported

-----------------------------------------------------------------------------
(* A job is asked for by POST /queue, by a report on a failed build, or by *)
(* a sync; every other row of table queue was there before.                *)
LEMMA JobsCome ==
  ASSUME Inv, [Next]_vars, NEW r \in queue'
  PROVE  \/ \E q \in queue : q.input = r.input /\ q.priority = r.priority
         \/ RequestRebuild /\ EnqueueInput /\ r.input = request.input /\ r.priority = request.priority
         \/ \E t \in Threads : ReportStep(t) /\ RequeueJob(t) /\ r.input = reports[t].input
         \/ ContinueSync /\ \E i \in sync.todo : SchedulePackage(i) /\ r.input = i
<1> USE DEF Inv, TypeOK, inputVars, queueVars, workerRows
<1> DEFINE Old == \E q \in queue : q.input = r.input /\ q.priority = r.priority
<1>0. \A q \in queue : q \in QueueRow
  BY DEF DatabaseTypeOK
<1>a. queue' \subseteq queue => Old
  OBVIOUS
<1>1. ASSUME NEW w \in Workers, WorkerStep(w) PROVE Old
  <2>1. CASE Poll(w)
    <3>1. ClearStaleJobs
      BY <2>1 DEF Poll, RequestWork
    <3>2. PICK q \in queue : r = IF Stale(q) THEN [q EXCEPT !.worker = None, !.age = None] ELSE q
      BY <3>1 DEF ClearStaleJobs
    <3>3. QED  BY <1>0, <3>2 DEF QueueRow
  <2>2. CASE \E q \in queue : StartBuild(w, q) \/ LoseJob(w, q)
    <3>1. PICK q \in queue : PopJob(w, q)
      BY <2>2 DEF StartBuild, LoseJob
    <3>2. r \in queue \/ r = [q EXCEPT !.worker = registry[w], !.age = 0]
      BY <3>1 DEF PopJob
    <3>3. QED  BY <1>0, <3>2 DEF QueueRow
  <2>3. CASE Ping(w)
    <3>1. PingJob(w, worker[w].qid)
      BY <2>3 DEF Ping
    <3>2. PICK q \in queue : r = q \/ r = [q EXCEPT !.age = 0]
      BY <3>1 DEF PingJob
    <3>3. QED  BY <1>0, <3>2 DEF QueueRow
  <2>4. CASE FindNothing(w) \/ StopWorker(w) \/ SignUp(w) \/ Unregister(w)
             \/ \E t \in Threads, status \in Outcomes : SubmitReport(w, t, status)
    <3>1. queue' = queue
      BY <2>4 DEF FindNothing, StopWorker, SignUp, RegisterWorker, Unregister, UnregisterWorker,
           SubmitReport, dbVars
    <3>2. QED  BY <1>a, <3>1
  <2>5. QED  BY <1>1, <2>1, <2>2, <2>3, <2>4 DEF WorkerStep
<1>2. ASSUME NEW t \in Threads, ReportStep(t)
      PROVE  Old \/ (RequeueJob(t) /\ r.input = reports[t].input)
  <2>1. CASE RequeueJob(t)
    <3>1. reports[t].input \in Inputs
      BY <2>1 DEF RequeueJob, At, ReportInStep
    <3>2. Upsert(reports[t].input, Retry) /\ Retry \in Priorities
      BY <2>1 DEF RequeueJob, Priorities
    <3>3. QED  BY <2>1, <3>1, <3>2, UpsertQueues
  <2>2. CASE ~RequeueJob(t)
    <3>1. queue' \subseteq queue
      BY <1>2, <2>2
      DEF ReportStep, HandleReport, AbandonReport, SelectJob, SelectFriends, RecordResult, DequeueJob,
          CountRetry, CheckRetries, SelectExhausted, MarkNonRetriable, UnqueueFriends, SetNextRetry, dbVars
    <3>2. QED  BY <1>a, <3>1
  <2>3. QED  BY <2>1, <2>2
<1>3. ASSUME RequestRebuild
      PROVE  \/ Old
             \/ EnqueueInput /\ r.input = request.input /\ r.priority = request.priority
  <2>1. CASE EnqueueInput
    <3>1. request.input \in Inputs /\ request.priority \in Priorities
      BY <2>1 DEF EnqueueInput, RequestInStep, QueueApiTypeOK
    <3>2. Upsert(request.input, request.priority)
      BY <2>1 DEF EnqueueInput
    <3>3. QED  BY <2>1, <3>1, <3>2, UpsertQueues
  <2>2. CASE ~EnqueueInput
    <3>1. queue' \subseteq queue
      BY <1>3, <2>2 DEF RequestRebuild, SelectInputs, ResetInput, ClearDelay, AbandonRequest, dbVars
    <3>2. QED  BY <1>a, <3>1
  <2>3. QED  BY <2>1, <2>2
<1>4. CASE DropJobs \/ StartSync
  <2>1. queue' \subseteq queue
    BY <1>4 DEF DropJobs, DropQueuedJobs, DropQueuedJob, StartSync, BeginSync
  <2>2. QED  BY <1>a, <2>1
<1>5. ASSUME ContinueSync
      PROVE  Old \/ \E i \in sync.todo : SchedulePackage(i) /\ r.input = i
  <2>1. ASSUME NEW i \in sync.todo, SchedulePackage(i) PROVE Old \/ r.input = i
    <3>1. i \in Inputs
      BY DEF PackageApiTypeOK
    <3>2. PICK p \in Priorities : Upsert(i, p)
      BY <2>1 DEF SchedulePackage, Priorities
    <3>3. QED  BY <3>1, <3>2, UpsertQueues
  <2>2. CASE ~\E i \in sync.todo : SchedulePackage(i)
    <3>1. queue' \subseteq queue
      BY <1>5, <2>2 DEF ContinueSync, SyncStep, SkipPackage, GiveUpPackage, CommitSync
    <3>2. QED  BY <1>a, <3>1
  <2>3. QED  BY <2>1, <2>2
<1>6. CASE Tick
  <2>1. PICK q \in queue : r = q \/ r = [q EXCEPT !.age = q.age + 1]
    BY <1>6 DEF Tick, Elapse, Older
  <2>2. QED  BY <1>0, <2>1 DEF QueueRow
<1>7. CASE UNCHANGED vars
  <2>1. queue' = queue
    BY <1>7 DEF vars, dbVars
  <2>2. QED  BY <1>a, <2>1
<1>8. QED  BY <1>1, <1>2, <1>3, <1>4, <1>5, <1>6, <1>7 DEF Next

(* A row leaves table queue when the administrator drops it, when a report *)
(* on it is recorded, when its friends are past their retries, or when a   *)
(* sync that has not seen its package commits.                             *)
LEMMA JobsGo ==
  ASSUME Inv, [Next]_vars, NEW q \in queue
  PROVE  \/ \E r \in queue' : r.id = q.id /\ r.input = q.input
         \/ DropJobs
         \/ \E t \in Threads : ReportStep(t) /\ DequeueJob(t) /\ q.id = reports[t].qid
         \/ \E t \in Threads : ReportStep(t) /\ UnqueueFriends(t) /\ q.input \in reports[t].friends
         \/ \E i \in sync.todo : GiveUpPackage(i) /\ SameFriends(q.input, i)
         \/ CommitSync /\ Unwanted(q)
<1> USE DEF Inv, TypeOK, inputVars, queueVars, workerRows
<1> DEFINE Stays == \E r \in queue' : r.id = q.id /\ r.input = q.input
<1>0. q \in QueueRow
  BY DEF DatabaseTypeOK
<1>a. q \in queue' => Stays
  OBVIOUS
<1>1. ASSUME NEW w \in Workers, WorkerStep(w) PROVE Stays
  <2>1. CASE Poll(w)
    <3> DEFINE r == IF Stale(q) THEN [q EXCEPT !.worker = None, !.age = None] ELSE q
    <3>1. r \in queue'
      BY <2>1 DEF Poll, RequestWork, ClearStaleJobs
    <3>2. r.id = q.id /\ r.input = q.input
      BY <1>0 DEF QueueRow
    <3>3. QED  BY <3>1, <3>2
  <2>2. CASE \E u \in queue : StartBuild(w, u) \/ LoseJob(w, u)
    <3>1. PICK u \in queue : PopJob(w, u)
      BY <2>2 DEF StartBuild, LoseJob
    <3> DEFINE r == [u EXCEPT !.worker = registry[w], !.age = 0]
    <3>2. r \in queue' /\ (q # u => q \in queue')
      BY <3>1 DEF PopJob
    <3>3. q = u => r.id = q.id /\ r.input = q.input
      BY <1>0 DEF QueueRow
    <3>4. QED  BY <3>2, <3>3
  <2>3. CASE Ping(w)
    <3> DEFINE r == IF q.id = worker[w].qid /\ q.worker = registry'[w] THEN [q EXCEPT !.age = 0] ELSE q
    <3>1. r \in queue'
      BY <2>3 DEF Ping, PingJob
    <3>2. r.id = q.id /\ r.input = q.input
      BY <1>0 DEF QueueRow
    <3>3. QED  BY <3>1, <3>2
  <2>4. CASE FindNothing(w) \/ StopWorker(w) \/ SignUp(w) \/ Unregister(w)
             \/ \E t \in Threads, status \in Outcomes : SubmitReport(w, t, status)
    <3>1. queue' = queue
      BY <2>4 DEF FindNothing, StopWorker, SignUp, RegisterWorker, Unregister, UnregisterWorker,
           SubmitReport, dbVars
    <3>2. QED  BY <1>a, <3>1
  <2>5. QED  BY <1>1, <2>1, <2>2, <2>3, <2>4 DEF WorkerStep
<1>2. ASSUME NEW t \in Threads, ReportStep(t)
      PROVE  \/ Stays
             \/ DequeueJob(t) /\ q.id = reports[t].qid
             \/ UnqueueFriends(t) /\ q.input \in reports[t].friends
  <2>1. CASE RequeueJob(t)
    <3>1. reports[t].input \in Inputs
      BY <2>1 DEF RequeueJob, At, ReportInStep
    <3>2. Upsert(reports[t].input, Retry) /\ Retry \in Priorities
      BY <2>1 DEF RequeueJob, Priorities
    <3>3. QED  BY <3>1, <3>2, UpsertQueues
  <2>2. CASE DequeueJob(t) \/ UnqueueFriends(t)
    BY <2>2 DEF DequeueJob, UnqueueFriends
  <2>3. CASE ~(RequeueJob(t) \/ DequeueJob(t) \/ UnqueueFriends(t))
    <3>1. queue' = queue
      BY <1>2, <2>3
      DEF ReportStep, HandleReport, AbandonReport, SelectJob, SelectFriends, RecordResult,
          CountRetry, CheckRetries, SelectExhausted, MarkNonRetriable, SetNextRetry, dbVars
    <3>2. QED  BY <1>a, <3>1
  <2>4. QED  BY <2>1, <2>2, <2>3
<1>3. CASE RequestRebuild
  <2>1. CASE EnqueueInput
    <3>1. request.input \in Inputs /\ request.priority \in Priorities
      BY <2>1 DEF EnqueueInput, RequestInStep, QueueApiTypeOK
    <3>2. Upsert(request.input, request.priority)
      BY <2>1 DEF EnqueueInput
    <3>3. QED  BY <3>1, <3>2, UpsertQueues
  <2>2. CASE ~EnqueueInput
    <3>1. queue' = queue
      BY <1>3, <2>2 DEF RequestRebuild, SelectInputs, ResetInput, ClearDelay, AbandonRequest, dbVars
    <3>2. QED  BY <1>a, <3>1
  <2>3. QED  BY <2>1, <2>2
<1>4. CASE StartSync
  BY <1>4, <1>a DEF StartSync, BeginSync
<1>5. ASSUME NEW i \in sync.todo, SkipPackage(i) \/ GiveUpPackage(i) \/ SchedulePackage(i)
      PROVE  Stays \/ (GiveUpPackage(i) /\ SameFriends(q.input, i))
  <2>1. i \in Inputs
    BY DEF PackageApiTypeOK
  <2>2. CASE SkipPackage(i)
    BY <1>a, <2>2 DEF SkipPackage
  <2>3. CASE GiveUpPackage(i)
    BY <1>a, <2>3 DEF GiveUpPackage, FriendsIn, SameFriends
  <2>4. CASE SchedulePackage(i)
    <3>1. PICK p \in Priorities : Upsert(i, p)
      BY <2>4 DEF SchedulePackage, Priorities
    <3>2. QED  BY <2>1, <3>1, UpsertQueues
  <2>5. QED  BY <1>5, <2>2, <2>3, <2>4
<1>6. CASE CommitSync
  BY <1>a, <1>6 DEF CommitSync
<1>7. CASE Tick
  <2>1. Older(q) \in queue'
    BY <1>7 DEF Tick, Elapse
  <2>2. Older(q).id = q.id /\ Older(q).input = q.input
    BY <1>0 DEF Older, QueueRow
  <2>3. QED  BY <2>1, <2>2
<1>8. CASE UNCHANGED vars
  BY <1>a, <1>8 DEF vars, dbVars
<1>9. QED
  BY <1>1, <1>2, <1>3, <1>4, <1>5, <1>6, <1>7, <1>8 DEF Next, ContinueSync, SyncStep

-----------------------------------------------------------------------------
(* The handlers of requests and reports work on packages of table          *)
(* build_inputs and on their friends; a package that is not in the table   *)
(* has used no retry; friends are unqueued once their retries are used up. *)
RequestKnows ==
  /\ request.todo \subseteq Known
  /\ request.pc \in {"delay", "enqueue"} => request.input \in Known
  /\ request.pc \in {"idle", "next"} => request.input = None
  /\ request.priority = Manual

ReportKnows(t) ==
  /\ reports[t].pc \in {"idle", "select"} => reports[t].input = None /\ reports[t].friends = {}
  /\ reports[t].pc \notin {"idle", "select"} => reports[t].input \in Known
  /\ \A f \in reports[t].friends : f \in Known /\ SameFriends(f, reports[t].input)
  /\ reports[t].pc \in {"mark", "clear", "unqueue"} => GivenUp(reports[t].input)

SchedulingInv ==
  /\ \A q \in queue : q.input \in Known
  /\ \A i \in Inputs \ Known : retries[i] = 0
  /\ ~sync.active => sync.todo = {}
  /\ RequestKnows
  /\ \A t \in Threads : ReportKnows(t)

(* No package leaves table build_inputs, and no retry is taken back.       *)
LEMMA TablesGrow ==
  ASSUME Inv, [Next]_vars
  PROVE  /\ Known \subseteq Known'
         /\ \A i \in Inputs : retries[i] <= retries'[i]
         /\ UNCHANGED retries \/ \E t \in Threads : ReportStep(t) /\ CountRetry(t)
         /\ UNCHANGED Known \/ (ContinueSync /\ UNCHANGED retries)
<1> USE DEF Inv, TypeOK, inputVars, dbVars
<1>0. \A i \in Inputs : retries[i] \in Nat
  BY DEF DatabaseTypeOK
<1>a. UNCHANGED rowid => UNCHANGED Known
  BY DEF Known
<1>1. ASSUME NEW w \in Workers, WorkerStep(w) PROVE UNCHANGED <<rowid, retries>>
  BY <1>1 DEF WorkerStep, Poll, RequestWork, StartBuild, LoseJob, PopJob, FindNothing, Ping, PingJob,
       SubmitReport, StopWorker, SignUp, RegisterWorker, Unregister, UnregisterWorker
<1>2. ASSUME NEW t \in Threads, ReportStep(t)
      PROVE  /\ UNCHANGED rowid /\ (UNCHANGED retries \/ CountRetry(t))
             /\ \A i \in Inputs : retries[i] <= retries'[i]
  <2>1. CASE CountRetry(t)
    BY <1>0, <2>1 DEF CountRetry
  <2>2. CASE ~CountRetry(t)
    <3>1. UNCHANGED <<rowid, retries>>
      BY <1>2, <2>2
      DEF ReportStep, HandleReport, AbandonReport, SelectJob, SelectFriends, RecordResult, DequeueJob,
          CheckRetries, SelectExhausted, MarkNonRetriable, UnqueueFriends, SetNextRetry, RequeueJob
    <3>2. QED  BY <1>0, <3>1
  <2>3. QED  BY <2>1, <2>2
<1>3. CASE RequestRebuild \/ DropJobs \/ StartSync \/ Tick \/ UNCHANGED vars
  <2>1. UNCHANGED <<rowid, retries>>
    BY <1>3
    DEF RequestRebuild, SelectInputs, ResetInput, ClearDelay, EnqueueInput, AbandonRequest, DropJobs,
        DropQueuedJobs, DropQueuedJob, StartSync, BeginSync, Tick, Elapse, vars
  <2>2. QED  BY <1>0, <1>a, <2>1
<1>4. CASE ContinueSync
  <2>1. CASE CommitSync
    <3>1. UNCHANGED <<rowid, retries>>
      BY <2>1 DEF CommitSync
    <3>2. QED  BY <1>0, <1>a, <3>1
  <2>2. ASSUME NEW i \in sync.todo, ImportPackage(i)
        PROVE  Known \subseteq Known' /\ UNCHANGED retries
    BY <2>2, ImportsAdd DEF PackageApiTypeOK
  <2>3. CommitSync \/ \E i \in sync.todo : ImportPackage(i)
    BY <1>4 DEF ContinueSync, SyncStep, SkipPackage, GiveUpPackage, SchedulePackage
  <2>4. QED  BY <1>0, <1>4, <2>1, <2>2, <2>3
<1>5. CASE \E w \in Workers : WorkerStep(w)
  <2>1. UNCHANGED rowid /\ UNCHANGED retries
    BY <1>1, <1>5
  <2>2. QED  BY <1>0, <1>a, <2>1
<1>6. CASE \E t \in Threads : ReportStep(t)
  <2>1. PICK t \in Threads : ReportStep(t)
    BY <1>6
  <2>2. /\ UNCHANGED rowid /\ (UNCHANGED retries \/ CountRetry(t))
        /\ \A i \in Inputs : retries[i] <= retries'[i]
    BY <1>2, <2>1
  <2>3. UNCHANGED Known
    BY <1>a, <2>2
  <2>4. UNCHANGED retries \/ \E u \in Threads : ReportStep(u) /\ CountRetry(u)
    BY <2>1, <2>2, Zenon
  <2>5. Known \subseteq Known'
    BY <2>3
  <2>6. QED  BY <2>2, <2>3, <2>4, <2>5, Zenon
<1>7. QED  BY <1>3, <1>4, <1>5, <1>6 DEF Next

(* So a package that is past its retries stays so.                         *)
LEMMA GivenUpLasts ==
  ASSUME Inv, [Next]_vars, NEW i \in Inputs, GivenUp(i)
  PROVE  GivenUp(i)'
<1>1. PICK f \in Known : FriendKey[f] = FriendKey[i] /\ Exhausted(retries[f])
  BY DEF GivenUp, FriendsExhausted, FriendsIn
<1>2. f \in Known' /\ f \in Inputs
  BY TablesGrow DEF Known
<1>3. retries[f] \in Nat /\ retries'[f] \in Nat /\ retries[f] <= retries'[f]
  BY <1>2, TablesGrow, TypesArePreserved DEF Inv, TypeOK, DatabaseTypeOK
<1>4. Exhausted(retries'[f])
  BY <1>1, <1>3, RetriesAssumption DEF Exhausted
<1>5. QED  BY <1>1, <1>2, <1>4 DEF GivenUp, FriendsExhausted, FriendsIn

(* What becomes of the handler of a report in a step of its own.           *)
LEMMA ReportKnowledge ==
  ASSUME Inv, SchedulingInv, [Next]_vars, NEW t \in Threads
  PROVE  ReportKnows(t)'
<1> USE DEF Inv, TypeOK, At
<1>0. reports[t] \in Report /\ reports \in [Threads -> Report]
  BY DEF BuildApiTypeOK
<1>a. /\ reports[t].pc \in {"idle", "select"} => reports[t].input = None /\ reports[t].friends = {}
      /\ reports[t].pc \notin {"idle", "select"} => reports[t].input \in Known
      /\ \A f \in reports[t].friends : f \in Known /\ SameFriends(f, reports[t].input)
      /\ reports[t].pc \in {"mark", "clear", "unqueue"} => GivenUp(reports[t].input)
  BY DEF SchedulingInv, ReportKnows
<1>b. Known \subseteq Known' /\ Known \subseteq Inputs /\ \A q \in queue : q.input \in Known
  BY TablesGrow DEF SchedulingInv, Known
<1>c. \A i \in Inputs : GivenUp(i) => GivenUp(i)'
  BY GivenUpLasts
<1>d. /\ Friends(reports[t].input) \subseteq Known
      /\ \A f \in Friends(reports[t].input) : SameFriends(f, reports[t].input)
  BY DEF Friends, FriendsIn, SameFriends
<1>1. ASSUME reports'[t].input = reports[t].input,
             reports'[t].friends = reports[t].friends
                \/ reports'[t].friends = Friends(reports[t].input),
             reports[t].pc \notin {"idle", "select"}, reports'[t].pc \notin {"idle", "select"},
             reports'[t].pc \in {"mark", "clear", "unqueue"} => GivenUp(reports[t].input)
      PROVE  ReportKnows(t)'
  BY <1>1, <1>a, <1>b, <1>c, <1>d DEF ReportKnows, SameFriends
<1>2. CASE reports'[t] = reports[t]
  BY <1>2, <1>a, <1>b, <1>c DEF ReportKnows, SameFriends
<1>3. CASE reports'[t] = IdleReport
  BY <1>3 DEF ReportKnows, IdleReport
<1>4. CASE ReportStep(t)
  <2>1. CASE SelectJob(t)
    <3>1. ASSUME NEW q \in queue,
                 reports' = [reports EXCEPT ![t] = [@ EXCEPT !.pc = "friends", !.input = q.input]]
          PROVE  ReportKnows(t)'
      <4>1. reports'[t].pc = "friends" /\ reports'[t].input = q.input /\ reports'[t].friends = {}
        BY <1>0, <1>a, <2>1, <3>1 DEF SelectJob, Report
      <4>2. QED  BY <1>b, <4>1 DEF ReportKnows
    <3>2. QED  BY <1>0, <1>3, <2>1, <3>1 DEF SelectJob, Finish
  <2>2. CASE SelectFriends(t)
    BY <1>0, <1>1, <2>2 DEF SelectFriends, Report
  <2>3. CASE \E f \in Inputs, inOrder \in BuiltAtOrders : RecordResult(t, f, inOrder)
    <3>1. PICK f \in Inputs, inOrder \in BuiltAtOrders : RecordResult(t, f, inOrder)
      BY <2>3
    <3>2. reports'[t] = [reports[t] EXCEPT
                           !.todo = reports[t].todo \ {f},
                           !.pc = IF reports[t].todo = {f} THEN "dequeue" ELSE "record"]
      BY <1>0, <3>1 DEF RecordResult
    <3>3. /\ reports'[t].input = reports[t].input /\ reports'[t].friends = reports[t].friends
          /\ reports'[t].pc \in {"dequeue", "record"} /\ reports[t].pc = "record"
      <4>1. reports[t].pc = "record"
        BY <3>1 DEF RecordResult
      <4>2. QED  BY <1>0, <3>2, <4>1 DEF Report
    <3>4. QED  BY <1>1, <3>3
  <2>4. CASE CheckRetries(t)
    <3>1. PICK f \in Friends(reports[t].input) :
            reports' = IF Exhausted(retries[f])
                       THEN [reports EXCEPT ![t].pc = "mark"]
                       ELSE [reports EXCEPT ![t] = [@ EXCEPT !.pc = "delay", !.largest = retries[f]]]
      BY <2>4 DEF CheckRetries
    <3>2. Exhausted(retries[f]) => GivenUp(reports[t].input)
      BY DEF GivenUp, FriendsExhausted, Friends
    <3>3. /\ reports'[t].input = reports[t].input /\ reports'[t].friends = reports[t].friends
          /\ reports[t].pc = "largest" /\ reports'[t].pc \in {"mark", "delay"}
          /\ reports'[t].pc = "mark" => Exhausted(retries[f])
      BY <1>0, <2>4, <3>1 DEF CheckRetries, Report
    <3>4. QED  BY <1>1, <3>2, <3>3
  <2>5. CASE SelectExhausted(t)
    <3>1. GivenUp(reports[t].input)
      BY <1>a, <2>5 DEF SelectExhausted
    <3>2. QED  BY <1>0, <1>1, <2>5, <3>1 DEF SelectExhausted, Report
  <2>6. CASE MarkNonRetriable(t)
    <3>1. GivenUp(reports[t].input)
      BY <1>a, <2>6 DEF MarkNonRetriable
    <3>2. QED  BY <1>0, <1>1, <2>6, <3>1 DEF MarkNonRetriable, GoTo, Report
  <2>7. CASE CountRetry(t) \/ SetNextRetry(t)
    BY <1>0, <1>1, <2>7 DEF CountRetry, SetNextRetry, GoTo, Report
  <2>8. CASE DequeueJob(t)
    <3>1. CASE Finish(t)
      BY <1>0, <1>3, <3>1 DEF Finish
    <3>2. CASE GoTo(t, "retries")
      BY <1>0, <1>1, <2>8, <3>2 DEF DequeueJob, GoTo, Report
    <3>3. QED  BY <2>8, <3>1, <3>2 DEF DequeueJob
  <2>9. CASE UnqueueFriends(t) \/ RequeueJob(t) \/ AbandonReport(t)
    BY <1>0, <1>3, <2>9 DEF UnqueueFriends, RequeueJob, AbandonReport, Finish
  <2>10. QED
    BY <1>4, <2>1, <2>2, <2>3, <2>4, <2>5, <2>6, <2>7, <2>8, <2>9 DEF ReportStep, HandleReport
<1>5. ASSUME NEW u \in Threads, u # t, ReportStep(u) PROVE reports'[t] = reports[t]
  <2>1. \E r : reports' = [reports EXCEPT ![u] = r]
    BY <1>5
    DEF ReportStep, HandleReport, AbandonReport, SelectJob, SelectFriends, RecordResult, DequeueJob,
        CountRetry, CheckRetries, SelectExhausted, MarkNonRetriable, UnqueueFriends, SetNextRetry,
        RequeueJob, Finish, GoTo
  <2>2. QED  BY <1>0, <1>5, <2>1
<1>6. ASSUME NEW w \in Workers, WorkerStep(w) PROVE ReportKnows(t)'
  <2>1. ASSUME NEW u \in Threads, NEW status \in Outcomes, SubmitReport(w, u, status)
        PROVE  ReportKnows(t)'
    <3>1. CASE u = t
      BY <1>0, <2>1, <3>1 DEF SubmitReport, ReceiveReport, IdleReport, ReportKnows
    <3>2. CASE u # t
      BY <1>0, <1>2, <2>1, <3>2 DEF SubmitReport, ReceiveReport
    <3>3. QED  BY <3>1, <3>2
  <2>2. CASE UNCHANGED reports
    BY <1>2, <2>2
  <2>3. QED
    BY <1>6, <2>1, <2>2
    DEF WorkerStep, Poll, StartBuild, LoseJob, FindNothing, Ping, StopWorker, SignUp, Unregister
<1>7. CASE RequestRebuild \/ DropJobs \/ StartSync \/ ContinueSync \/ Tick \/ UNCHANGED vars
  BY <1>2, <1>7 DEF RequestRebuild, DropJobs, StartSync, ContinueSync, Tick, vars
<1>8. QED  BY <1>2, <1>4, <1>5, <1>6, <1>7 DEF Next

(* What becomes of the handler of POST /queue.                             *)
LEMMA RequestKnowledge ==
  ASSUME Inv, SchedulingInv, [Next]_vars
  PROVE  RequestKnows'
<1> USE DEF Inv, TypeOK, QueueApiTypeOK
<1>a. RequestKnows /\ Known \subseteq Known'
  BY TablesGrow DEF SchedulingInv
<1>1. CASE UNCHANGED request
  BY <1>1, <1>a DEF RequestKnows
<1>2. CASE RequestRebuild
  <2>1. ASSUME NEW source, NEW scope, NEW status, NEW reset,
               SelectInputs(source, scope, status, reset, Manual)
        PROVE  RequestKnows'
    <3>1. {i \in Inputs : Matches(i, source, scope, status)} \subseteq Known
      BY DEF Matches
    <3>2. QED  BY <1>a, <2>1, <3>1 DEF SelectInputs, RequestKnows
  <2>2. ASSUME NEW i \in request.todo, ResetInput(i) PROVE RequestKnows'
    BY <1>a, <2>2 DEF ResetInput, RequestKnows
  <2>3. CASE ClearDelay
    BY <1>a, <2>3 DEF ClearDelay, RequestKnows
  <2>4. CASE request' = IdleRequest
    BY <2>4 DEF IdleRequest, RequestKnows
  <2>5. CASE request' = [request EXCEPT !.pc = "next", !.input = None]
    BY <1>a, <2>5 DEF RequestKnows
  <2>6. QED
    BY <1>2, <2>1, <2>2, <2>3, <2>4, <2>5 DEF RequestRebuild, EnqueueInput, AbandonRequest
<1>3. CASE ~RequestRebuild
  <2>1. UNCHANGED request
    BY <1>3
    DEF Next, WorkerStep, Poll, RequestWork, StartBuild, LoseJob, PopJob, FindNothing, Ping, PingJob,
        SubmitReport, StopWorker, SignUp, Unregister, ReportStep, DropJobs, DropQueuedJobs,
        DropQueuedJob, StartSync, ContinueSync, Tick, vars
  <2>2. QED  BY <1>1, <2>1
<1>4. QED  BY <1>2, <1>3

LEMMA SchedulingInvIsPreserved == Inv /\ SchedulingInv /\ [Next]_vars => SchedulingInv'
<1> SUFFICES ASSUME Inv, SchedulingInv, [Next]_vars PROVE SchedulingInv'
  OBVIOUS
<1>1. RequestKnows' /\ \A t \in Threads : ReportKnows(t)'
  BY RequestKnowledge, ReportKnowledge
<1>2. ASSUME NEW r \in queue' PROVE r.input \in Known'
  <2>0. Known \subseteq Known'
    BY TablesGrow
  <2>1. CASE \E q \in queue : q.input = r.input /\ q.priority = r.priority
    BY <2>0, <2>1 DEF SchedulingInv
  <2>2. CASE EnqueueInput /\ r.input = request.input
    BY <2>0, <2>2 DEF SchedulingInv, RequestKnows, EnqueueInput
  <2>3. ASSUME NEW t \in Threads, RequeueJob(t), r.input = reports[t].input PROVE r.input \in Known'
    <3>1. reports[t].pc = "requeue"
      BY <2>3 DEF RequeueJob, At
    <3>2. reports[t].input \in Known
      BY <3>1 DEF SchedulingInv, ReportKnows
    <3>3. QED  BY <2>0, <2>3, <3>2
  <2>4. ASSUME NEW i \in sync.todo, SchedulePackage(i), r.input = i PROVE r.input \in Known'
    <3>1. i \in Inputs /\ ImportPackage(i) /\ DatabaseTypeOK
      BY <2>4 DEF SchedulePackage, Inv, TypeOK, PackageApiTypeOK
    <3>2. QED  BY <2>4, <3>1, ImportsAdd
  <2>5. QED  BY <2>1, <2>2, <2>3, <2>4, JobsCome
<1>3. ASSUME NEW i \in Inputs, i \notin Known' PROVE retries'[i] = 0
  <2>1. i \notin Known /\ retries[i] = 0
    BY <1>3, TablesGrow DEF SchedulingInv
  <2>2. ASSUME NEW t \in Threads, CountRetry(t) PROVE retries'[i] = 0
    <3>1. i \notin reports[t].friends
      BY <2>1 DEF SchedulingInv, ReportKnows
    <3>2. QED  BY <2>1, <2>2, <3>1 DEF CountRetry
  <2>3. QED  BY <2>1, <2>2, TablesGrow
<1>4. ~sync'.active => sync'.todo = {}
  <2> USE DEF Inv, TypeOK, PackageApiTypeOK
  <2>1. CASE UNCHANGED sync
    BY <2>1 DEF SchedulingInv
  <2>2. CASE StartSync
    BY <2>2 DEF StartSync, BeginSync
  <2>3. CASE CommitSync
    BY <2>3 DEF CommitSync, IdleSync
  <2>4. ASSUME NEW i \in sync.todo, ImportPackage(i) PROVE sync'.active
    BY <2>4 DEF ImportPackage, SchedulingInv
  <2>5. UNCHANGED sync \/ StartSync \/ CommitSync \/ \E i \in sync.todo : ImportPackage(i)
    BY DEF Next, WorkerStep, Poll, StartBuild, LoseJob, FindNothing, Ping, SubmitReport, StopWorker,
           SignUp, Unregister, ReportStep, RequestRebuild, DropJobs, ContinueSync, SyncStep, SkipPackage,
           GiveUpPackage, SchedulePackage, Tick, vars
  <2>6. QED  BY <2>1, <2>2, <2>3, <2>4, <2>5
<1>5. QED  BY <1>1, <1>2, <1>3, <1>4 DEF SchedulingInv

LEMMA SchedulingInvHolds == Spec => []SchedulingInv
<1>1. Init => SchedulingInv
  <2> SUFFICES ASSUME Init PROVE SchedulingInv
    OBVIOUS
  <2>1. queue = {} /\ \A i \in Inputs : retries[i] = 0
    BY DEF Init, DatabaseInit
  <2>2. RequestKnows
    BY DEF Init, QueueApiInit, IdleRequest, RequestKnows
  <2>3. \A t \in Threads : ReportKnows(t)
    BY DEF Init, BuildApiInit, IdleReport, ReportKnows
  <2>4. sync.todo = {}
    BY DEF Init, PackageApiInit, IdleSync
  <2>5. QED  BY <2>1, <2>2, <2>3, <2>4 DEF SchedulingInv
<1>2. QED  BY <1>1, InvHolds, SchedulingInvIsPreserved, PTL DEF Spec

-----------------------------------------------------------------------------
(* Only three statements write table rebuilds: a report records a result,  *)
(* a request resets one, and a sync copies those of a friend.              *)
LEMMA ResultsCome ==
  ASSUME [Next]_vars
  PROVE  \/ rebuilds' = rebuilds
         \/ \E t \in Threads, f \in Inputs, inOrder \in BuiltAtOrders : RecordResult(t, f, inOrder)
         \/ \E j \in request.todo : ResetInput(j)
         \/ \E j \in sync.todo : ImportPackage(j)
<1> USE DEF dbVars
<1>1. ASSUME NEW w \in Workers, WorkerStep(w) PROVE rebuilds' = rebuilds
  BY <1>1, Zenon DEF WorkerStep, Poll, RequestWork, StartBuild, LoseJob, PopJob, FindNothing, Ping, PingJob,
       SubmitReport, StopWorker, SignUp, RegisterWorker, Unregister, UnregisterWorker
<1>2. ASSUME NEW t \in Threads, ReportStep(t)
      PROVE  \/ rebuilds' = rebuilds
             \/ \E f \in Inputs, inOrder \in BuiltAtOrders : RecordResult(t, f, inOrder)
  BY <1>2, Zenon
  DEF ReportStep, HandleReport, AbandonReport, SelectJob, SelectFriends, DequeueJob, CountRetry,
      CheckRetries, SelectExhausted, MarkNonRetriable, UnqueueFriends, SetNextRetry, RequeueJob
<1>3. CASE RequestRebuild
  BY <1>3 DEF RequestRebuild, SelectInputs, ClearDelay, EnqueueInput, AbandonRequest
<1>4. CASE DropJobs \/ StartSync \/ Tick \/ UNCHANGED vars
  BY <1>4 DEF DropJobs, DropQueuedJobs, DropQueuedJob, StartSync, BeginSync, Tick, Elapse, vars
<1>5. CASE ContinueSync
  BY <1>5 DEF ContinueSync, SyncStep, SkipPackage, GiveUpPackage, SchedulePackage, CommitSync
<1>6. QED  BY <1>1, <1>2, <1>3, <1>4, <1>5 DEF Next

(* The three ways in which a package stays scheduled: its result, its      *)
(* friends' jobs, and the handlers that have one of them in hand.          *)
LEMMA ReproducedStays ==
  ASSUME Inv, SchedulingInv, [Next]_vars, NEW i \in Known, Reproduced(i)
  PROVE  Scheduled(i)'
<1> USE DEF Inv, TypeOK, dbVars
<1>0. i \in Inputs /\ rebuilds \in [Inputs -> RebuildView]
  BY DEF Known, DatabaseTypeOK
<1>1. CASE rebuilds'[i] = rebuilds[i]
  BY <1>1 DEF Scheduled, Reproduced
<1>2. ASSUME NEW t \in Threads, NEW f \in Inputs, NEW inOrder, RecordResult(t, f, inOrder)
      PROVE  Scheduled(i)'
  <2>1. CASE f # i
    BY <1>0, <1>1, <1>2, <2>1 DEF RecordResult
  <2>2. CASE f = i
    <3>1. reports[t] \in Report /\ reports[t].pc = "record" /\ f \in reports[t].todo
      BY <1>2 DEF BuildApiTypeOK, RecordResult, At
    <3>2. reports'[t].input = reports[t].input
      BY <1>2, <3>1 DEF RecordResult, BuildApiTypeOK, Report
    <3>3. reports[t].input \in Inputs /\ SameFriends(i, reports[t].input)
      BY <2>2, <3>1 DEF ReportInStep, At
    <3>4. reports'[t].input # None /\ SameFriends(i, reports'[t].input)
      BY <3>2, <3>3, NoneAssumption
    <3>5. QED  BY <3>4 DEF Scheduled, InProgress, SameFriends
  <2>3. QED  BY <2>1, <2>2
<1>3. ASSUME NEW j \in request.todo, ResetInput(j) PROVE Scheduled(i)'
  <2>1. CASE j # i
    BY <1>0, <1>1, <1>3, <2>1 DEF ResetInput
  <2>2. CASE j = i
    <3>1. request'.input = i
      BY <1>3, <2>2 DEF ResetInput, QueueApiTypeOK
    <3>2. QED  BY <1>0, <3>1, NoneAssumption DEF Scheduled, InProgress, SameFriends
  <2>3. QED  BY <2>1, <2>2
<1>4. ASSUME NEW j \in sync.todo, ImportPackage(j) PROVE rebuilds'[i] = rebuilds[i]
  BY <1>0, <1>4, ImportsAdd DEF PackageApiTypeOK
<1>5. QED  BY <1>1, <1>2, <1>3, <1>4, ResultsCome

LEMMA GivenUpStays ==
  ASSUME Inv, [Next]_vars, NEW i \in Known, GivenUp(i)
  PROVE  Scheduled(i)'
BY GivenUpLasts DEF Known, Scheduled

LEMMA QueuedStays ==
  ASSUME Inv, SchedulingInv, [Next]_vars, NEW i \in Known, QueuedFriend(Known, i)
  PROVE  Scheduled(i)' \/ Excused(i)
<1>1. PICK q \in queue : q.input \in Known /\ SameFriends(i, q.input)
  BY DEF QueuedFriend, FriendsIn, SameFriends
<1>2. Known \subseteq Known' /\ i \in Inputs /\ Known \subseteq Inputs
  BY TablesGrow DEF Known
<1>3. CASE \E r \in queue' : r.id = q.id /\ r.input = q.input
  BY <1>1, <1>2, <1>3 DEF Scheduled, QueuedFriend, FriendsIn, SameFriends
<1>4. CASE DropJobs
  BY <1>4 DEF Excused
<1>5. ASSUME NEW t \in Threads, DequeueJob(t), q.id = reports[t].qid
      PROVE  Scheduled(i)' \/ Excused(i)
  <2>1. CASE reports[t].status = "GOOD"
    <3>1. CASE Reproduced(i)
      BY <1>5, <3>1 DEF DequeueJob, Reproduced, Scheduled
    <3>2. CASE ~Reproduced(i)
      BY <1>5, <2>1, <3>2 DEF Excused, ReportLeavesOut
    <3>3. QED  BY <3>1, <3>2
  <2>2. CASE reports[t].status # "GOOD"
    <3>1. reports[t] \in Report /\ reports \in [Threads -> Report] /\ reports[t].pc = "dequeue"
      BY <1>5 DEF Inv, TypeOK, BuildApiTypeOK, DequeueJob, At
    <3>2. reports'[t].input = reports[t].input
      BY <1>5, <2>2, <3>1 DEF DequeueJob, GoTo, Report
    <3>3. reports[t].input \in Inputs /\ reports[t].input = q.input
      BY <1>5, <3>1 DEF Inv, ReportInStep, At
    <3>4. reports'[t].input # None /\ SameFriends(i, reports'[t].input)
      BY <1>1, <3>2, <3>3, NoneAssumption
    <3>5. QED  BY <3>4 DEF Scheduled, InProgress, SameFriends
  <2>3. QED  BY <2>1, <2>2
<1>6. ASSUME NEW t \in Threads, UnqueueFriends(t), q.input \in reports[t].friends
      PROVE  Scheduled(i)'
  <2>1. SameFriends(q.input, reports[t].input) /\ GivenUp(reports[t].input)
    BY <1>6 DEF SchedulingInv, ReportKnows, UnqueueFriends, At
  <2>2. GivenUp(i)
    BY <1>1, <2>1 DEF GivenUp, FriendsExhausted, FriendsIn, SameFriends
  <2>3. QED  BY <2>2, GivenUpStays
<1>7. ASSUME NEW k \in sync.todo, GiveUpPackage(k), SameFriends(q.input, k)
      PROVE  Scheduled(i)'
  <2>1. /\ k \in Inputs /\ ImportPackage(k) /\ DatabaseTypeOK
        /\ FriendsExhausted(Known \cup {k}, k)
    BY <1>7 DEF GiveUpPackage, Inv, TypeOK, PackageApiTypeOK
  <2>2. Known' = Known \cup {k} /\ UNCHANGED retries
    BY <2>1, ImportsAdd
  <2>3. GivenUp(i)'
    BY <1>1, <1>7, <2>1, <2>2 DEF GivenUp, FriendsExhausted, FriendsIn, SameFriends
  <2>4. QED  BY <2>3 DEF Scheduled
<1>8. CASE CommitSync /\ Unwanted(q)
  BY <1>1, <1>8 DEF Excused
<1>9. QED  BY <1>3, <1>4, <1>5, <1>6, <1>7, <1>8, JobsGo

(* The report that has a package in hand records, requeues or gives up.    *)
LEMMA ReportedStays ==
  ASSUME Inv, SchedulingInv, [Next]_vars, NEW i \in Known,
         NEW t \in Threads, reports[t].input # None, SameFriends(i, reports[t].input)
  PROVE  Scheduled(i)' \/ Excused(i)
<1> USE DEF At
<1>0. /\ reports[t] \in Report /\ reports \in [Threads -> Report]
      /\ reports[t].pc \notin {"idle", "select"} /\ reports[t].input \in Known
  BY DEF Inv, TypeOK, BuildApiTypeOK, SchedulingInv, ReportKnows
<1>1. CASE reports'[t].input = reports[t].input
  BY <1>1 DEF Scheduled, InProgress, SameFriends
<1>2. ASSUME ReportStep(t) PROVE Scheduled(i)' \/ Excused(i)
  <2>1. CASE DequeueJob(t) /\ reports[t].status = "GOOD"
    <3>1. CASE Reproduced(i)
      BY <2>1, <3>1 DEF DequeueJob, Reproduced, Scheduled
    <3>2. CASE ~Reproduced(i)
      BY <2>1, <3>2 DEF Excused, ReportLeavesOut
    <3>3. QED  BY <3>1, <3>2
  <2>2. CASE UnqueueFriends(t)
    <3>1. GivenUp(reports[t].input)
      BY <2>2 DEF SchedulingInv, ReportKnows, UnqueueFriends
    <3>2. GivenUp(i)
      BY <3>1 DEF GivenUp, FriendsExhausted, FriendsIn, SameFriends
    <3>3. QED  BY <3>2, GivenUpStays
  <2>3. CASE RequeueJob(t)
    <3>1. reports[t].input \in Inputs /\ Retry \in Priorities /\ DatabaseTypeOK
      BY <1>0 DEF Priorities, Known, Inv, TypeOK
    <3>2. \E r \in queue' : r.input = reports[t].input
      BY <2>3, <3>1, UpsertQueues DEF RequeueJob
    <3>3. reports[t].input \in Known'
      BY <1>0, TablesGrow
    <3>4. QED  BY <3>2, <3>3 DEF Scheduled, QueuedFriend, FriendsIn, SameFriends
  <2>4. CASE AbandonReport(t)
    BY <2>4 DEF Excused
  <2>5. CASE \E f \in Inputs, inOrder \in BuiltAtOrders : RecordResult(t, f, inOrder)
    <3>1. PICK f \in Inputs, inOrder \in BuiltAtOrders : RecordResult(t, f, inOrder)
      BY <2>5
    <3>2. reports'[t].input = reports[t].input
      BY <1>0, <3>1 DEF RecordResult, Report
    <3>3. QED  BY <1>1, <3>2
  <2>6. CASE DequeueJob(t) /\ reports[t].status # "GOOD"
    <3>1. reports'[t].input = reports[t].input
      BY <1>0, <2>6 DEF DequeueJob, GoTo, Report
    <3>2. QED  BY <1>1, <3>1
  <2>7. CASE SelectFriends(t) \/ CountRetry(t) \/ SelectExhausted(t) \/ MarkNonRetriable(t)
             \/ SetNextRetry(t)
    <3>1. CASE SelectFriends(t) \/ SelectExhausted(t)
      BY <1>0, <1>1, <3>1 DEF SelectFriends, SelectExhausted, Report
    <3>2. CASE GoTo(t, "largest") \/ GoTo(t, "unqueue") \/ GoTo(t, "requeue")
      BY <1>0, <1>1, <3>2 DEF GoTo, Report
    <3>3. QED  BY <2>7, <3>1, <3>2 DEF CountRetry, MarkNonRetriable, SetNextRetry
  <2>8. CASE CheckRetries(t)
    <3>1. reports'[t].input = reports[t].input
      BY <1>0, <2>8 DEF CheckRetries, Report
    <3>2. QED  BY <1>1, <3>1
  <2>9. CASE SelectJob(t)
    BY <1>0, <2>9 DEF SelectJob
  <2>10. QED
    BY <1>2, <2>1, <2>2, <2>3, <2>4, <2>5, <2>6, <2>7, <2>8, <2>9 DEF ReportStep, HandleReport
<1>3. ASSUME NEW u \in Threads, u # t, ReportStep(u) PROVE reports'[t] = reports[t]
  <2>1. \E r : reports' = [reports EXCEPT ![u] = r]
    BY <1>3
    DEF ReportStep, HandleReport, AbandonReport, SelectJob, SelectFriends, RecordResult, DequeueJob,
        CountRetry, CheckRetries, SelectExhausted, MarkNonRetriable, UnqueueFriends, SetNextRetry,
        RequeueJob, Finish, GoTo
  <2>2. QED  BY <1>0, <1>3, <2>1
<1>4. ASSUME NEW w \in Workers, WorkerStep(w) PROVE reports'[t] = reports[t]
  <2>1. ASSUME NEW u \in Threads, NEW status \in Outcomes, SubmitReport(w, u, status)
        PROVE  reports'[t] = reports[t]
    BY <1>0, <2>1 DEF SubmitReport, ReceiveReport
  <2>2. QED
    BY <1>4, <2>1
    DEF WorkerStep, Poll, StartBuild, LoseJob, FindNothing, Ping, StopWorker, SignUp, Unregister
<1>5. CASE RequestRebuild \/ DropJobs \/ StartSync \/ ContinueSync \/ Tick \/ UNCHANGED vars
  BY <1>1, <1>5 DEF RequestRebuild, DropJobs, StartSync, ContinueSync, Tick, vars
<1>6. QED  BY <1>1, <1>2, <1>3, <1>4, <1>5 DEF Next

(* So does the request that has it in hand.                                *)
LEMMA RequestedStays ==
  ASSUME Inv, SchedulingInv, [Next]_vars, NEW i \in Known,
         request.input # None, SameFriends(i, request.input)
  PROVE  Scheduled(i)' \/ Excused(i)
<1>0. request.pc \in {"delay", "enqueue"} /\ request.input \in Known /\ QueueApiTypeOK
  BY DEF SchedulingInv, RequestKnows, Inv, TypeOK, QueueApiTypeOK, RequestSteps
<1>1. CASE request'.input = request.input
  BY <1>1 DEF Scheduled, InProgress, SameFriends
<1>2. CASE RequestRebuild
  <2>1. CASE EnqueueInput
    <3>1. /\ request.input \in Inputs /\ request.priority \in Priorities /\ DatabaseTypeOK
          /\ Upsert(request.input, request.priority)
      BY <1>0, <2>1 DEF EnqueueInput, QueueApiTypeOK, Known, Inv, TypeOK
    <3>2. \E r \in queue' : r.input = request.input
      BY <3>1, UpsertQueues
    <3>3. request.input \in Known'
      BY <1>0, TablesGrow
    <3>4. QED  BY <3>2, <3>3 DEF Scheduled, QueuedFriend, FriendsIn, SameFriends
  <2>2. CASE AbandonRequest
    BY <2>2 DEF Excused
  <2>3. CASE ClearDelay
    BY <1>0, <1>1, <2>3 DEF ClearDelay, QueueApiTypeOK
  <2>4. QED
    BY <1>0, <1>2, <2>1, <2>2, <2>3 DEF RequestRebuild, SelectInputs, ResetInput
<1>3. CASE ~RequestRebuild
  <2>1. UNCHANGED request
    BY <1>3
    DEF Next, WorkerStep, Poll, RequestWork, StartBuild, LoseJob, PopJob, FindNothing, Ping, PingJob,
        SubmitReport, StopWorker, SignUp, Unregister, ReportStep, DropJobs, DropQueuedJobs,
        DropQueuedJob, StartSync, ContinueSync, Tick, vars
  <2>2. QED  BY <1>1, <2>1
<1>4. QED  BY <1>2, <1>3

(* And so does the sync that has yet to take it from its report.           *)
LEMMA SyncedStays ==
  ASSUME Inv, SchedulingInv, [Next]_vars, NEW i \in Known, i \in sync.todo
  PROVE  Scheduled(i)' \/ Excused(i)
<1> USE DEF Inv, TypeOK, PackageApiTypeOK
<1>0. i \in Inputs /\ DatabaseTypeOK
  OBVIOUS
<1>1. CASE i \in sync'.todo
  BY <1>1 DEF Scheduled, InProgress
<1>2. ASSUME NEW k \in sync.todo, SkipPackage(k) \/ GiveUpPackage(k) \/ SchedulePackage(k)
      PROVE  Scheduled(i)'
  <2>1. k \in Inputs /\ ImportPackage(k)
    BY <1>2 DEF SkipPackage, GiveUpPackage, SchedulePackage
  <2>2. Known' = Known \cup {k} /\ UNCHANGED retries
    BY <1>0, <2>1, ImportsAdd
  <2>3. CASE k # i
    <3>1. sync'.todo = sync.todo \ {k}
      BY <2>1 DEF ImportPackage
    <3>2. QED  BY <2>3, <3>1 DEF Scheduled, InProgress
  <2>4. CASE k = i /\ SkipPackage(k)
    <3>1. \/ CurrentStatus(rebuilds'[i]) = "GOOD"
          \/ QueuedFriend(Known \cup {i}, i) /\ UNCHANGED queue
      BY <2>4 DEF SkipPackage, queueVars
    <3>2. QED  BY <2>2, <2>4, <3>1 DEF Scheduled, Reproduced, QueuedFriend, FriendsIn
  <2>5. CASE k = i /\ GiveUpPackage(k)
    BY <2>2, <2>5 DEF GiveUpPackage, Scheduled, GivenUp, FriendsExhausted, FriendsIn
  <2>6. CASE k = i /\ SchedulePackage(k)
    <3>1. PICK p \in Priorities : Upsert(i, p)
      BY <2>6 DEF SchedulePackage, Priorities
    <3>2. \E r \in queue' : r.input = i
      BY <1>0, <3>1, UpsertQueues
    <3>3. QED  BY <2>2, <2>6, <3>2 DEF Scheduled, QueuedFriend, FriendsIn
  <2>7. QED  BY <1>2, <2>3, <2>4, <2>5, <2>6
<1>3. CASE CommitSync
  BY <1>3 DEF CommitSync
<1>4. CASE UNCHANGED sync
  BY <1>1, <1>4
<1>5. CASE StartSync
  BY <1>5 DEF StartSync, LockFree, SchedulingInv
<1>6. QED
  BY <1>2, <1>3, <1>4, <1>5
  DEF Next, WorkerStep, Poll, StartBuild, LoseJob, FindNothing, Ping, SubmitReport, StopWorker, SignUp,
      Unregister, ReportStep, RequestRebuild, DropJobs, ContinueSync, SyncStep, Tick, vars

(* A known package that is scheduled stays so, through every interleaving  *)
(* of the statements of every handler, but for the named exceptions.       *)
THEOREM PackagesStayScheduled == Spec => StaysScheduled
<1>1. ASSUME Inv, SchedulingInv, [Next]_vars, NEW i \in Known, Scheduled(i)
      PROVE  Scheduled(i)' \/ Excused(i)
  <2>1. CASE Reproduced(i)
    BY <1>1, <2>1, ReproducedStays
  <2>2. CASE GivenUp(i)
    BY <1>1, <2>2, GivenUpStays
  <2>3. CASE QueuedFriend(Known, i)
    BY <1>1, <2>3, QueuedStays
  <2>4. ASSUME NEW t \in Threads, reports[t].input # None, SameFriends(i, reports[t].input)
        PROVE  Scheduled(i)' \/ Excused(i)
    BY <1>1, <2>4, ReportedStays
  <2>5. CASE request.input # None /\ SameFriends(i, request.input)
    BY <1>1, <2>5, RequestedStays
  <2>6. CASE i \in sync.todo
    BY <1>1, <2>6, SyncedStays
  <2>7. QED  BY <1>1, <2>1, <2>2, <2>3, <2>4, <2>5, <2>6 DEF Scheduled, InProgress
<1>2. Inv /\ SchedulingInv /\ [Next]_vars =>
        [\A i \in Known : Scheduled(i) => Scheduled(i)' \/ Excused(i)]_vars
  BY <1>1
<1>3. QED  BY <1>2, InvHolds, SchedulingInvHolds, PTL DEF Spec, StaysScheduled

-----------------------------------------------------------------------------
(* The limit on retries.  The run retry_limit shows that two reports on    *)
(* friends can break it, and a handler that fails between the count and    *)
(* the end leaves the jobs of the friends in the queue; without these two  *)
(* it holds.                                                               *)
CountingSteps == {"largest", "mark", "clear", "unqueue"}
RetrySteps    == {"delay", "requeue"}

(* No two reports on friends decide on a retry at the same time.           *)
ReportsApart ==
  \A t, u \in Threads :
    /\ t # u
    /\ reports[t].pc \in CountingSteps \cup RetrySteps
    /\ reports[u].pc \in CountingSteps \cup RetrySteps
    => ~SameFriends(reports[t].input, reports[u].input)

(* A handler that has counted a retry drops the jobs if it must.           *)
CountsAreFollowed ==
  \A t \in Threads : reports[t].pc \in CountingSteps /\ AbandonReport(t) => UnqueueFriends(t)

(* The inductive invariant: who is about to requeue a job is below the     *)
(* limit, and who is about to drop jobs knows the friends that have one.   *)
RetryInv ==
  /\ RetryLimitHolds
  /\ \A t \in Threads :
       /\ reports[t].pc \in RetrySteps => ~GivenUp(reports[t].input)
       /\ reports[t].pc \in {"clear", "unqueue"} =>
            \A q \in queue : q.priority # Manual /\ SameFriends(q.input, reports[t].input)
                               => q.input \in reports[t].friends

(* Packages are past their retries once a report has counted one of them   *)
(* for a friend: an imported package is not, unless its friends were.      *)
LEMMA CountsExhaust ==
  ASSUME Inv, SchedulingInv, [Next]_vars, NEW j \in Known, ~GivenUp(j), GivenUp(j)'
  PROVE  \E t \in Threads : /\ reports'[t].pc = "largest"
                            /\ reports'[t].input = reports[t].input
                            /\ SameFriends(j, reports[t].input)
<1>1. PICK f \in Known' : FriendKey[f] = FriendKey[j] /\ Exhausted(retries'[f])
  BY DEF GivenUp, FriendsExhausted, FriendsIn
<1>2. j \in Inputs /\ f \in Inputs /\ retries \in [Inputs -> Nat]
  BY DEF Known, Inv, TypeOK, DatabaseTypeOK
<1>3. CASE UNCHANGED retries
  <2>1. f \notin Known
    BY <1>1, <1>3 DEF GivenUp, FriendsExhausted, FriendsIn
  <2>2. Exhausted(0)
    BY <1>1, <1>2, <1>3, <2>1 DEF SchedulingInv
  <2>3. Exhausted(retries[j])
    BY <1>2, <2>2, RetriesAssumption DEF Exhausted
  <2>4. QED  BY <2>3 DEF GivenUp, FriendsExhausted, FriendsIn
<1>4. ASSUME NEW t \in Threads, CountRetry(t), UNCHANGED Known
      PROVE  /\ reports'[t].pc = "largest" /\ reports'[t].input = reports[t].input
             /\ SameFriends(j, reports[t].input)
  <2>1. f \in Known /\ ~Exhausted(retries[f])
    BY <1>1, <1>4 DEF GivenUp, FriendsExhausted, FriendsIn
  <2>2. f \in reports[t].friends
    BY <1>1, <1>2, <1>4, <2>1 DEF CountRetry
  <2>3. SameFriends(f, reports[t].input)
    BY <2>2 DEF SchedulingInv, ReportKnows
  <2>4. reports[t] \in Report /\ reports' = [reports EXCEPT ![t].pc = "largest"]
    BY <1>4 DEF Inv, TypeOK, BuildApiTypeOK, CountRetry, GoTo
  <2>5. QED  BY <1>1, <2>3, <2>4 DEF Inv, TypeOK, BuildApiTypeOK, Report, SameFriends
<1>5. QED  BY <1>3, <1>4, TablesGrow

(* What a step may do to a handler that decides on a retry.                *)
DecisionMoves(t) ==
  \/ reports'[t] = reports[t]
  \/ /\ reports'[t].pc \notin CountingSteps \cup RetrySteps
     /\ reports[t].pc \in CountingSteps => UnqueueFriends(t) \/ AbandonReport(t)
  \/ /\ reports'[t].input = reports[t].input
     /\ \/ reports[t].pc = "retries" /\ reports'[t].pc = "largest"
        \/ reports[t].pc = "largest" /\ reports'[t].pc = "mark"
        \/ /\ reports[t].pc = "largest" /\ reports'[t].pc = "delay"
           /\ ~GivenUp(reports[t].input)
        \/ /\ reports[t].pc = "mark" /\ reports'[t].pc = "clear"
           /\ reports'[t].friends = Friends(reports[t].input)
        \/ /\ reports[t].pc = "clear" /\ reports'[t].pc = "unqueue"
           /\ reports'[t].friends = reports[t].friends
        \/ reports[t].pc = "delay" /\ reports'[t].pc = "requeue"

LEMMA DecisionsMove ==
  ASSUME Inv, [Next]_vars, NEW t \in Threads
  PROVE  DecisionMoves(t)
<1> USE DEF At, CountingSteps, RetrySteps
<1>0. reports[t] \in Report /\ reports \in [Threads -> Report] /\ retries \in [Inputs -> Nat]
  BY DEF Inv, TypeOK, BuildApiTypeOK, DatabaseTypeOK
<1>1. CASE UNCHANGED reports
  BY <1>1 DEF DecisionMoves
<1>2. ASSUME NEW w \in Workers, WorkerStep(w) PROVE DecisionMoves(t)
  <2>1. ASSUME NEW u \in Threads, NEW status \in Outcomes, SubmitReport(w, u, status)
        PROVE  DecisionMoves(t)
    BY <1>0, <2>1 DEF SubmitReport, ReceiveReport, IdleReport, DecisionMoves
  <2>2. QED
    BY <1>1, <1>2, <2>1
    DEF WorkerStep, Poll, StartBuild, LoseJob, FindNothing, Ping, StopWorker, SignUp, Unregister
<1>3. ASSUME NEW u \in Threads, u # t, ReportStep(u) PROVE DecisionMoves(t)
  <2>1. \E r : reports' = [reports EXCEPT ![u] = r]
    BY <1>3
    DEF ReportStep, HandleReport, AbandonReport, SelectJob, SelectFriends, RecordResult, DequeueJob,
        CountRetry, CheckRetries, SelectExhausted, MarkNonRetriable, UnqueueFriends, SetNextRetry,
        RequeueJob, Finish, GoTo
  <2>2. QED  BY <1>0, <1>3, <2>1 DEF DecisionMoves
<1>4. CASE ReportStep(t)
  <2>0. CASE Finish(t) /\ reports[t].pc \notin CountingSteps
    BY <1>0, <2>0 DEF Finish, IdleReport, DecisionMoves
  <2>1. CASE SelectJob(t)
    <3>1. CASE Finish(t)
      BY <2>0, <2>1, <3>1 DEF SelectJob
    <3>2. ASSUME NEW q, reports' = [reports EXCEPT ![t] = [@ EXCEPT !.pc = "friends", !.input = q]]
          PROVE  DecisionMoves(t)
      BY <1>0, <2>1, <3>2 DEF SelectJob, Report, DecisionMoves
    <3>3. QED  BY <2>1, <3>1, <3>2 DEF SelectJob
  <2>2. CASE SelectFriends(t)
    BY <1>0, <2>2 DEF SelectFriends, Report, DecisionMoves
  <2>3. ASSUME NEW f \in Inputs, NEW inOrder \in BuiltAtOrders, RecordResult(t, f, inOrder)
        PROVE  DecisionMoves(t)
    <3>1. reports'[t] = [reports[t] EXCEPT
                           !.todo = reports[t].todo \ {f},
                           !.pc = IF reports[t].todo = {f} THEN "dequeue" ELSE "record"]
      BY <1>0, <2>3 DEF RecordResult
    <3>2. reports'[t].pc \in {"dequeue", "record"} /\ reports[t].pc = "record"
      <4>1. reports[t].pc = "record"
        BY <2>3 DEF RecordResult
      <4>2. QED  BY <1>0, <3>1, <4>1 DEF Report
    <3>3. QED  BY <3>2 DEF DecisionMoves
  <2>4. CASE DequeueJob(t)
    <3>1. CASE GoTo(t, "retries")
      BY <1>0, <2>4, <3>1 DEF DequeueJob, GoTo, Report, DecisionMoves
    <3>2. QED  BY <2>0, <2>4, <3>1 DEF DequeueJob
  <2>5. CASE CountRetry(t)
    BY <1>0, <2>5 DEF CountRetry, GoTo, Report, DecisionMoves
  <2>6. CASE CheckRetries(t)
    <3>1. PICK f \in Friends(reports[t].input) :
            /\ LargestRetries(Friends(reports[t].input), retries[f])
            /\ reports' = IF Exhausted(retries[f])
                          THEN [reports EXCEPT ![t].pc = "mark"]
                          ELSE [reports EXCEPT ![t] = [@ EXCEPT !.pc = "delay", !.largest = retries[f]]]
      BY <2>6 DEF CheckRetries
    <3>2. ASSUME ~Exhausted(retries[f]) PROVE ~GivenUp(reports[t].input)
      <4>1. \A g \in Friends(reports[t].input) : retries[g] \in Nat /\ retries[g] <= retries[f]
        BY <1>0, <3>1 DEF LargestRetries, Friends, FriendsIn, Known
      <4>2. \A g \in Friends(reports[t].input) : ~Exhausted(retries[g])
        BY <3>1, <3>2, <4>1, RetriesAssumption DEF Exhausted
      <4>3. QED  BY <4>2 DEF GivenUp, FriendsExhausted, Friends
    <3>3. reports[t].pc = "largest" /\ reports'[t].input = reports[t].input
          /\ reports'[t].pc = (IF Exhausted(retries[f]) THEN "mark" ELSE "delay")
      BY <1>0, <2>6, <3>1 DEF CheckRetries, Report
    <3>4. QED  BY <3>2, <3>3 DEF DecisionMoves
  <2>7. CASE SelectExhausted(t)
    BY <1>0, <2>7 DEF SelectExhausted, Report, DecisionMoves
  <2>8. CASE MarkNonRetriable(t) \/ SetNextRetry(t)
    <3>1. /\ reports'[t].input = reports[t].input /\ reports'[t].friends = reports[t].friends
          /\ \/ reports[t].pc = "clear" /\ reports'[t].pc = "unqueue"
             \/ reports[t].pc = "delay" /\ reports'[t].pc = "requeue"
      BY <1>0, <2>8 DEF MarkNonRetriable, SetNextRetry, GoTo, Report
    <3>2. QED  BY <3>1 DEF DecisionMoves
  <2>9. CASE RequeueJob(t)
    BY <2>0, <2>9 DEF RequeueJob
  <2>10. CASE UnqueueFriends(t) \/ AbandonReport(t)
    BY <1>0, <2>10 DEF UnqueueFriends, AbandonReport, Finish, IdleReport, DecisionMoves
  <2>11. QED
    BY <1>4, <2>1, <2>2, <2>3, <2>4, <2>5, <2>6, <2>7, <2>8, <2>9, <2>10 DEF ReportStep, HandleReport
<1>5. CASE RequestRebuild \/ DropJobs \/ StartSync \/ ContinueSync \/ Tick \/ UNCHANGED vars
  BY <1>1, <1>5 DEF RequestRebuild, DropJobs, StartSync, ContinueSync, Tick, vars
<1>6. QED  BY <1>2, <1>3, <1>4, <1>5 DEF Next

(* A job that no administrator asked for was in the queue before, unless a *)
(* report or a sync asks for it.                                           *)
LEMMA RetriesCome ==
  ASSUME Inv, SchedulingInv, [Next]_vars, NEW r \in queue', r.priority # Manual
  PROVE  \/ \E q \in queue : q.input = r.input /\ q.priority # Manual
         \/ \E t \in Threads : RequeueJob(t) /\ r.input = reports[t].input
         \/ ~GivenUp(r.input)'
<1>1. ASSUME NEW i \in sync.todo, SchedulePackage(i), r.input = i
      PROVE  ~GivenUp(i)'
  <2>1. i \in Inputs /\ ImportPackage(i) /\ DatabaseTypeOK /\ ~FriendsExhausted(Known \cup {i}, i)
    BY <1>1 DEF SchedulePackage, Inv, TypeOK, PackageApiTypeOK
  <2>2. Known' = Known \cup {i} /\ UNCHANGED retries
    BY <2>1, ImportsAdd
  <2>3. QED  BY <2>1, <2>2 DEF GivenUp, FriendsExhausted, FriendsIn
<1>2. request.priority = Manual
  BY DEF SchedulingInv, RequestKnows
<1>3. QED  BY <1>1, <1>2, JobsCome

LEMMA RetryInvIsPreserved ==
  ASSUME Inv, SchedulingInv, RetryInv, [Next]_vars, [CountsAreFollowed]_vars, ReportsApart'
  PROVE  RetryInv'
<1> USE DEF CountingSteps, RetrySteps
<1>0. /\ \A q \in queue : q.input \in Known
      /\ \A t \in Threads : DecisionMoves(t)
      /\ \A t \in Threads : reports[t].pc \notin {"idle", "select"} => reports[t].input \in Known
  BY DecisionsMove DEF SchedulingInv, ReportKnows
<1>1. ASSUME NEW r \in queue', r.priority # Manual, GivenUp(r.input)'
      PROVE  Counting(r.input)'
  <2>1. ASSUME NEW j \in Known, ~GivenUp(j), j = r.input PROVE Counting(r.input)'
    <3>1. PICK t \in Threads : /\ reports'[t].pc = "largest" /\ reports'[t].input = reports[t].input
                               /\ SameFriends(j, reports[t].input)
      BY <1>1, <2>1, CountsExhaust
    <3>2. QED  BY <2>1, <3>1 DEF Counting, SameFriends
  <2>2. ASSUME NEW q \in queue, q.input = r.input, q.priority # Manual, GivenUp(q.input)
        PROVE  Counting(r.input)'
    <3>1. PICK t \in Threads : reports[t].pc \in CountingSteps /\ SameFriends(q.input, reports[t].input)
      BY <2>2 DEF RetryInv, RetryLimitHolds, Counting
    <3>2. GivenUp(reports[t].input)
      BY <2>2, <3>1 DEF GivenUp, FriendsExhausted, FriendsIn, SameFriends
    <3>3. CASE reports'[t].pc \in CountingSteps /\ reports'[t].input = reports[t].input
      BY <2>2, <3>1, <3>3 DEF Counting, SameFriends
    <3>4. CASE UnqueueFriends(t)
      <4>1. reports[t].pc = "unqueue" /\ r \in queue /\ r.input \notin reports[t].friends
        BY <3>4 DEF UnqueueFriends, At
      <4>2. SameFriends(r.input, reports[t].input)
        BY <2>2, <3>1
      <4>3. QED  BY <1>1, <4>1, <4>2 DEF RetryInv
    <3>5. CASE AbandonReport(t) /\ ~UnqueueFriends(t)
      <4>1. UNCHANGED vars
        BY <3>1, <3>5 DEF CountsAreFollowed
      <4>2. reports' = reports
        BY <4>1 DEF vars
      <4>3. QED  BY <3>1, <3>3, <4>2
    <3>6. QED  BY <1>0, <3>1, <3>2, <3>3, <3>4, <3>5 DEF DecisionMoves
  <2>3. ASSUME NEW t \in Threads, RequeueJob(t), r.input = reports[t].input
        PROVE  Counting(r.input)'
    <3>1. reports[t].pc = "requeue"
      BY <2>3 DEF RequeueJob, At
    <3>2. reports[t].input \in Known /\ ~GivenUp(reports[t].input)
      BY <1>0, <3>1 DEF RetryInv
    <3>3. QED  BY <2>1, <2>3, <3>2
  <2>4. QED  BY <1>0, <1>1, <2>1, <2>2, <2>3, RetriesCome
<1>2. ASSUME NEW t \in Threads, reports'[t].pc \in RetrySteps, NEW j, j = reports'[t].input
      PROVE  ~GivenUp(j)'
  <2>1. reports[t].input = j /\ ~GivenUp(j) /\ j \in Known
    BY <1>0, <1>2 DEF DecisionMoves, RetryInv
  <2>2. ASSUME GivenUp(j)' PROVE FALSE
    <3>1. PICK u \in Threads : /\ reports'[u].pc = "largest" /\ reports'[u].input = reports[u].input
                               /\ SameFriends(j, reports[u].input)
      BY <2>1, <2>2, CountsExhaust
    <3>2. u # t
      BY <1>2, <3>1
    <3>3. QED  BY <1>2, <3>1, <3>2 DEF ReportsApart, SameFriends
  <2>3. QED  BY <2>2
<1>3. ASSUME NEW t \in Threads, reports'[t].pc \in {"clear", "unqueue"},
             NEW r \in queue', r.priority # Manual, SameFriends(r.input, reports'[t].input)
      PROVE  r.input \in reports'[t].friends
  <2>1. /\ reports'[t].input = reports[t].input
        /\ \/ reports[t].pc = "mark" /\ reports'[t].friends = Friends(reports[t].input)
           \/ reports[t].pc \in {"clear", "unqueue"} /\ reports'[t].friends = reports[t].friends
    BY <1>0, <1>3 DEF DecisionMoves
  <2>2. GivenUp(reports[t].input) /\ reports[t].input \in Inputs
    BY <2>1 DEF SchedulingInv, ReportKnows, Known
  <2>3. ASSUME NEW q \in queue, q.input = r.input, q.priority # Manual
        PROVE  r.input \in reports'[t].friends
    <3>1. CASE reports[t].pc = "mark"
      BY <1>0, <1>3, <2>1, <2>3, <3>1 DEF Friends, FriendsIn, SameFriends
    <3>2. CASE reports[t].pc \in {"clear", "unqueue"}
      BY <1>3, <2>1, <2>3, <3>2 DEF RetryInv
    <3>3. QED  BY <2>1, <3>1, <3>2
  <2>4. ASSUME NEW u \in Threads, RequeueJob(u), r.input = reports[u].input PROVE FALSE
    <3>1. ~GivenUp(reports[u].input)
      BY <2>4 DEF RetryInv, RequeueJob, At
    <3>2. QED
      BY <1>3, <2>1, <2>2, <2>4, <3>1 DEF GivenUp, FriendsExhausted, FriendsIn, SameFriends
  <2>5. GivenUp(r.input)'
    <3>1. GivenUp(r.input)
      BY <1>3, <2>1, <2>2 DEF GivenUp, FriendsExhausted, FriendsIn, SameFriends
    <3>2. r.input \in Inputs
      BY <1>3, TypesArePreserved DEF TypeOK, DatabaseTypeOK, QueueRow
    <3>3. QED  BY <3>1, <3>2, GivenUpLasts
  <2>6. QED  BY <1>3, <2>3, <2>4, <2>5, RetriesCome
<1>4. \A t \in Threads : reports'[t].pc \in RetrySteps => ~GivenUp(reports[t].input)'
  BY <1>2 DEF GivenUp
<1>5. QED  BY <1>1, <1>3, <1>4 DEF RetryInv, RetryLimitHolds

(* The limit on retries holds for any number of handlers, as long as no    *)
(* two of them decide on friends at once and none fails half-way.          *)
THEOREM RetryLimitIsKept ==
  Spec /\ []ReportsApart /\ [][CountsAreFollowed]_vars => []RetryLimitHolds
<1>1. Init => RetryInv
  BY DEF Init, DatabaseInit, BuildApiInit, IdleReport, RetryInv, RetryLimitHolds, RetrySteps
<1>2. Inv /\ SchedulingInv /\ RetryInv /\ [Next]_vars /\ [CountsAreFollowed]_vars /\ ReportsApart'
        => RetryInv'
  BY RetryInvIsPreserved
<1>3. RetryInv => RetryLimitHolds
  BY DEF RetryInv
<1>4. QED  BY <1>1, <1>2, <1>3, InvHolds, SchedulingInvHolds, PTL DEF Spec

-----------------------------------------------------------------------------
(* The first build of a package.  The run first_build shows that the limit *)
(* on retries can deny it.  Without a limit every first build is scheduled, *)
(* as long as no scope holds two friends: the commit drops the jobs of the *)
(* packages that a sync of the scope no longer reports, and a friend of one *)
(* that it does report may have relied on such a job.                      *)
OneFriendPerScope ==
  \A i, j \in Inputs : ScopeOf[i] = ScopeOf[j] /\ SameFriends(i, j) => i = j

NoFriends == \A i, j \in Inputs : SameFriends(i, j) => i = j

(* What a sync has taken so far belongs to its scope and counts as seen.   *)
TakenAreSeen ==
  sync.active =>
    /\ \A i \in sync.reported : ScopeOf[i] = sync.scope
    /\ \A i \in sync.reported \ sync.todo : seen[SourceOf[i]]

LEMMA TakenStaySeen == Inv /\ TakenAreSeen /\ [Next]_vars => TakenAreSeen'
<1> SUFFICES ASSUME Inv, TakenAreSeen, [Next]_vars PROVE TakenAreSeen'
  OBVIOUS
<1> USE DEF Inv, TypeOK, PackageApiTypeOK
<1>1. CASE ~sync.active
  <2>1. CASE StartSync
    <3>1. PICK scope \in Scopes, reported \in SUBSET Inputs :
            /\ \A i \in reported : ScopeOf[i] = scope
            /\ sync' = [active |-> TRUE, scope |-> scope, reported |-> reported, todo |-> reported]
      BY <2>1 DEF StartSync, BeginSync
    <3>2. QED  BY <3>1 DEF TakenAreSeen
  <2>2. CASE UNCHANGED sync
    BY <1>1, <2>2 DEF TakenAreSeen
  <2>3. CASE CommitSync
    BY <1>1, <2>3 DEF CommitSync
  <2>4. ASSUME NEW i \in sync.todo, ImportPackage(i) PROVE TakenAreSeen'
    BY <1>1, <2>4 DEF ImportPackage, TakenAreSeen
  <2>5. StartSync \/ UNCHANGED sync \/ CommitSync \/ \E i \in sync.todo : ImportPackage(i)
    BY DEF Next, WorkerStep, Poll, StartBuild, LoseJob, FindNothing, Ping, SubmitReport, StopWorker,
           SignUp, Unregister, ReportStep, RequestRebuild, DropJobs, ContinueSync, SyncStep,
           SkipPackage, GiveUpPackage, SchedulePackage, Tick, vars
  <2>6. QED  BY <2>1, <2>2, <2>3, <2>4, <2>5
<1>2. CASE sync.active
  <2>1. CASE UNCHANGED vars
    BY <2>1 DEF TakenAreSeen, vars, dbVars, inputVars
  <2>2. CASE CommitSync
    BY <2>2 DEF CommitSync, IdleSync, TakenAreSeen
  <2>3. ASSUME NEW i \in sync.todo, ImportPackage(i) PROVE TakenAreSeen'
    <3>1. /\ sync'.reported = sync.reported /\ sync'.todo = sync.todo \ {i}
          /\ sync'.scope = sync.scope /\ i \in Inputs
      BY <2>3 DEF ImportPackage
    <3>2. seen'[SourceOf[i]] /\ \A j \in Inputs : seen[SourceOf[j]] => seen'[SourceOf[j]]
      BY <2>3, <3>1, MapAssumption DEF ImportPackage, DatabaseTypeOK
    <3>3. QED  BY <1>2, <3>1, <3>2 DEF TakenAreSeen
  <2>4. QED
    BY <1>2, <2>1, <2>2, <2>3, SyncsRunAlone
    DEF ContinueSync, SyncStep, SkipPackage, GiveUpPackage, SchedulePackage
<1>3. QED  BY <1>1, <1>2

(* A package whose retries are counted has a result: a report counts the   *)
(* retries of the friends that it read, after it has recorded all of them. *)
HasResult(i) == rebuilds[i].newest # "none"

RetriedHaveResults ==
  /\ \A i \in Inputs : retries[i] > 0 => HasResult(i)
  /\ \A t \in Threads :
       /\ reports[t].pc \in {"record", "dequeue", "retries"} =>
            \A f \in reports[t].friends \ reports[t].todo : HasResult(f)
       /\ reports[t].pc \in {"dequeue", "retries"} => reports[t].todo = {}

(* Resets keep the rows of results, and copies go to new packages only.    *)
LEMMA ResultsLast ==
  ASSUME Inv, [Next]_vars, NEW i \in Known, HasResult(i)
  PROVE  HasResult(i)'
<1>0. rebuilds \in [Inputs -> RebuildView] /\ i \in Inputs /\ reports \in [Threads -> Report]
  BY DEF Inv, TypeOK, DatabaseTypeOK, BuildApiTypeOK, Known
<1>1. ASSUME NEW t \in Threads, NEW f \in Inputs, NEW inOrder \in BuiltAtOrders,
             RecordResult(t, f, inOrder)
      PROVE  HasResult(i)'
  <2>1. reports[t].status # "none"
    BY <1>0 DEF Report, Outcomes
  <2>2. QED  BY <1>0, <1>1, <2>1 DEF RecordResult, Insert, RebuildView, HasResult
<1>2. ASSUME NEW j \in request.todo, ResetInput(j) PROVE HasResult(i)'
  BY <1>0, <1>2 DEF ResetInput, ResetNewest, RebuildView, HasResult
<1>3. ASSUME NEW j \in sync.todo, ImportPackage(j) PROVE HasResult(i)'
  <2>1. IsNewPackage(j) => i # j
    BY DEF IsNewPackage
  <2>2. QED  BY <1>0, <1>3, <2>1 DEF ImportPackage, HasResult
<1>4. CASE rebuilds' = rebuilds
  BY <1>4 DEF HasResult
<1>5. QED  BY <1>1, <1>2, <1>3, <1>4, ResultsCome

(* What a step may do to a handler that records results.                   *)
RecordMoves(t) ==
  \/ reports'[t] = reports[t]
  \/ reports'[t].pc \notin {"record", "dequeue", "retries"}
  \/ reports'[t].pc = "record" /\ reports'[t].todo = reports'[t].friends
  \/ \E f \in Inputs, inOrder \in BuiltAtOrders : RecordResult(t, f, inOrder)
  \/ /\ reports[t].pc = "dequeue" /\ reports'[t].pc = "retries"
     /\ reports'[t].friends = reports[t].friends /\ reports'[t].todo = reports[t].todo

LEMMA RecordsMove ==
  ASSUME Inv, [Next]_vars, NEW t \in Threads
  PROVE  RecordMoves(t)
<1>0. reports[t] \in Report /\ reports \in [Threads -> Report]
  BY DEF Inv, TypeOK, BuildApiTypeOK
<1>1. CASE UNCHANGED reports
  BY <1>1 DEF RecordMoves
<1>2. ASSUME NEW w \in Workers, WorkerStep(w) PROVE RecordMoves(t)
  <2>1. ASSUME NEW u \in Threads, NEW status \in Outcomes, SubmitReport(w, u, status)
        PROVE  RecordMoves(t)
    BY <1>0, <2>1 DEF SubmitReport, ReceiveReport, IdleReport, RecordMoves
  <2>2. QED
    BY <1>1, <1>2, <2>1
    DEF WorkerStep, Poll, StartBuild, LoseJob, FindNothing, Ping, StopWorker, SignUp, Unregister
<1>3. ASSUME NEW u \in Threads, u # t, ReportStep(u) PROVE RecordMoves(t)
  <2>1. \E r : reports' = [reports EXCEPT ![u] = r]
    BY <1>3
    DEF ReportStep, HandleReport, AbandonReport, SelectJob, SelectFriends, RecordResult, DequeueJob,
        CountRetry, CheckRetries, SelectExhausted, MarkNonRetriable, UnqueueFriends, SetNextRetry,
        RequeueJob, Finish, GoTo
  <2>2. QED  BY <1>0, <1>3, <2>1 DEF RecordMoves
<1>4. CASE ReportStep(t)
  <2>0. CASE Finish(t)
    BY <1>0, <2>0 DEF Finish, IdleReport, RecordMoves
  <2>1. ASSUME NEW pc \in ReportSteps \ {"record", "dequeue", "retries"}, GoTo(t, pc)
        PROVE  RecordMoves(t)
    BY <1>0, <2>1 DEF GoTo, Report, RecordMoves
  <2>2. CASE SelectJob(t)
    <3>1. ASSUME NEW q, reports' = [reports EXCEPT ![t] = [@ EXCEPT !.pc = "friends", !.input = q]]
          PROVE  RecordMoves(t)
      BY <1>0, <3>1 DEF Report, RecordMoves
    <3>2. QED  BY <2>0, <2>2, <3>1 DEF SelectJob
  <2>3. CASE SelectFriends(t)
    <3> DEFINE friends == Friends(reports[t].input)
    <3>1. reports'[t] = [reports[t] EXCEPT !.pc = "record", !.friends = friends, !.todo = friends]
      BY <1>0, <2>3 DEF SelectFriends
    <3>2. reports'[t].pc = "record" /\ reports'[t].todo = friends /\ reports'[t].friends = friends
      <4> HIDE DEF friends
      <4>1. QED  BY <1>0, <3>1 DEF Report
    <3>3. QED  BY <3>2 DEF RecordMoves
  <2>4. CASE DequeueJob(t)
    <3>1. CASE GoTo(t, "retries")
      BY <1>0, <2>4, <3>1 DEF DequeueJob, At, GoTo, Report, RecordMoves
    <3>2. QED  BY <2>0, <2>4, <3>1 DEF DequeueJob
  <2>5. CASE CheckRetries(t)
    <3>1. ASSUME NEW n, reports' = [reports EXCEPT ![t] = [@ EXCEPT !.pc = "delay", !.largest = n]]
          PROVE  RecordMoves(t)
      BY <1>0, <3>1 DEF Report, RecordMoves
    <3>2. QED  BY <2>1, <2>5, <3>1 DEF CheckRetries, GoTo, ReportSteps
  <2>6. CASE SelectExhausted(t)
    BY <1>0, <2>6 DEF SelectExhausted, Report, RecordMoves
  <2>7. CASE CountRetry(t) \/ MarkNonRetriable(t) \/ SetNextRetry(t)
    BY <2>1, <2>7 DEF CountRetry, MarkNonRetriable, SetNextRetry, ReportSteps
  <2>8. CASE UnqueueFriends(t) \/ RequeueJob(t) \/ AbandonReport(t)
    BY <2>0, <2>8 DEF UnqueueFriends, RequeueJob, AbandonReport
  <2>9. QED
    BY <1>4, <2>2, <2>3, <2>4, <2>5, <2>6, <2>7, <2>8 DEF ReportStep, HandleReport, RecordMoves
<1>5. CASE RequestRebuild \/ DropJobs \/ StartSync \/ ContinueSync \/ Tick \/ UNCHANGED vars
  BY <1>1, <1>5 DEF RequestRebuild, DropJobs, StartSync, ContinueSync, Tick, vars
<1>6. QED  BY <1>2, <1>3, <1>4, <1>5 DEF Next

LEMMA RetriedKeepResults ==
  Inv /\ SchedulingInv /\ RetriedHaveResults /\ [Next]_vars => RetriedHaveResults'
<1> SUFFICES ASSUME Inv, SchedulingInv, RetriedHaveResults, [Next]_vars
             PROVE  RetriedHaveResults'
  OBVIOUS
<1>0. /\ rebuilds \in [Inputs -> RebuildView] /\ retries \in [Inputs -> Nat]
      /\ reports \in [Threads -> Report]
  BY DEF Inv, TypeOK, DatabaseTypeOK, BuildApiTypeOK
<1>1. ASSUME NEW i \in Inputs, retries'[i] > 0 PROVE HasResult(i)'
  <2>1. CASE retries[i] > 0
    <3>1. HasResult(i) /\ i \in Known
      BY <2>1 DEF RetriedHaveResults, SchedulingInv
    <3>2. QED  BY <3>1, ResultsLast
  <2>2. CASE ~(retries[i] > 0)
    <3>1. PICK t \in Threads : CountRetry(t)
      BY <1>1, <2>2, TablesGrow
    <3>2. i \in reports[t].friends
      BY <1>1, <2>2, <3>1 DEF CountRetry
    <3>3. HasResult(i) /\ i \in Known
      BY <3>1, <3>2 DEF CountRetry, At, RetriedHaveResults, SchedulingInv, ReportKnows
    <3>4. QED  BY <3>3, ResultsLast
  <2>3. QED  BY <2>1, <2>2
<1>2. ASSUME NEW t \in Threads, reports'[t].pc \in {"record", "dequeue", "retries"}
      PROVE  /\ \A f \in reports'[t].friends \ reports'[t].todo : HasResult(f)'
             /\ reports'[t].pc \in {"dequeue", "retries"} => reports'[t].todo = {}
  <2>1. ASSUME NEW f \in reports[t].friends, HasResult(f) PROVE HasResult(f)'
    BY <2>1, ResultsLast DEF SchedulingInv, ReportKnows
  <2>2. ASSUME NEW f \in Inputs, NEW inOrder \in BuiltAtOrders, RecordResult(t, f, inOrder)
        PROVE  /\ \A g \in reports'[t].friends \ reports'[t].todo : HasResult(g)'
               /\ reports'[t].pc \in {"dequeue", "retries"} => reports'[t].todo = {}
    <3>1. reports'[t] = [reports[t] EXCEPT
                           !.todo = reports[t].todo \ {f},
                           !.pc = IF reports[t].todo = {f} THEN "dequeue" ELSE "record"]
      BY <1>0, <2>2 DEF RecordResult
    <3>2. /\ reports'[t].friends = reports[t].friends /\ reports'[t].todo = reports[t].todo \ {f}
          /\ reports'[t].pc = (IF reports[t].todo = {f} THEN "dequeue" ELSE "record")
      BY <1>0, <3>1 DEF Report
    <3>3. HasResult(f)'
      <4>1. reports[t].status # "none"
        BY <1>0 DEF Report, Outcomes
      <4>2. QED  BY <1>0, <2>2, <4>1 DEF RecordResult, Insert, RebuildView, HasResult
    <3>4. \A g \in reports[t].friends \ reports[t].todo : HasResult(g)
      BY <2>2 DEF RecordResult, At, RetriedHaveResults
    <3>5. QED  BY <2>1, <3>2, <3>3, <3>4
  <2>3. CASE reports'[t] = reports[t]
    BY <1>2, <2>1, <2>3 DEF RetriedHaveResults
  <2>4. CASE /\ reports[t].pc = "dequeue" /\ reports'[t].pc = "retries"
             /\ reports'[t].friends = reports[t].friends /\ reports'[t].todo = reports[t].todo
    BY <2>1, <2>4 DEF RetriedHaveResults
  <2>5. QED  BY <1>2, <2>2, <2>3, <2>4, RecordsMove DEF RecordMoves
<1>3. QED  BY <1>1, <1>2 DEF RetriedHaveResults

(* A sync schedules the first build of every package it reports: without a *)
(* limit on retries if no scope holds two friends, and whatever the limit, *)
(* but for the 0 of the run first_build, if there are no friends at all.   *)
THEOREM FirstBuildsAreScheduled ==
  ASSUME \/ MaxRetries = None /\ OneFriendPerScope
         \/ MaxRetries # 0 /\ NoFriends
  PROVE  Spec => FirstBuildIsScheduled
<1>0. OneFriendPerScope
  BY DEF OneFriendPerScope, NoFriends
<1>1. Init => TakenAreSeen /\ RetriedHaveResults
  BY DEF Init, PackageApiInit, IdleSync, TakenAreSeen, DatabaseInit, BuildApiInit, IdleReport,
         RetriedHaveResults
<1>2. ASSUME Inv, RetriedHaveResults, TakenAreSeen, CommitSync,
             NEW i \in sync.reported, rebuilds[i] = NoRebuild,
             \/ Reproduced(i) \/ GivenUp(i)
             \/ QueuedFriend(Known, i)'
             \/ \E q \in queue : Unwanted(q) /\ SameFriends(i, q.input)
      PROVE  QueuedFriend(Known, i)'
  <2>0. i \in Inputs /\ retries \in [Inputs -> Nat]
    BY <1>2 DEF Inv, TypeOK, PackageApiTypeOK, DatabaseTypeOK
  <2>1. ~Reproduced(i)
    BY <1>2 DEF Reproduced, CurrentStatus, NoRebuild, Outcomes
  <2>2. ~GivenUp(i)
    <3>1. retries[i] = 0
      BY <1>2, <2>0 DEF RetriedHaveResults, HasResult, NoRebuild
    <3>2. MaxRetries = None \/ (~Exhausted(0) /\ NoFriends)
      BY RetriesAssumption DEF Exhausted
    <3>3. QED
      BY <2>0, <3>1, <3>2
      DEF GivenUp, FriendsExhausted, FriendsIn, Exhausted, NoFriends, SameFriends, Known
  <2>3. ASSUME NEW q \in queue, Unwanted(q), SameFriends(i, q.input) PROVE FALSE
    <3>1. i \in Inputs /\ q.input \in Inputs
      BY <1>2 DEF Inv, TypeOK, PackageApiTypeOK, DatabaseTypeOK, QueueRow
    <3>2. ScopeOf[i] = sync.scope /\ seen[SourceOf[i]]
      BY <1>2 DEF CommitSync, TakenAreSeen
    <3>3. q.input = i
      BY <1>0, <2>3, <3>1, <3>2 DEF Unwanted, OneFriendPerScope
    <3>4. QED  BY <2>3, <3>2, <3>3 DEF Unwanted
  <2>4. QED  BY <1>2, <2>1, <2>2, <2>3
<1> DEFINE Followed(i) == \/ Reproduced(i) \/ GivenUp(i)
                          \/ QueuedFriend(Known, i)'
                          \/ \E q \in queue : Unwanted(q) /\ SameFriends(i, q.input)
<1>3. /\ Inv /\ RetriedHaveResults /\ TakenAreSeen
      /\ [CommitSync => \A i \in sync.reported : Followed(i)]_vars
      => [\A i \in sync.reported :
            CommitSync /\ rebuilds[i] = NoRebuild => QueuedFriend(Known, i)']_vars
  BY <1>2
<1>4. QED
  BY <1>1, <1>3, InvHolds, SchedulingInvHolds, TakenStaySeen, RetriedKeepResults,
     SyncsScheduleReported, PTL
  DEF Spec, SyncSchedulesReported, FirstBuildIsScheduled

-----------------------------------------------------------------------------
(* The result on show.  The run reset shows that a request resets another  *)
(* result than the one on show when reports arrive out of order; if they   *)
(* arrive in the order in which the builds ended, the two are the same.    *)
LatestIsShown == \A i \in Inputs : rebuilds[i].same /\ rebuilds[i].shown = rebuilds[i].newest

LEMMA LatestStaysShown ==
  ASSUME ~BuiltAtSkew
  PROVE  Inv /\ LatestIsShown /\ [Next]_vars => LatestIsShown'
<1> SUFFICES ASSUME Inv, LatestIsShown, [Next]_vars PROVE LatestIsShown'
  OBVIOUS
<1>0. DatabaseTypeOK /\ PackageApiTypeOK /\ QueueApiTypeOK /\ rebuilds \in [Inputs -> RebuildView]
  BY DEF Inv, TypeOK, DatabaseTypeOK
<1>1. CASE rebuilds' = rebuilds
  BY <1>1 DEF LatestIsShown
<1>2. ASSUME NEW t \in Threads, NEW f \in Inputs, NEW inOrder \in BuiltAtOrders,
             RecordResult(t, f, inOrder)
      PROVE  LatestIsShown'
  <2>1. rebuilds' = [rebuilds EXCEPT ![f] =
          [newest |-> reports[t].status, shown |-> reports[t].status, same |-> TRUE]]
    BY <1>2 DEF RecordResult, Insert, BuiltAtOrders
  <2>2. QED  BY <1>0, <2>1 DEF LatestIsShown
<1>3. ASSUME NEW j \in request.todo, ResetInput(j) PROVE LatestIsShown'
  BY <1>0, <1>3 DEF ResetInput, ResetNewest, LatestIsShown, RebuildView, QueueApiTypeOK
<1>4. ASSUME NEW j \in sync.todo, ImportPackage(j) PROVE LatestIsShown'
  <2>1. j \in Inputs
    BY <1>0 DEF PackageApiTypeOK
  <2>2. PICK f \in Inputs : CopyExistingRebuilds(j) = rebuilds[f]
    BY <1>0, <2>1, CopiesAreOfInputs
  <2>3. rebuilds' = [rebuilds EXCEPT ![j] = rebuilds[f]] \/ rebuilds' = rebuilds
    BY <1>4, <2>2 DEF ImportPackage
  <2>4. QED  BY <1>0, <2>1, <2>3 DEF LatestIsShown
<1>5. QED  BY <1>1, <1>2, <1>3, <1>4, ResultsCome

(* As long as no report arrives after one of a later build, a reset makes  *)
(* the package appear as UNKWN at once.                                    *)
THEOREM ResetsShowUnknown ==
  ASSUME ~BuiltAtSkew
  PROVE  Spec => ResetShowsUnknown
<1>1. Init => LatestIsShown
  BY DEF Init, DatabaseInit, NoRebuild, LatestIsShown
<1>2. ASSUME Inv, LatestIsShown, NEW i \in request.todo, request.reset, ResetInput(i)
      PROVE  CurrentStatus(rebuilds[i])' = "UNKWN"
  <2>1. i \in Inputs /\ rebuilds \in [Inputs -> RebuildView]
    BY <1>2 DEF Inv, TypeOK, QueueApiTypeOK, DatabaseTypeOK
  <2>2. rebuilds'[i] = ResetNewest(rebuilds[i])
    BY <1>2, <2>1 DEF ResetInput
  <2>3. ResetNewest(rebuilds[i]).shown \in {"NULL", "none"}
    BY <1>2, <2>1 DEF ResetNewest, NoRebuild, LatestIsShown, RebuildView
  <2>4. QED  BY <2>2, <2>3 DEF CurrentStatus, Outcomes
<1>3. Inv /\ LatestIsShown /\ [Next]_vars =>
        [\A i \in request.todo :
           request.reset /\ ResetInput(i) => CurrentStatus(rebuilds[i])' = "UNKWN"]_vars
  BY <1>2
<1>4. QED  BY <1>1, <1>3, InvHolds, LatestStaysShown, PTL DEF Spec, ResetShowsUnknown
=============================================================================
