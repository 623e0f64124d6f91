--------------------------- MODULE JobLeasesProofs ---------------------------
(***************************************************************************)
(* Table queue implements JobLeases, for every instance of the system.     *)
(* The kinds of step that RebuilderdProofs sorts the handlers into         *)
(* (QueueStep, RegistryStep) each map to one step of JobLeases.            *)
(***************************************************************************)
EXTENDS RebuilderdProofs

(* What the steps below use of the invariant.                              *)
RowsInOrder ==
  /\ nextQueueId \in Nat \ {0}
  /\ queue \subseteq QueueRow
  /\ IssuedIds
  /\ HeldJobsCanExpire

(* Rows with the same job are the same row. *)
LEMMA JobsAreRows ==
  ASSUME RowsInOrder, NEW q \in queue, NEW r \in queue, JobOf(q) = JobOf(r)
  PROVE  q = r
BY DEF RowsInOrder, IssuedIds, JobOf

(* When each row becomes what g makes of its job, so do the jobs.          *)
LEMMA JobsAreMapped ==
  ASSUME NEW f, NEW g,
         queue' = {f[q] : q \in queue},
         \A q \in queue : JobOf(f[q]) = g[JobOf(q)]
  PROVE  {JobOf(q) : q \in queue}' = {g[j] : j \in {JobOf(q) : q \in queue}}
<1> DEFINE jobs == {JobOf(q) : q \in queue}
           new  == {JobOf(r) : r \in queue'}
<1>1. {JobOf(q) : q \in queue}' = new
  BY DEF JobOf
<1>2. ASSUME NEW j \in new PROVE j \in {g[k] : k \in jobs}
  <2>1. PICK r \in queue' : j = JobOf(r)
    OBVIOUS
  <2>2. PICK q \in queue : r = f[q]
    OBVIOUS
  <2>3. j = g[JobOf(q)]
    BY <2>1, <2>2, Zenon
  <2>4. QED  BY <2>3
<1>3. ASSUME NEW k \in jobs PROVE g[k] \in new
  <2>1. PICK q \in queue : k = JobOf(q)
    OBVIOUS
  <2>2. g[k] = JobOf(f[q]) /\ f[q] \in queue'
    BY <2>1, Zenon
  <2>3. QED  BY <2>2
<1> HIDE DEF new, jobs
<1>4. new = {g[k] : k \in jobs}
  BY <1>2, <1>3
<1>5. QED  BY <1>1, <1>4 DEF jobs

(* A job that is done or dropped. *)
LEMMA ClosesJobs ==
  ASSUME queue' \subseteq queue, UNCHANGED nextQueueId
  PROVE  Leases!Close
BY DEF Leases!Close, JobOf

(* A new job takes the next id; a job that is there only changes priority. *)
LEMMA OffersJob ==
  ASSUME RowsInOrder, NEW i \in Inputs, NEW p \in Priorities, Upsert(i, p)
  PROVE  Leases!Close \/ Leases!Offer(i)
<1>1. CASE Queued(i)
  <2> DEFINE f == [q \in queue |-> IF q.input = i THEN [q EXCEPT !.priority = p] ELSE q]
             g == [j \in {JobOf(q) : q \in queue} |-> j]
  <2>1. queue' = {f[q] : q \in queue} /\ UNCHANGED nextQueueId
    BY <1>1 DEF Upsert
  <2>2. ASSUME NEW q \in queue PROVE JobOf(f[q]) = g[JobOf(q)]
    <3>1. q \in QueueRow
      BY DEF RowsInOrder
    <3>2. QED  BY <3>1 DEF JobOf, QueueRow
  <2> HIDE DEF f, g
  <2>3. {JobOf(q) : q \in queue}' = {g[j] : j \in {JobOf(q) : q \in queue}}
    BY <2>1, <2>2, JobsAreMapped
  <2>4. {JobOf(q) : q \in queue}' = {JobOf(q) : q \in queue}
    BY <2>3 DEF g
  <2>5. QED  BY <2>1, <2>4 DEF Leases!Close
<1>2. CASE ~Queued(i)
  <2> DEFINE row == [id |-> nextQueueId, input |-> i, priority |-> p, worker |-> None, age |-> None]
  <2>1. queue' = queue \cup {row} /\ nextQueueId' = nextQueueId + 1
    BY <1>2 DEF Upsert
  <2>2. {JobOf(q) : q \in queue}' = {JobOf(q) : q \in queue} \cup {JobOf(row)}
    BY <2>1 DEF JobOf
  <2>3. JobOf(row) = [id |-> (nextQueueId - 1) + 1, package |-> i, holder |-> None, silence |-> None]
    BY DEF JobOf, RowsInOrder
  <2>4. \A j \in {JobOf(q) : q \in queue} : j.package # i
    BY <1>2 DEF JobOf, Queued
  <2>5. (nextQueueId - 1)' = (nextQueueId - 1) + 1
    BY <2>1 DEF RowsInOrder
  <2> HIDE DEF row
  <2>6. QED  BY <2>2, <2>3, <2>4, <2>5 DEF Leases!Offer
<1>3. QED  BY <1>1, <1>2

(* request_work frees the jobs of silent holders.                          *)
LEMMA ExpiresJobs ==
  ASSUME RowsInOrder, ClearStaleJobs, UNCHANGED nextQueueId
  PROVE  Leases!Expire
<1> DEFINE f == [q \in queue |-> IF Stale(q) THEN [q EXCEPT !.worker = None, !.age = None] ELSE q]
           g == [j \in {JobOf(q) : q \in queue} |->
                   IF Leases!Expired(j) THEN [j EXCEPT !.holder = None, !.silence = None] ELSE j]
<1>1. queue' = {f[q] : q \in queue}
  BY DEF ClearStaleJobs
<1>2. ASSUME NEW q \in queue PROVE JobOf(f[q]) = g[JobOf(q)]
  <2>1. q \in QueueRow /\ (q.worker # None <=> q.age # None)
    BY DEF RowsInOrder, HeldJobsCanExpire, Held
  <2>2. Stale(q) <=> Leases!Expired(JobOf(q))
    BY <2>1 DEF Stale, Leases!Expired, Leases!Free, JobOf
  <2>3. JobOf(f[q]) = IF Stale(q) THEN [JobOf(q) EXCEPT !.holder = None, !.silence = None] ELSE JobOf(q)
    BY <2>1 DEF JobOf, QueueRow
  <2>4. QED  BY <2>2, <2>3
<1> HIDE DEF f, g
<1>3. {JobOf(q) : q \in queue}' = {g[j] : j \in {JobOf(q) : q \in queue}}
  BY <1>1, <1>2, JobsAreMapped
<1>4. QED  BY <1>3 DEF g, Leases!Expire

(* request_work hands a free job to a worker that it knows.                *)
LEMMA GrantsJob ==
  ASSUME RowsInOrder, NEW w \in Workers, NEW q \in queue, PopJob(w, q)
  PROVE  Leases!Grant(JobOf(q), registry[w])
<1> DEFINE held == [q EXCEPT !.worker = registry[w], !.age = 0]
<1>1. queue' = (queue \ {q}) \cup {held} /\ q.worker = None /\ nextQueueId' = nextQueueId
  BY DEF PopJob, FirstInLine, Eligible
<1>2. JobOf(held) = [id |-> JobOf(q).id, package |-> JobOf(q).package,
                      holder |-> registry[w], silence |-> 0]
  <2>1. q \in QueueRow
    BY DEF RowsInOrder
  <2>2. QED  BY <2>1 DEF JobOf, QueueRow
<1> HIDE DEF held
<1>3. {JobOf(r) : r \in queue}' = {JobOf(r) : r \in queue \ {q}} \cup {JobOf(held)}
  BY <1>1 DEF JobOf
<1>4. {JobOf(r) : r \in queue \ {q}} = {JobOf(r) : r \in queue} \ {JobOf(q)}
  BY JobsAreRows
<1>5. JobOf(q).holder = None
  BY <1>1 DEF JobOf
<1>6. QED  BY <1>1, <1>2, <1>3, <1>4, <1>5 DEF Leases!Grant, Leases!Free

(* A ping renews the lease of its sender's job, or changes nothing.        *)
LEMMA RenewsJob ==
  ASSUME RowsInOrder, NEW w \in Workers, NEW id \in Nat, registry'[w] # None, PingJob(w, id)
  PROVE  Leases!Close \/ \E q \in queue : Leases!Renew(JobOf(q))
<1> DEFINE pinged(q) == q.id = id /\ q.worker = registry'[w]
<1>1. /\ queue' = {IF pinged(q) THEN [q EXCEPT !.age = 0] ELSE q : q \in queue}
      /\ nextQueueId' = nextQueueId
  BY DEF PingJob
<1>2. CASE \A q \in queue : ~pinged(q)
  <2>1. queue' = queue
    BY <1>1, <1>2
  <2>2. QED  BY <1>1, <2>1, ClosesJobs
<1>3. ASSUME NEW q \in queue, pinged(q) PROVE Leases!Renew(JobOf(q))
  <2> DEFINE kept == [q EXCEPT !.age = 0]
  <2>1. \A r \in queue : pinged(r) => r = q
    BY <1>3 DEF RowsInOrder, IssuedIds
  <2>2. queue' = (queue \ {q}) \cup {kept}
    BY <1>1, <1>3, <2>1
  <2>3. JobOf(kept) = [JobOf(q) EXCEPT !.silence = 0]
    BY DEF RowsInOrder, QueueRow, JobOf
  <2> HIDE DEF kept
  <2>4. {JobOf(r) : r \in queue}' = {JobOf(r) : r \in queue \ {q}} \cup {JobOf(kept)}
    BY <2>2 DEF JobOf
  <2>5. {JobOf(r) : r \in queue \ {q}} = {JobOf(r) : r \in queue} \ {JobOf(q)}
    BY JobsAreRows
  <2>6. JobOf(q).holder # None
    BY <1>3 DEF JobOf
  <2>7. QED  BY <1>1, <2>3, <2>4, <2>5, <2>6 DEF Leases!Renew, Leases!Free
<1>4. QED  BY <1>2, <1>3

(* Time passes for the holders of jobs. *)
LEMMA WaitsForJobs ==
  ASSUME RowsInOrder, Elapse
  PROVE  Leases!Wait
<1> DEFINE f == [q \in queue |-> Older(q)]
           g == [j \in {JobOf(q) : q \in queue} |->
                   IF Leases!Waiting(j) THEN [j EXCEPT !.silence = j.silence + 1] ELSE j]
<1>1. queue' = {f[q] : q \in queue} /\ nextQueueId' = nextQueueId
  BY DEF Elapse
<1>2. ASSUME NEW q \in queue PROVE JobOf(f[q]) = g[JobOf(q)]
  <2>1. q \in QueueRow /\ (q.worker # None <=> q.age # None)
    BY DEF RowsInOrder, HeldJobsCanExpire, Held
  <2>2. (q.age = None \/ q.age = PingDeadline + 1) <=> ~Leases!Waiting(JobOf(q))
    <3>1. q.age # None => q.age \in 0 .. PingDeadline + 1
      BY <2>1 DEF QueueRow
    <3>2. JobOf(q).holder = q.worker /\ JobOf(q).silence = q.age
      BY DEF JobOf
    <3>3. QED  BY <2>1, <3>1, <3>2, TimeAssumption DEF Leases!Waiting, Leases!Free
  <2>3. JobOf(f[q]) = IF q.age = None \/ q.age = PingDeadline + 1 THEN JobOf(q)
                      ELSE [JobOf(q) EXCEPT !.silence = q.age + 1]
    BY <2>1 DEF Older, JobOf, QueueRow
  <2>4. JobOf(q).silence = q.age
    BY DEF JobOf
  <2>5. QED  BY <2>2, <2>3, <2>4
<1> HIDE DEF f, g
<1>3. {JobOf(q) : q \in queue}' = {g[j] : j \in {JobOf(q) : q \in queue}}
  BY <1>1, <1>2, JobsAreMapped
<1>4. QED  BY <1>1, <1>3 DEF g, Leases!Wait

(* Workers are admitted one at a time. *)
LEMMA AdmitsWorkers ==
  ASSUME TypeOK, RegistryStep
  PROVE  Leases!Admit
<1>1. nextWorkerId \in Nat
  BY DEF TypeOK, DatabaseTypeOK
<1>2. nextWorkerId' = nextWorkerId \/ nextWorkerId' = nextWorkerId + 1
  BY DEF RegistryStep, workerRows, UpsertWorker, UnregisterWorker
<1>3. nextWorkerId' - 1 = nextWorkerId - 1 \/ nextWorkerId' - 1 = (nextWorkerId - 1) + 1
  BY <1>1, <1>2
<1>4. QED  BY <1>3 DEF Leases!Admit

-----------------------------------------------------------------------------
(* Every step of the daemon, its workers and its administrator is a step   *)
(* of the leases.                                                          *)
LEMMA StepsAreLeaseSteps == Inv /\ [Next]_vars => Leases!Next
<1> SUFFICES ASSUME Inv, [Next]_vars PROVE Leases!Next
  OBVIOUS
<1>1. RowsInOrder /\ TypeOK
  BY DEF Inv, TypeOK, DatabaseTypeOK, RowsInOrder
<1>2. QueueStep /\ RegistryStep
  BY NextSteps
<1>3. Leases!Admit
  BY <1>1, <1>2, AdmitsWorkers
<1>4. ASSUME NEW w \in Workers, NEW q \in queue, registry[w] # None, PopJob(w, q)
      PROVE  \E j \in {JobOf(r) : r \in queue}, h \in 1 .. nextWorkerId - 1 : Leases!Grant(j, h)
  <2>1. registry[w] \in Nat \ {0} /\ registry[w] < nextWorkerId /\ nextWorkerId \in Nat
    BY <1>4 DEF Inv, TypeOK, DatabaseTypeOK, HoldersIssued
  <2>2. registry[w] \in 1 .. nextWorkerId - 1
    BY <2>1
  <2>3. QED  BY <1>1, <1>4, <2>2, GrantsJob
<1>5. ASSUME NEW w \in Workers, NEW id \in Nat, registry'[w] # None, PingJob(w, id)
      PROVE  Leases!Close \/ \E j \in {JobOf(r) : r \in queue} : Leases!Renew(j)
  BY <1>1, <1>5, RenewsJob
<1>6. CASE queue' \subseteq queue /\ UNCHANGED nextQueueId
  BY <1>3, <1>6, ClosesJobs DEF Leases!Next
<1>7. CASE ClearStaleJobs /\ UNCHANGED nextQueueId
  BY <1>1, <1>3, <1>7, ExpiresJobs DEF Leases!Next
<1>8. CASE \E i \in Inputs, p \in Priorities : Upsert(i, p)
  BY <1>1, <1>3, <1>8, OffersJob DEF Leases!Next
<1>9. CASE Elapse
  BY <1>1, <1>3, <1>9, WaitsForJobs DEF Leases!Next
<1>10. CASE \E w \in Workers, q \in queue : registry[w] # None /\ PopJob(w, q)
  BY <1>3, <1>4, <1>10 DEF Leases!Next
<1>11. CASE \E w \in Workers, id \in Nat : registry'[w] # None /\ PingJob(w, id)
  BY <1>3, <1>5, <1>11 DEF Leases!Next
<1>12. QED
  BY <1>2, <1>6, <1>7, <1>8, <1>9, <1>10, <1>11 DEF QueueStep

(* The daemon implements the leases of its jobs: what JobLeases says of    *)
(* ids, holders and silence holds of table queue under every interleaving  *)
(* of the handlers.                                                        *)
THEOREM QueueIsLeased == Spec => QueueImplementsLeases
<1>1. Init => Leases!Init
  BY DEF Init, DatabaseInit, Leases!Init
<1>2. Inv /\ [Next]_vars => [Leases!Next]_Leases!leaseVars
  BY StepsAreLeaseSteps
<1>3. QED  BY <1>1, <1>2, InvHolds, PTL DEF Spec, QueueImplementsLeases, Leases!Spec
=============================================================================
