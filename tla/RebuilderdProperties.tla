------------------------ MODULE RebuilderdProperties ------------------------
(***************************************************************************)
(* What the daemon promises about its queue, its leases and its results.   *)
(***************************************************************************)
EXTENDS Rebuilderd

Held(q) == q.worker # None

SameFriends(i, j) == FriendKey[i] = FriendKey[j]

-----------------------------------------------------------------------------
(* Jobs and their holders *)

(* A held job carries the time of its last ping and a free one does not:   *)
(* request_work only gives up jobs whose last_ping is set, so a holder     *)
(* without one would keep its job for ever.                                *)
HeldJobsCanExpire == \A q \in queue : Held(q) <=> q.age # None

(* A job is taken from its holder only after it has been silent for longer *)
(* than PING_DEADLINE, and it is then free before another worker gets it.  *)
LeaseRespected ==
  [][\A q \in queue, r \in queue' :
       r.id = q.id /\ Held(q) /\ r.worker # q.worker
         => r.worker = None /\ Stale(q)]_vars

(* A worker that gets a row in table workers holds no job yet: its id is   *)
(* new (AUTOINCREMENT), even when it or another worker was deleted while   *)
(* it held one.  So it never pings a job that it does not build.           *)
NewWorkersHoldNothing ==
  [][\A w \in Workers, q \in queue :
       registry[w] = None /\ registry'[w] # None => q.worker # registry'[w]]_vars

(* Whatever happened to the queue since a worker took its job, its report  *)
(* is recorded for the input that it built and for friends of that input:  *)
(* the id in the report never names another package's job.                 *)
ReportsMatchBuilds ==
  /\ \A w \in Workers, q \in queue :
       worker[w].pc = "building" /\ q.id = worker[w].qid => q.input = worker[w].input
  /\ \A t \in Threads, q \in queue :
       ~At(t, "idle") /\ q.id = reports[t].qid => q.input = reports[t].built
  /\ \A t \in Threads : \A f \in reports[t].todo : SameFriends(f, reports[t].built)

(* Table queue implements the leases of jobs: every statement of every     *)
(* handler that touches it, interleaved in any way, is one step of         *)
(* JobLeases or changes nothing there.  One job per package at a time, no  *)
(* id given twice, one holder at a time, no ping that revives a lost       *)
(* lease.                                                                  *)
JobOf(q) == [id |-> q.id, package |-> q.input, holder |-> q.worker, silence |-> q.age]

Leases == INSTANCE JobLeases WITH
  Packages <- Inputs,
  Deadline <- PingDeadline,
  jobs     <- {JobOf(q) : q \in queue},
  issued   <- nextQueueId - 1,
  admitted <- nextWorkerId - 1

QueueImplementsLeases == Leases!Spec

-----------------------------------------------------------------------------
(* Scheduling *)

Reproduced(i) == CurrentStatus(rebuilds[i]) = "GOOD"
GivenUp(i) == FriendsExhausted(Known, i)

(* Some handler has read the row of a friend's job, or is about to insert  *)
(* it, and has not finished.                                               *)
InProgress(i) ==
  \/ \E t \in Threads : reports[t].input # None /\ SameFriends(i, reports[t].input)
  \/ request.input # None /\ SameFriends(i, request.input)
  \/ i \in sync.todo

Scheduled(i) == Reproduced(i) \/ GivenUp(i) \/ QueuedFriend(Known, i) \/ InProgress(i)

(* A known package that is not reproduced stays scheduled until its        *)
(* retries are used up.  There are four exceptions: the administrator      *)
(* drops its job; a handler fails half-way, or the daemon stops; a sync    *)
(* drops the job of a friend that it has not seen; and a Good report takes *)
(* the job out of the queue although the package does not show its result, *)
(* because it became a friend after the report had read the friends, or    *)
(* because of the result of another report: on an earlier job, or with a   *)
(* later built_at.                                                         *)
ReportLeavesOut(i) ==
  \E t \in Threads : reports[t].status = "GOOD" /\ DequeueJob(t) /\ ~Reproduced(i)

Excused(i) ==
  \/ DropJobs
  \/ AbandonRequest \/ \E t \in Threads : AbandonReport(t)
  \/ \E q \in queue : Unwanted(q) /\ CommitSync /\ SameFriends(i, q.input)
  \/ ReportLeavesOut(i)

StaysScheduled ==
  [][\A i \in Known : Scheduled(i) => Scheduled(i)' \/ Excused(i)]_vars

(* A job that no administrator asked for is only in the queue while the    *)
(* retries of its package last: "bail if we have a max retry count set and *)
(* requeueing this package would exceed it".  A report that has counted a  *)
(* retry has until its end to drop the jobs of the friends.                *)
Counting(i) ==
  \E t \in Threads : /\ reports[t].pc \in {"largest", "mark", "clear", "unqueue"}
                     /\ SameFriends(i, reports[t].input)

RetryLimitHolds ==
  \A q \in queue : q.priority # Manual => ~GivenUp(q.input) \/ Counting(q.input)

-----------------------------------------------------------------------------
(* Syncs *)

(* "Jobs that have already been picked up by a worker are unaffected": no  *)
(* step of a sync drops or changes a held job, although it may mark the    *)
(* friends of a package as non-retriable and drop their jobs.              *)
SyncKeepsHeldJobs ==
  [][sync.active => \A q \in queue : Held(q) => q \in queue']_vars

(* When a sync commits, every package it reported is reproduced, past its  *)
(* retries, or has a job of its own or of a friend; unless it relied on    *)
(* the job of a friend in the same scope that this sync did not report.    *)
SyncSchedulesReported ==
  [][CommitSync => \A i \in sync.reported :
       \/ Reproduced(i) \/ GivenUp(i)
       \/ QueuedFriend(Known, i)'
       \/ \E q \in queue : Unwanted(q) /\ SameFriends(i, q.input)]_vars

(* A sync that reports a package which was never built schedules its first *)
(* build, whatever the limit on retries: max_retries is documented as "the *)
(* maximum number of times an unreproducible package will be retried (0 to *)
(* N)".                                                                    *)
FirstBuildIsScheduled ==
  [][\A i \in sync.reported :
       CommitSync /\ rebuilds[i] = NoRebuild => QueuedFriend(Known, i)']_vars

-----------------------------------------------------------------------------
(* Results *)

(* "Reset the latest rebuild's status ... so the package immediately       *)
(* appears as UNKWN rather than retaining the old result."                 *)
ResetShowsUnknown ==
  [][\A i \in request.todo :
       request.reset /\ ResetInput(i) => CurrentStatus(rebuilds[i])' = "UNKWN"]_vars

(* "This base is multiplied with the number of rebuilds, so the first      *)
(* retry would happen after 24h": a package that has failed once is due    *)
(* one retry_delay_base after its report.                                  *)
FirstRetryAfterBase ==
  [][\A t \in Threads :
       SetNextRetry(t) /\ reports[t].largest = 1 => delay'[reports[t].input] = RetryDelay]_vars

-----------------------------------------------------------------------------
(* Progress *)

(* A job whose worker died, or lost the answer of request_work, goes back  *)
(* to the queue or is done: no job stays with its holder for ever.         *)
HeldJobIsReleased ==
  \A n \in 1 .. MaxQueueId :
    (\E q \in queue : q.id = n /\ Held(q)) ~> ~(\E q \in queue : q.id = n /\ Held(q))

(* The syncs go on, and from some point on each sync of the package's      *)
(* scope reports it.                                                       *)
GoesOnReported(i) ==
  /\ []<>(i \in sync.reported)
  /\ <>[](sync.scope = ScopeOf[i] => i \in sync.reported)

(* A package that the syncs go on reporting is reproduced in the end, or   *)
(* its retries are used up, whatever becomes of single builds and workers, *)
(* of a report that is handled only half-way, and of its job when a sync   *)
(* leaves it out for a while.                                              *)
PackageSettles ==
  \A i \in Inputs : GoesOnReported(i) => []<>(Reproduced(i) \/ GivenUp(i))
=============================================================================
