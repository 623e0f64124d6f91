# rebuilderd in TLA+

rebuilderd rebuilds the packages of Linux and BSD distributions on machines of
its own and reports whether the result is bit for bit what the distribution
published. A *daemon* keeps the packages, their results and a build queue in
one SQLite database and serves an HTTP API; *rebuilderd-worker* processes poll
it for jobs, ping while they build and report what they found; the
administrator's *rebuildctl* tells the daemon which packages a distribution
currently has (a *sync*), asks for rebuilds, drops jobs and compares results
with those of other rebuilders (*peers*).

The program is mostly short request handlers, and what makes it hard is that
few of them run in a transaction. The report of a build alone is a dozen
statements, any of which may be the last one before a failure or a restart, and
between any two of which another report, a poll, a ping, a sync or the
administrator may write the rows it has just read. Around the daemon the hard
parts are of another kind: children that ignore signals, lists that change
between two pages, mirrors that change between two downloads, background checks
that outlive what they read. These modules model all of that.

## 1. Inventory

| Component | State | Operations | Hard behaviour | What makes it correct |
|---|---|---|---|---|
| Scheduling database (`daemon/src/models`, `migrations`, `api/v1/util/friends.rs`) | `source_packages`, `build_inputs`, `rebuilds`, `queue`, `workers` | upserts, deletes, the *friends* queries | AUTOINCREMENT ids, upserts that replace some columns only | ids are never given again; one queue row per input |
| Worker registry, authentication (`api/v1/worker.rs`, `util/auth.rs`) | `workers` | register, unregister, authenticate | a worker deleted while it holds a job | a new worker holds nothing |
| Queue API (`api/v1/queue.rs`) | `queue`, `build_inputs.next_retry`, `rebuilds.status` | pop, ping, request rebuild, drop | leases that expire, late pings, lost answers, half-done requests | a live lease is respected, a dead one ends |
| Build report API (`api/v1/build.rs`) | all of the above | submit a report; sign attestations on a GET | no transaction, late and concurrent reports, lists read early and used late | results go to the package that was built; a package stays scheduled; the retry limit |
| Package sync API (`api/v1/package.rs`) | all of the above, `binary_packages` | import a report of one scope; list packages | one long transaction; friends across scopes; sources shared by architectures | everything reported is scheduled; held jobs are left alone; a report hides only what is in its scope |
| Worker loop (`worker/src/main.rs`, `heartbeat.rs`) | its current job | poll, build, ping, report | lost requests, restarts, builds longer than the lease | every job is released or done |
| Worker build execution (`worker/src/rebuild.rs`, `proc.rs`, `diffoscope.rs`, `download.rs`) | child process, log, files of the build | download, run the backend, compare, attest, run diffoscope | timeout, size limit, SIGTERM then SIGKILL, pipes that outlive the child, pings that block the build | bounded log, bounded time, GOOD only if equal, every build is reported |
| Peer comparison (`api/v1/peers.rs`) | `peer_rebuilders`, `peer_sha256_checks` | register peers, background check, lookup | background tasks that race with each other and with deletes | verdicts belong to the peer they were computed from, and settle |
| Statistics, dashboard (`api/v1/stats.rs`, `dashboard.rs`, `stats_config.rs`) | `stats_snapshots`, `stats_categories` | collect, list | counts read by separate statements | the counts add up |
| Attestations (`attestation.rs`, `build.rs`) | `attestation_logs`, the daemon's key | sign if necessary | a GET that writes back what it read | no signature is lost |
| Listings (`util/pagination.rs`, `filters.rs`, `meta.rs`) | none | paged queries | a cursor whose row is gone | every row is listed once |
| rebuildctl (`tools/src/main.rs`) | none | sync, ls, requeue, drop, peers check | requeue is a drop and three requests; loops over pages | its lists are complete and end |
| Sync schedulers (`tools/src/schedule`) | none | read the indexes of five distributions, group binaries into sources | mirrors that change or fail between two files; optional indexes | one build input per source, architecture and version; nothing is hidden that was not looked for |
| API v0 (`api/v0`) | none | read-only views | - | it signs nothing |
| Start-up, configuration, migrations, shared client (`daemon/src/main.rs`, `lib.rs`, `common/src`) | configuration | - | - | - |

How they meet: workers and rebuildctl call the daemon over HTTP; the handlers
share nothing but the database, and each request takes a connection from a pool
and runs on a thread of its own. Two inputs are *friends* if they share url,
backend and architecture: they are the same build imported into several
releases or components, one job serves all of them, and its result is recorded
for each. Almost every hard case of the scheduling involves friends.

The hazards of this code, each at its line, are listed in `PROJECT.json` with
the properties that would notice them.

## 2. The modules

    The scheduling of builds

    Database --+-- WorkerApi -- QueueApi --+
               +-- BuildApi ---------------+-- Rebuilderd -- RebuilderdProperties -+- MCLease, MCReports,
               +-- PackageApi -------------+                        |              |  MCSync, MCProgress
                                                        JobLeases (INSTANCE)       +- RebuilderdProofs
                                                                                       |    +- SchedulingProofs
                                                                                       +- JobLeasesProofs
    One build of a worker

    ProcCapture -- BuildExecution -- WorkerProperties -+- MCWorker
                                                       +- WorkerProofs
    The peers

    Peers -- PeersProperties -+- MCPeers
                              +- PeersProofs
    What other clients see

    Options -+- Schedulers --- SchedulersProperties -+- MCSchedulers -------+
             |                                       +- SchedulersProofs    |
             +- Listings ----- ListingsProperties ---+- MCListings ---------+- MCClients
             |                                       +- ViewsProofs         |
             +- Statistics --- StatisticsProperties -+- MCStatistics -------+
             +- Attestations - AttestationsProperties +---------------------+
                                                     +- AttestationsProofs

* **Database** holds the tables as variables and the statements more than one
  handler uses: `Upsert` (`NewQueued::upsert`), `Friends`, `LargestRetries`,
  `Insert` (a rebuilds row), `Elapse` (time).
* **WorkerApi** is `auth::worker`, `register_worker` and `unregister_worker`.
* **QueueApi** is `request_work` (`RequestWork` clears stale jobs, `PopJob` is
  the transaction after it), `ping_job`, `request_rebuild` as a loop of three
  statements per input, `drop_queued_jobs` and `drop_queued_job`.
* **BuildApi** is `submit_rebuild_report`. `reports[t]` is the program counter
  and the locals of one handler; each action is one statement that writes, or
  one that reads what a later statement relies on.
* **PackageApi** is `submit_package_report` as the scheduling sees it. Its
  transaction starts with a write, so no other handler writes, or reads what it
  wrote, until it commits: while `sync.active` holds only sync steps are taken.
  The packages of the report are taken in any order.
* **Rebuilderd** adds the worker processes and rebuildctl, and is the whole
  scheduling system: `Next` has a disjunct for every modelled route and every
  worker step.
* **JobLeases** is the abstract specification of the queue: jobs with ids of
  their own, each leased to one holder who keeps it while it is heard of. It
  knows no tables, handlers, workers or friends. `RebuilderdProperties` states
  that the system implements it (`QueueImplementsLeases`).
* **ProcCapture** is `proc.rs`: the loop that reads two pipes, sleeps, times
  out, sends SIGTERM and SIGKILL and reaps; and the child, which does what it
  likes.
* **BuildExecution** is `rebuild.rs` with the downloads, the backend, the
  comparison, the custom diff script, diffoscope and in-toto, and beside it
  `rebuild_with_heartbeat`: the build is only polled while no ping is awaited.
* **Peers** is `peers.rs`: registration with each request, the background check
  in its four stages (read the peers, fetch their lists, compare, replace the
  verdicts in one transaction), and the three ways a verdict is shown.
* **Schedulers** is `tools/src/schedule` with the loop of `pkgs sync`: the order
  of requests, what is skipped and what aborts, how packages are matched to
  sources, grouped and given a build input, for Debian, Fedora, Arch Linux,
  FreeBSD and Tails; and `Import`, which is the daemon's side of it for
  `binary_packages`.
* **Listings** is `pagination.rs` and `filters.rs` under the handlers of the
  lists of binary packages and of jobs, with the reading loops of `pkgs ls`,
  `queue ls` and of the peer check, and everything that changes the tables
  between two pages.
* **Statistics** is `get_dashboard` and `collect_stats`, one action per
  statement, and the changes between two of them.
* **Attestations** is `attestation.rs`, the GET that signs, API v0's GET that
  does not, and the daemon's key with restarts and replacements.
* The **...Properties** modules state the properties, the **...Proofs** modules
  prove those that section 5 lists, and the **MC** modules give small instances.

Operators marked *Fault* are variants of a definition that follows them, each
with a plausible mistake in it; `PROJECT.json` pairs them with the property
that notices the mistake, and the specifications do not use them.

### How state corresponds to the code

| Variable | In the code |
|---|---|
| `rowid` | `build_inputs.id`, 0 before the input is imported. Only its order matters (friends are ordered by id). Rows are never deleted by the program. |
| `seen` | `source_packages.seen_in_last_sync` |
| `retries` | `build_inputs.retries` |
| `delay` | `build_inputs.next_retry` minus now, 0 if past or NULL: the code only asks whether it is past |
| `rebuilds` | the two views the queries take of table `rebuilds`: the status of the row with the largest id (`newest`), that of the row with the latest `built_at` (`shown`), and whether they are the same row |
| `queue`, `nextQueueId` | table `queue` and its AUTOINCREMENT counter; `age` is now minus `last_ping`, up to one past the deadline |
| `registry`, `nextWorkerId` | `workers.id` by key, and its counter |
| `request` | the handler of `POST /queue` in progress, if any |
| `reports` | the handlers of `POST /builds` in progress |
| `sync` (PackageApi) | the transaction of `POST /packages/source`, if any |
| `worker` | each worker process: idle, waiting for a job, or building job `qid` for `input` |
| `run` | the task in `proc::run` with its `Capture`: time since the start, the time to sleep until, when SIGTERM was sent, the length of the log, the pipes that are still read |
| `child` | the process: is it alive, was it killed, which pipes does it or one of its children hold |
| `job`, `build` | the job with the backend's configuration; the place in `rebuild()`, the files in `inputs/` and `out/`, the results so far |
| `beat` | is a ping awaited, and the time since the last one |
| `local`, `remote` | the status of each package here, and at each peer by release |
| `peers`, `nextPeerId`, `verdicts` | `peer_rebuilders` by url, its counter, `peer_sha256_checks` |
| `client`, `task` | runs of `rebuildctl peers check` with the handler of their request; the background checks |
| `mirror`, `sync`, `catalog` (Schedulers) | the indexes on the mirror; the run of rebuildctl with all it has read; `binary_packages` joined with inputs and sources |
| `rows`, `query`, `listing` | one table, what is asked of it, and the client's loop with its cursor |
| `builds`, `listed`, `jobs`, `clock` | what the statistics read; `dashboard`, `collection` are the two handlers, `snapshots` the table they fill |
| `stored`, `logOf`, `keyFile`, `daemon`, `reader` | `attestation_logs`, `rebuild_artifacts.attestation_log_id`, the key on disk and in the process, the GETs in progress; `answer` is a ghost, what a client was given last |

### Abstractions, and why they keep the behaviour

* *Atomic steps.* A statement is atomic (SQLite autocommit). Two statements are
  one step only where no other handler can tell: a row id read and then used to
  update that row (`ResetInput`), ids read and then deleted
  (`DropQueuedJobs`), the friends read just before the maximum over them
  (`CheckRetries`), authentication and the use of its id (a row deleted in
  between may as well be deleted after). In each case what another handler does in between
  could have been done before or after with the same outcome.
* *request_work.* Its transaction is deferred: it reads, then writes. Two of
  them that select one row cannot both take it, for SQLite refuses the second
  one's write (BUSY) and that worker sees an error (`StopWorker`). So `PopJob` is atomic.
* *The write lock.* A statement that waits more than 10 s (`busy_timeout`) for
  a sync fails; that is `AbandonReport`, `AbandonRequest` or `StopWorker`. Reads
  in WAL mode during a sync see the state before it, so they count as before.
* *Crashes.* The database survives a restart of the daemon; handlers do not.
  A restart is `AbandonReport`, `AbandonRequest`, `AbandonPlan`, `AbandonCheck`
  or `StopDaemon` for each of them. A sync that is rolled back never began.
* *Order of jobs.* Jobs of one priority are ordered by the date they were queued on and by
  attributes of the package: any may be first. Priorities other than manual,
  default and retry can be asked for with `--priority`; requests here use manual,
  which is the default of `POST /queue` and of rebuildctl.
* *Logs and artifacts* are written along with the rows of `rebuilds` and never
  read by the scheduling; `Attestations` has the part of them that is read and
  written again later.
* *Access control.* A signup secret and an allow-list are one constant,
  `SignupRequired`: without either, any key gets a row when it first calls.
* *Time.* `Tick` advances the clocks by one; deadlines and delays are a few
  ticks. `built_at` is the clock of the worker at the end of its build and the
  report takes time to arrive, so with `BuiltAtSkew` a row may be inserted whose
  `built_at` is older than that of an earlier row.
* *Children.* A child writes, closes a pipe, leaves pipes to its own children,
  ignores SIGTERM or exits, at any time and in any order. What SIGTERM does is
  therefore not modelled as an effect; SIGKILL ends the child. Bytes of a log are
  counted, not kept; bytes of artifacts are kept, for `compare_files` reads
  them in pieces of any size.
* *The clock of a child* (`Due`) does not pass what the loop is due to do while
  it is polled: a sleep ends within a tick of its time, an end of file, an exit
  and a kill are seen at once. While a ping is awaited nothing is polled and the
  clock runs on, up to the read timeout of the HTTP client. That is the
  assumption behind `RunEndsInTime`.
* *Package indexes* are sequences of entries: parsing them is left out. Names,
  versions and times are numbers in their order. A Debian version is that of the
  source and the number of the binary-only rebuild. What a request for an index
  answers is the mirror at that time; the mirror may change before the next one.
* *Cryptography.* An attestation is the sequence of the ids of the keys that
  signed it.
* *Lists.* A row has the columns that some query sorts by, filters by or shows.
  Rows that are not filtered out locally are asked for page by page, as in the code.
  Between two statements of a report, or of a reset, a package has the status of
  a build without that of its artifact, or the other way round; lists see that.
* *Counts.* What a request changes of an input between two selects of a dashboard
  or a snapshot is one step (`EndBuild`, `AskForRebuild`), for the promises of
  `Statistics` are about inputs that do not change.
* *Filters.* The selections of bulk requests and drops (`queue.rs:115`) are by
  source, scope and status. Further columns, and the join with the binary packages
  that leaves out inputs without any, select fewer inputs in the same way.
* *Unseen packages.* `BeginSync` clears `seen` before the commit. While
  `sync.active` only steps of the sync are taken, and a property that depends on
  `seen` reads it at `CommitSync` (`Unwanted`), never the cleared value before it.

## 3. The runs

| Run | Instance | Checks | States |
|---|---|---|---|
| `lease` | all of `Spec`; 1 input, 2 workers, 1 report handler, deadline 1 tick, 2 retries, 2 queue ids, 3 worker ids, signup | `TypeOK`, `HeldJobsCanExpire`, `NewWorkersHoldNothing`, `LeaseRespected`, `StaysScheduled`, `FirstBuildIsScheduled`, `QueueImplementsLeases` | 857,444 |
| `reports` | 2 friends in 2 scopes, 2 workers, 2 report handlers, 4 queue ids, deadline 0 | `ReportsMatchBuilds`, `StaysScheduled` | 1,459,049 |
| `sync` | 3 inputs: two architectures of one source, two friends in one scope; 1 worker, 1 report handler, bulk requests | `RetryLimitHolds`, `StaysScheduled`, `SyncKeepsHeldJobs`, `SyncSchedulesReported`, `ResetShowsUnknown` | 1,297,815 |
| `progress` | 1 input, 2 workers of which one builds, 1 report abandoned half-way, syncs that may leave the input out, 4 queue ids, fairness | `HeldJobIsReleased`, `PackageSettles` | 36,150 |
| `worker` | four jobs one after the other; timeouts of 1 and 2 ticks, limits of 1 and 2 bytes, delay 2, pings of one tick; fairness | `LogWithinLimit`, `RunEndsInTime`, `GoodMeansReproduced`, `ReportIsComplete`, `BuildEnds` | 282,367 |
| `peers` | 2 peers (one of API v0), 1 package, 2 overlapping checks, 3 peer ids; fairness | `VerdictsBelongToPeer`, `VerdictsSurvive`, `VerdictsSettle` | 118,433 |
| `clients` | syncs of five distributions; lists of up to 4 rows in pages of 2; a dashboard and a snapshot over 2 inputs; 2 artifacts, 2 attestations, 2 daemon keys, 2 readers | the properties of the four client-side modules (below) | 1,405,631 |
| `retry_limit` | as `reports` | `RetryLimitHolds`: violated | - |
| `first_build` | as `sync`, `max_retries = 0` | `FirstBuildIsScheduled`: violated | - |
| `reset` | as `lease`, results out of order | `ResetShowsUnknown`: violated | - |
| `first_retry` | as `lease`, no retry limit | `FirstRetryAfterBase`: violated | - |
| `peer_releases` | one peer, asked for two releases; nothing fails or changes | `DisagreementsAreFlagged`: violated | - |

**lease** takes every action of the scheduling. It shows that a lease that is kept
alive is never taken over, that one that is not always ends up free before it
is handed out again, that deleting workers at the worst moment hands nobody a
job, and that a package leaves the schedule only for one of the reasons in
`Excused`: an administrator drops it, a handler stops half-way, a sync drops an
unseen friend's job, or a Good report that the package does not show. Under the
mapping `JobOf` every step is a step of `JobLeases` or leaves the leases alone.
**reports** has what one input cannot show: two
reports that interleave statement by statement, on one job (the lease expired
and both builders report) or on jobs of two friends. **sync** has what one scope cannot show: a source
shared by two architectures, a friend that is reported while the other is not,
and a bulk request that queues both friends, with a reset of their results or
without. **progress** is the liveness of leases and retries. One worker builds
and may die, go silent or lose its report; the other has no backend for the
package (it is not in `Builders`), so a job it is handed is lost until its lease
ends, and the first may report on a job that the second holds meanwhile. A report
may be abandoned after any of its statements, and a sync may leave the package
out and drop its job. `PackageSettles` says that none of this keeps a package for
ever from being reproduced or given up, as long as syncs go on reporting it.

**worker** has a child that may do anything at any time, and a build that goes
on to the next job. Its jobs have two artifacts of which one is overwritten by a
later download of the same name (`download.rs:35`), a custom diff script,
diffoscope, and no artifacts at all. Byte contents are equal, a prefix, or
different in the second byte, and reads return one or two bytes, so that a
difference lies within a read, at its edge and after the end of one file.
`MaxElapsed` stops the clock of a run after the largest `Deadline` of the
instance, so it hides no late end.

**peers** shows that a verdict stays with the peer it was computed from though
the peer was removed and registered again while the check ran; that failed
and rolled-back checks lose nothing; and that once nothing changes any more the
verdicts become exact, whatever older checks still write (`VerdictsSettle`).

**clients** composes the four client-side modules, which share no state: the
variable `command` says which of them acts.
For *sync*: at the end of a run everything it read is seen (`ListedIsSeen`), and
a package becomes unseen only when an index of its own report was read and did
not list it (`UnseenOnlyIfUnlisted`), however mirrors change and requests fail;
a version of a source keeps its build input (`OneInput`), binary-only rebuilds
are kept apart (`BuildsAreNotMixed`), and no port is committed after it was
built (`CommitPrecedesBuild`). For *list*: every row that stays is shown once
(`ListingShowsOnce`), the loops end (`ListingEnds`), and the daemon's status
filter finds what the list shows (`StatusFiltersFindShown`). For *dashboard*
and *statistics*: every job that does not change is counted in its class
(`DashboardCountsSteady`), and what the counts know is what the categories add up
to, and what no category takes (`CategoriesMatchCounts`). For *attestation*: what a client was given stays
(`AnswersLast`, `SignaturesStay`) and is signed (`AnswersAreSigned`). The
exceptions that the code has are in the properties: Fedora's reports, which name
no release; a Debian architecture whose index could not be read while another
was; a cursor whose row moved; reports out of order.

**Bounds.** `MaxQueueId` and `MaxWorkerId` bound the rows ever inserted; a
handler starts only if the ids it and the running handlers may need are left
(`Spare`, `SpareWorker`, and `SpareIds` for `MaxPeerId`), so that no handler is cut off by a bound. Two to four queue ids
are enough for a job to be handed out, lost, reported, requeued and reported
late under its old id, while another job is in the queue. In `progress`, four ids serve a first job, its retry, the job that a sync makes
after a report was abandoned (`MaxFailures` is one), and one after a sync that
left the package out; such a sync is taken only while there are ids for
what may follow. In `sync` only the scope with friends has reports without packages,
and in `reports` none has. Two retries
distinguish the first failure, the last allowed one and the limit. A deadline of
one tick distinguishes fresh, due and stale; of zero, fresh and stale. The instances of one
input leave out friends, those with friends leave out part of the
administration (each MC module says which): together they take every action.
Three peer ids let a peer come, go and come back while the other stays. Pages of
two over at most four rows give a full page, a short one and an empty one, with
the cursor on either of two rows of one name; `MaxChanges` (three) lets the row
of a cursor move, leave and be replaced. The dashboard has one build
(`BuildCount' <= 1`) and two inputs, each in any class; a snapshot has two
builds of one input, in and out of order, while the other has none. Two mirrors
per distribution are its state before and after the one update that each
scheduler could get wrong (`MCSchedulers` says which).
Workers and report handlers are symmetric where no liveness is checked.

**Deadlock** is checked in every run but `clients`, whose commands end: a worker
can always poll, ping or stop, a build goes on to its report and the next job,
and rebuildctl can always ask for another check.

### The five disagreements

* `retry_limit`: "bail if we have a max retry count set and requeueing this
  package would exceed it" (`build.rs:232`). With two reports on friends at the
  same time, one reads the retry count before the other raises it, and
  requeues its job after the other dropped the jobs of all friends. In run
  `sync`, with one report at a time, the property holds.
* `first_build`: `max_retries` is "the maximum number of times an
  unreproducible package will be retried (0 to N)" (`rebuilderd.conf:52`), but
  with 0 no package is built even once (`package.rs:293`).
* `reset`: a request with `reset` is meant to show the package as UNKWN
  "immediately" (`queue.rs:211`), but resets the result of largest id while the
  result of latest `built_at` is shown.
* `first_retry`: "the first retry would happen after 24h"
  (`rebuilderd.conf:41`); the count is incremented before it is used as
  `retry_count + 1`, so it is 48h (`build.rs:244`).
* `peer_releases`: "Packages whose status disagrees with any peer are flagged"
  (`rebuilderd-v1.yml:933`). `rebuildctl peers check` asks for one check per
  release, but a peer has one row and each check first deletes the verdicts on
  it (`peers.rs:470`): those of all releases but the last are gone.

Four of the five are proved to hold under a condition that names their cause
(section 5): no two reports on friends at once; no limit on retries, or no friends
and a limit other than 0; reports in the order of their builds; one release for
each peer. The runs `sync` and `lease` check the first three under such
conditions. The fifth is an error of arithmetic, and holds under no condition.

## 4. Fairness

**progress.** The worker that builds polls for ever (`run_worker_loop`) and time
passes. A worker that polls again and again in the end gets an answer, and one that
builds again and again delivers a report at times: a build ends because its
process is killed at the timeout. Neither is assumed of any single job: each may be
lost. Nor do its polls always come before the job is free: without this, TLC
shows a worker without a backend that is the first at the job whenever its lease
ends, and nothing in the daemon tells it from a working one. Of that
worker nothing is assumed, and it may stop. A report is handled to its end
but for `MaxFailures` of them, and so is every sync. The conditions on workers,
handlers and the clock are strong because the
write lock of a sync disables these steps now and then, and SQLite's busy handler
retries until the lock is free. The administrator only syncs: one who drops a job
at every opportunity, or a daemon that fails in each report, can prevent
any progress, and no code could help it.
No fairness is assumed of syncs. That they go on, and from some point on always
report the package, is the premise of `PackageSettles` (`GoesOnReported`); it is
needed, for after an abandoned report only a sync brings the job back.

**worker** (`Fairness` in `BuildExecution`). The task makes its next step, and
`proc::run` takes what is ready (`WakeUp`, `Reap`, `ReadEof`); both strongly,
because a ping suspends them now and then and the runtime polls them again after it. A ping ends by
its answer or the client's read timeout, time passes, and a child that got
SIGKILL exits: these are weak, for nothing disables them. Nothing is assumed of
a child that was not killed: it need not write, exit, or close a pipe.

**peers** (`PeersFairness`). Each client and each background check makes steps;
both run on the daemon's runtime and on a command line to their end. Checks are
started again and again, which is the daily timer that calls rebuildctl.

**clients** (`ListingsFairness`). A client asks for the next page: a loop of
rebuildctl, or of the check, without other conditions.

## 5. What is proved

For every value of the constants and of the bounds:

| Theorem | Statement | Module |
|---|---|---|
| `TypeCorrect` | `Spec => []TypeOK` | `RebuilderdProofs` |
| `JobsExpire` | `Spec => []HeldJobsCanExpire` | |
| `ReportsMatch` | `Spec => []ReportsMatchBuilds` | |
| `LeasesAreRespected` | `Spec => LeaseRespected` | |
| `NewWorkersAreFree` | `Spec => NewWorkersHoldNothing` | |
| `SyncsKeepHeldJobs` | `Spec => SyncKeepsHeldJobs` | |
| `InvHolds` | `Spec => []Inv`, on which they rest | |
| `SyncsScheduleReported` | `Spec => SyncSchedulesReported` | `SchedulingProofs` |
| `PackagesStayScheduled` | `Spec => StaysScheduled` | |
| `RetryLimitIsKept` | `Spec /\ []ReportsApart /\ [][CountsAreFollowed]_vars => []RetryLimitHolds` | |
| `FirstBuildsAreScheduled` | `MaxRetries = None /\ OneFriendPerScope`, or `MaxRetries # 0 /\ NoFriends`, implies `Spec => FirstBuildIsScheduled` | |
| `ResetsShowUnknown` | `~BuiltAtSkew` implies `Spec => ResetShowsUnknown` | |
| `QueueIsLeased` | `Spec => QueueImplementsLeases` | `JobLeasesProofs` |
| `GoodIsReproduced` | `Spec => []GoodMeansReproduced` | `WorkerProofs` |
| `ReportsAreComplete` | `Spec => []ReportIsComplete` | |
| `LogsAreBounded` | `Spec => []LogWithinLimit` | |
| `ChildrenEndInTime` | `Spec => []RunEndsInTime` | |
| `WorkerTypeCorrect` | `Spec => []TypeOK` | |
| `PeersTypeCorrect` | `PeersSpec => []PeersTypeOK` | `PeersProofs` |
| `VerdictsAreThePeers` | `PeersSpec => []VerdictsBelongToPeer` | |
| `VerdictsAreKept` | `PeersSpec => VerdictsSurvive` | |
| `DisagreementsAreShown` | `OneReleaseEach(releaseOf)` implies `PeersSpec /\ [][Undisturbed]_peerVars => []DisagreementsAreFlagged` | |
| `AnsweredSignaturesLast` | `AttestationsSpec => []AnswersLast` | `AttestationsProofs` |
| `AnsweredIsSigned` | `AttestationsSpec => []AnswersAreSigned` | |
| `StoredSignaturesStay` | `AttestationsSpec => SignaturesStay` | |
| `SyncsEndSeen` | `SchedulersSpec => []ListedIsSeen` | `SchedulersProofs` |
| `InputsAreKept` | `SchedulersSpec => []OneInput` | |
| `RebuildsAreApart` | `SchedulersSpec => []BuildsAreNotMixed` | |
| `CommitsAreNoYounger` | `SchedulersSpec => []CommitPrecedesBuild` | |
| `OnlyUnlistedAreHidden` | `SchedulersSpec => UnseenOnlyIfUnlisted` | |
| `ListsShowOnce` | `ListingsSpec => []ListingShowsOnce` | `ViewsProofs` |
| `FiltersFindShown` | `ListingsSpec => []StatusFiltersFindShown` | |
| `DashboardCounts` | `StatisticsSpec(badSets) => []DashboardCountsSteady` | |
| `CategoriesAddUp` | `StatisticsSpec(badSets) => []CategoriesMatchCounts`, if every set in `badSets` is finite | |

**The scheduling.** `Inv` strengthens the three invariants until each step preserves it:

* `IssuedIds`: every id in the queue is below `nextQueueId`, and belongs to one
  row. With `WorkerInStep` and `ReportInStep`, which say the same of the ids
  that workers and reports carry, a new row cannot match an id that is still in
  flight: that is why late reports do no harm to `ReportsMatchBuilds`.
* `HoldersIssued`: the worker ids that keys have and that rows name are below
  `nextWorkerId`. So a new worker's id matches no row, not even one left behind
  by a deleted worker.
* `RequestInStep`, `WorkerInStep`, `ReportInStep`: what the locals of each
  process hold at each program counter. A worker that waits for a job has a
  row; one that builds has a job id, and the row of that id is of its input or
  gone; a report's input and friends are friends of what its sender built.

The queue is written by a dozen actions, but in few ways. So the proof first
classifies steps: lemmas show that every step of `Next` is a `QueueStep` (rows
are dropped, stale rows given up, a free row taken, a row pinged, a row
upserted, or time passes), a `RegistryStep`, and one of a few moves of a worker
or a report. The parts of `Inv` are then proved once per class of step rather
than once per action, with `QueueGrows` (a row keeps its id and input, or is new
with a new id) as the link between them. The action properties follow from the
same classification: a step that changes the holder of a row is the clearing of
stale jobs, or the taking of a free one.

**The schedule.** A package is kept on the schedule by a friend's row in
`queue`, by a handler in progress, or because it needs no job any more, and each
of these may end in a step that starts another. `JobsCome` says where a row may
come from and `JobsGo` how it may go, for all steps of `Next`; `SchedulingInv`
says what the handlers rely on: the inputs a request or a report has in hand are
known to the database (`RequestKnows`, `ReportKnows`). A step that removes the last job of a package's friends
is then a report that recorded their result or counts their retry, a sync that
has given them up, or one of the exceptions. For `SyncsScheduleReported` the
invariant is `TakenAreScheduled`: whatever the transaction has taken from its
report is reproduced, past its retries or queued, and stays so until the commit,
because no other handler writes meanwhile (`SyncsRunAlone`).

`RetryLimitIsKept` has two hypotheses, and both are needed. `ReportsApart`: no two
reports on friends are between the count and the end of a retry at once; the run
`retry_limit` shows how two of them break the limit. `CountsAreFollowed`: no report is
abandoned after it counted the last retry and before it dropped the jobs of
the friends. A deployment with one builder that does not fail half-way satisfies
both. The invariant is `RetryInv`: a report that is about to requeue is below
the limit, and one that is about to drop jobs knows every friend that has one.

**First builds.** `FirstBuildsAreScheduled` is `SyncsScheduleReported` for a
package that has no result, and the exceptions are ruled out. A job that the
commit drops: `TakenAreSeen` says that what the transaction has taken is in its
scope and seen; a job that is dropped is of an unseen package of the same scope,
so it is a friend's and not the package's own, and `OneFriendPerScope` says that
there is no such friend. It is needed: a package that is reported first finds
the job of a friend that this sync no longer reports, relies on it, and the
commit drops it. A package past its retries: without a limit there is none, and
without friends it would have a result, because a report counts retries after it
has recorded results (`RetriedHaveResults`). With friends even a limit other than 0 denies
a first build: a friend that a sync imports while a report is between
`friends` and `retries` gets no result from it, and shares the retries that it
counts; with `max_retries = 1` TLC finds this on the instance of `reports`.

**Resets.** Three statements write table `rebuilds` (`ResultsCome`): a report
records a result, a request resets one, a sync copies those of a friend. As long
as a row is never older than one of lower id (`~BuiltAtSkew`), the row of largest id
and the row on show are one (`LatestIsShown`), in the copies as well
(`CopiesAreOfInputs`); then what a reset changes is what is shown.

**The refinement.** `JobLeasesProofs` maps the same classes to the actions of
`JobLeases`: rows that are dropped to `Close`, an upsert to `Offer` (or to
nothing, when it only raises a priority), the stale rows to `Expire`, a pop to
`Grant`, a ping to `Renew`, a tick to `Wait`, a new worker to `Admit`. What it
needs of `Inv` is `RowsInOrder`: distinct rows are distinct jobs, and a row has
a ping if and only if it has a holder.

**GOOD means reproduced.** `ReproducedInv` follows the files through a build.
`InputsAreWanted`: a download that no later one has replaced is what lies in
`inputs/` under its name. `ComparedSoFar`: the bytes up to `pos` are equal while
`compare_files` reads; when it says *attest* the files are the same, and when it
says *mismatch* they are not. `ResultsFit`: between two results there is an
artifact left to compare. From these each pushed result is right, for all
contents and however the reads are cut.

**Children.** `WorkerInv` bounds each child in two stages. `LogBounded`: a log
that is not truncated is within its limit and no SIGTERM was sent; a log has one
notice more once the limit is met and at most two. `TimeBounded`: SIGTERM is
sent by `LastTerm`, one tick and one ping after the timeout; a child that is not
killed is looked at again by `LastWake`, two delays later; one that is killed is
not read any more. `LateFor` says how far the clock may run past a time at which
something is due, and that no two pings delay the same thing, since a ping only
starts when the clock has moved on since the last.

**Peers.** A check holds ids of peers for as long as it runs. `Owns(u, id)` says
that an id that was ever given to a url never names the row of another; it
is preserved by every step, so the rows a late check writes are either refused
by the foreign key or about the right peer.

**Disagreements.** `DisagreementsAreShown` has two hypotheses. `OneReleaseEach`:
no plan asks a peer for two releases, or asks for one of API v0, which knows no
releases. `Undisturbed`: no request or check fails and no result changes, for
otherwise what is cached is old. Nothing is assumed of how checks overlap or of
which peers are asked for: peers come and go while checks fetch their lists. The
danger is a check whose peer was deleted: its whole transaction is rolled back.
The invariant is `FlagInv`: a registered peer is flagged where it differs, or a
request or a check is still to read the peers, or a check that covers it is
`OnItsWay`, none of the peers it compares having been deleted, so that it will
not be rejected. Whoever adds or deletes a peer goes on to start a check, which
reads the peers as they then are; that is why a rejected check loses nothing for good.
`CheckKnows` says that what a check writes is complete for the peers it compares.

**Attestations.** Every reader writes back the whole of what it read. That loses
nothing because the readers of one daemon sign with one key: `CopyInStep` says
that a copy is what is stored, or that one of the two is the other with the
daemon's signature appended, and a restart ends all readers.

**Syncs.** `SyncInv` carries what a run has read to the rows of the daemon.
Every index read is one the mirror had (`IndexIsReal`); every pending report is
made of what was read, and brings all of it that belongs to its scope
(`ReportSound`); every row of the catalog has a build input that its source,
version and architecture determine (`RowShape`, `InputOf`); and whatever was
read is in a pending report, is seen, or was superseded by a later index of the
same report (`Delivered`). Debian's reports leave a hash map in any order: they
are a function here, and `Delivered` holds for each order because no two have
one scope. FreeBSD's build input is the url of the package of least name, so it depends
on the set of packages of a version and not on their order, which is what
`InputsAreKept` needs (`LeastName`).

**Lists.** The order of a query is total and strict (`OrderIsTotal`), so
`Sorted` is a sequence of all rows, each once (`SortedInOrder`). `AskInv`: the
rows that stay at their place are shown if and only if they are not beyond the
cursor, as the cursor's row was when it was taken, and none is shown twice. It holds while the
list is not `lost`, that is, until the row of a cursor has left or moved when
the next page is asked for. The end of the list gives `DoneInv`.

**The dashboard.** `Counted(n, class)`: a count that was taken is that of the
steady jobs of its class, and exceeds it by at most the number of inputs that have changed.
A change touches one input, which then is no longer steady: the class loses or
keeps one element and the bound grows by one (`CountsWhenTouched`).

**The categories.** What `CategoriesMatchCounts` compares are two folds: the sum
over the sequence of categories and the sum over the set of latest builds. That
each is the size of a union of disjoint sets would be an induction over the
sequence and the set. By their definitions both folds are functions on the
subsets of what is folded, which take one element out and add its size to the rest
(`AddsSizes`). There is such a function, for the sizes of the unions are one
(`SizesCanBeAdded`), and there is no other: a least subset on which the two differ
would have a smaller one (`LeastExists`, which rests on `<` being well-founded, and
`SizesAddUp`). `SequenceOfSizes` and `SetOfSizes` apply this to the
two folds. The rest is `SnapshotInv`: what `collect_stats` has read so far is what
the tables hold for as long as nothing that it covers has changed. If builds were
reported in order the one of the highest id, which the breakdown reads, is the
latest, which the counts read (`LatestIsLast`); each item is in the first category
that takes it and in no other (`EachInOneCategory`), and every category asks only
for items that are known (`ItemsAreKnown`).

Assumptions: `MapAssumption` (finitely many inputs, total maps),
`TimeAssumption` (ticks are natural numbers), `RetriesAssumption` (the limit is a
natural number, or none), `BoundAssumption`, `NoneAssumption`,
`SupportsAssumption`, `SignupAssumption`, `SkewAssumption`,
`CaptureAssumption`, `BuildAssumption`, `PeersAssumption`,
`AttestationsAssumption`, `SchedulersAssumption`, `ListingsAssumption` and
`StatisticsAssumption` (types of the constants; `None` is none of the values
it stands beside), all evaluated by TLC on each run. Three of them say more than
types. A mirror may have any indexes of entries, but a profile names one of the
five distributions and its mirror has at least one state. A build that failed
has no artifacts with a status, as in `rebuild_artifacts`. And a query
goes through its list in order: `after` with an ascending order, `before` with a
descending one. The readers in this repository use the first (`main.rs:401`,
`peers.rs:654`); a reader that asks for what is before a cursor in ascending order
gets the first rows of the table again, and its list has no end to speak of.

The proofs changed the models in four places: `ListedIsSeen` had been
stated for mirrors whose indexes fill reports of their own, and the proof needed
only that a later index of the same report wins, which is what it now says; and
`ShownStatus` was a CASE whose branches overlapped, which TLC resolves in order
and the definition of CASE does not; `CategoriesMatchCounts` had been stated for
configurations that end in a category which takes everything, and now accounts
for what no category takes; and a change between two of the selects of a snapshot
had not counted as one.

## 6. What is only model-checked

The liveness properties (`HeldJobIsReleased`, `PackageSettles`, `BuildEnds`,
`VerdictsSettle`, `ListingEnds`): liveness under fairness, and ENABLED, are out
of the prover's reach.

`RetryLimitHolds` without the hypotheses of `RetryLimitIsKept` is checked in run
`sync`, with one report handler, and refuted in `retry_limit`, with two.

The five disagreements without the conditions of their theorems are refuted by
the runs that show them. Every safety invariant and every action property of a
passing run is a theorem. No module declares a RECURSIVE operator.

## 7. What is not modelled, and the plan

Not modelled, and why:

* *Start-up, configuration, migrations of old databases, HTTP, compression, wire
  types*: pure I/O around the modelled handlers; configuration appears as
  CONSTANTS and the routes as disjuncts.
* *API v0* but for its attestation endpoint: read-only views of the same
  tables; its writing endpoints answer NotImplemented.
* *Parsers of the package indexes*: one entry of an index is one record here. A
  property of them would be about single characters.
* *rebuildctl*'s look-up of one package for its logs, completions and formatting;
  `pkgs requeue` is a drop and requests, which `Rebuilderd` takes in any order.
* *Matching of logs to statistics categories*: a category is the set of kinds it
  accepts. Regular expressions are a library.

To follow, in this order:

1. The lists of source packages and of builds, `meta.rs`, and the reading of
   snapshots with a range of times: selects of the same shape as `Listings`.
2. The cached dashboard of API v0, whose answer may be older than the tables.
3. Priorities in `Rebuilderd` beyond the three of today, with the order of
   `PopJob`, and whether a job of low priority can starve.
4. Proofs: an abstract specification of the tables that clients read, of which
   lists and dashboards are views; the retry limit when a failed handler is
   followed by a sync that drops the jobs it left.
