----------------------------- MODULE PackageApi -----------------------------
(***************************************************************************)
(* POST /packages/source: submit_package_report, the sync of one scope.    *)
(* The handler runs in one transaction whose first statement writes, so    *)
(* SQLite lets no other handler write until it commits, and none sees what *)
(* it wrote before.  The packages are taken one per step; while sync.active *)
(* holds nothing else happens.  A transaction that is rolled back is one   *)
(* that never began.                                                       *)
(***************************************************************************)
EXTENDS Database

VARIABLE sync  \* the transaction: its scope, its report, what is left of it

IdleSync == [active |-> FALSE, scope |-> None, reported |-> {}, todo |-> {}]

PackageApiTypeOK ==
  sync \in [active : BOOLEAN, scope : Scopes \cup {None},
            reported : SUBSET Inputs, todo : SUBSET Inputs]

PackageApiInit == sync = IdleSync

-----------------------------------------------------------------------------
KnownIn(scope) == {i \in Known : ScopeOf[i] = scope}

(* mark_scoped_packages_unseen: a source package with inputs in another    *)
(* scope too (another architecture) is marked for both.                    *)
BeginSync(scope, reported) ==
  /\ ~sync.active
  /\ sync' = [active |-> TRUE, scope |-> scope, reported |-> reported, todo |-> reported]
  /\ seen' = [s \in Sources |-> IF \E i \in KnownIn(scope) : SourceOf[i] = s
                                THEN FALSE ELSE seen[s]]
  /\ UNCHANGED <<rowid, retries, delay, rebuilds, queueVars, workerRows>>

(* A package is new if no input of its source was known, whatever its      *)
(* architecture and url.                                                   *)
IsNewPackage(i) == \A k \in Known : SourceOf[k] # SourceOf[i]

(* copy_existing_rebuilds: all the rebuilds of the friend of lowest id.    *)
CopyExistingRebuilds(i) ==
  LET others == Friends(i) \ {i}
  IN IF others = {} THEN rebuilds[i]
     ELSE rebuilds[CHOOSE f \in others : \A g \in others : rowid[f] <= rowid[g]]

(* Fault: a package that was imported before does not count as seen again. *)
ImportOnceSeen(i) ==
  /\ i \in sync.todo
  /\ sync' = [sync EXCEPT !.todo = @ \ {i}]
  /\ seen' = IF i \in Known THEN seen ELSE [seen EXCEPT ![SourceOf[i]] = TRUE]
  /\ rowid' = IF i \in Known THEN rowid ELSE [rowid EXCEPT ![i] = Cardinality(Known) + 1]
  /\ rebuilds' = IF IsNewPackage(i) THEN [rebuilds EXCEPT ![i] = CopyExistingRebuilds(i)]
                 ELSE rebuilds
  /\ UNCHANGED <<retries, workerRows>>

(* The source, the build input and the binary packages are upserted; only  *)
(* a new build input gets the initial delay.                               *)
ImportPackage(i) ==
  /\ i \in sync.todo
  /\ sync' = [sync EXCEPT !.todo = @ \ {i}]
  /\ seen' = [seen EXCEPT ![SourceOf[i]] = TRUE]
  /\ rowid' = IF i \in Known THEN rowid ELSE [rowid EXCEPT ![i] = Cardinality(Known) + 1]
  /\ rebuilds' = IF IsNewPackage(i) THEN [rebuilds EXCEPT ![i] = CopyExistingRebuilds(i)]
                 ELSE rebuilds
  /\ UNCHANGED <<retries, workerRows>>

Imported(i) == IF i \in Known THEN delay ELSE [delay EXCEPT ![i] = InitialDelay]

(* Is one of the friends, i among them, past schedule.max_retries?         *)
FriendsExhausted(S, i) == \E f \in FriendsIn(S, i) : Exhausted(retries[f])

(* Fault: a package that was ever built is not scheduled again.            *)
SkipBuiltPackage(i) ==
  /\ ImportPackage(i)
  /\ \/ CurrentStatus(rebuilds'[i]) # "UNKWN"
     \/ QueuedFriend(Known \cup {i}, i)
  /\ delay' = Imported(i)
  /\ UNCHANGED queueVars

(* Reproduced, or a friend is queued: nothing to schedule.                 *)
SkipPackage(i) ==
  /\ ImportPackage(i)
  /\ \/ CurrentStatus(rebuilds'[i]) = "GOOD"
     \/ QueuedFriend(Known \cup {i}, i)
  /\ delay' = Imported(i)
  /\ UNCHANGED queueVars

NeedsJob(i) == /\ CurrentStatus(rebuilds'[i]) # "GOOD"
               /\ ~QueuedFriend(Known \cup {i}, i)

(* Fault: the last retry is not granted.                                   *)
GiveUpPackageEarly(i) ==
  LET friends == FriendsIn(Known \cup {i}, i)
  IN /\ ImportPackage(i)
     /\ NeedsJob(i)
     /\ \E f \in friends : Exhausted(retries[f] + 1)
     /\ delay' = [f \in Inputs |-> IF f \in friends THEN 0 ELSE delay[f]]
     /\ queue' = {q \in queue : q.input \notin friends}
     /\ UNCHANGED nextQueueId

(* Past the limit: mark_build_input_friends_as_non_retriable.              *)
GiveUpPackage(i) ==
  LET friends == FriendsIn(Known \cup {i}, i)
  IN /\ ImportPackage(i)
     /\ NeedsJob(i)
     /\ FriendsExhausted(Known \cup {i}, i)
     /\ delay' = [f \in Inputs |-> IF f \in friends THEN 0 ELSE delay[f]]
     /\ queue' = {q \in queue : q.input \notin friends}
     /\ UNCHANGED nextQueueId

SchedulePackage(i) ==
  /\ ImportPackage(i)
  /\ NeedsJob(i)
  /\ ~FriendsExhausted(Known \cup {i}, i)
  /\ delay' = Imported(i)
  /\ Upsert(i, IF CurrentStatus(rebuilds'[i]) = "BAD" THEN Retry ELSE Default)

(* Fault: the jobs of unseen packages are dropped also while they are held. *)
UnwantedThoughHeld(q) == /\ ScopeOf[q.input] = sync.scope
                         /\ ~seen[SourceOf[q.input]]

(* drop_unseen_scoped_jobs, and the commit.                                *)
Unwanted(q) == /\ q.worker = None
               /\ ScopeOf[q.input] = sync.scope
               /\ ~seen[SourceOf[q.input]]

CommitSync ==
  /\ sync.active
  /\ sync.todo = {}
  /\ queue' = {q \in queue : ~Unwanted(q)}
  /\ sync' = IdleSync
  /\ UNCHANGED <<inputVars, rebuilds, nextQueueId, workerRows>>

SyncStep ==
  \/ \E i \in sync.todo : SkipPackage(i) \/ GiveUpPackage(i) \/ SchedulePackage(i)
  \/ CommitSync
=============================================================================
