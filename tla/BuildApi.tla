------------------------------ MODULE BuildApi ------------------------------
(***************************************************************************)
(* POST /builds: submit_rebuild_report.  The handler runs no transaction.  *)
(* Each thread that executes it is at one statement of the handler, and    *)
(* what it has read stays in its locals while other handlers write.        *)
(***************************************************************************)
EXTENDS Database

CONSTANTS
  Threads,      \* handlers that may run at the same time
  BuiltAtSkew   \* may a result carry a built_at older than an earlier row's?

ASSUME SkewAssumption == BuiltAtSkew \in BOOLEAN

VARIABLE reports  \* what each thread is doing

ReportSteps == {"idle", "select", "friends", "record", "dequeue", "retries",
                "largest", "mark", "clear", "unqueue", "delay", "requeue"}

(* qid and status are those of the report, and built is the input that its *)
(* sender built: the handler never sees it.  input, friends and largest    *)
(* are the handler's locals queued.build_input_id, friends and retry_count,*)
(* and todo holds the friends without a rebuilds row for this report.      *)
Report == [pc : ReportSteps, qid : Nat, status : Outcomes,
           built : Inputs \cup {None}, input : Inputs \cup {None},
           friends : SUBSET Inputs, todo : SUBSET Inputs, largest : Nat]

IdleReport == [pc |-> "idle", qid |-> 0, status |-> "GOOD", built |-> None,
               input |-> None, friends |-> {}, todo |-> {}, largest |-> 0]

BuildApiTypeOK == reports \in [Threads -> Report]

BuildApiInit == reports = [t \in Threads |-> IdleReport]

-----------------------------------------------------------------------------
At(t, pc) == reports[t].pc = pc
Finish(t) == reports' = [reports EXCEPT ![t] = IdleReport]
GoTo(t, pc) == reports' = [reports EXCEPT ![t].pc = pc]

(* Thread t starts to handle a report on job qid.                          *)
ReceiveReport(t, qid, built, status) ==
  /\ At(t, "idle")
  /\ reports' = [reports EXCEPT ![t] =
       [IdleReport EXCEPT !.pc = "select", !.qid = qid, !.built = built, !.status = status]]

(* SELECT the queue row.  A report on a job that is gone is answered with  *)
(* an error; who holds the job is not looked at.                           *)
SelectJob(t) ==
  /\ At(t, "select")
  /\ \/ \E q \in queue :
          /\ q.id = reports[t].qid
          /\ reports' = [reports EXCEPT ![t] = [@ EXCEPT !.pc = "friends", !.input = q.input]]
     \/ /\ \A q \in queue : q.id # reports[t].qid
        /\ Finish(t)
  /\ UNCHANGED dbVars

SelectFriends(t) ==
  LET friends == Friends(reports[t].input)
  IN /\ At(t, "friends")
     /\ reports' = [reports EXCEPT ![t] =
          [@ EXCEPT !.pc = "record", !.friends = friends, !.todo = friends]]
     /\ UNCHANGED dbVars

BuiltAtOrders == IF BuiltAtSkew THEN BOOLEAN ELSE {TRUE}

(* INSERT one friend's rebuilds row (and its artifacts).                   *)
RecordResult(t, f, inOrder) ==
  /\ At(t, "record")
  /\ f \in reports[t].todo
  /\ rebuilds' = [rebuilds EXCEPT ![f] = Insert(@, reports[t].status, inOrder)]
  /\ reports' = [reports EXCEPT ![t] =
       [@ EXCEPT !.todo = reports[t].todo \ {f},
                 !.pc = IF reports[t].todo = {f} THEN "dequeue" ELSE "record"]]
  /\ UNCHANGED <<inputVars, queueVars, workerRows>>

(* Fault: a build that failed is not requeued.                             *)
DequeueFailedJob(t) ==
  /\ At(t, "dequeue")
  /\ queue' = {q \in queue : q.id # reports[t].qid}
  /\ IF reports[t].status # "BAD" THEN Finish(t) ELSE GoTo(t, "retries")
  /\ UNCHANGED <<inputVars, rebuilds, nextQueueId, workerRows>>

(* DELETE the queue row by its id; a Good result needs nothing more.       *)
DequeueJob(t) ==
  /\ At(t, "dequeue")
  /\ queue' = {q \in queue : q.id # reports[t].qid}
  /\ IF reports[t].status = "GOOD" THEN Finish(t) ELSE GoTo(t, "retries")
  /\ UNCHANGED <<inputVars, rebuilds, nextQueueId, workerRows>>

CountRetry(t) ==
  /\ At(t, "retries")
  /\ retries' = [i \in Inputs |-> IF i \in reports[t].friends THEN retries[i] + 1 ELSE retries[i]]
  /\ GoTo(t, "largest")
  /\ UNCHANGED <<rowid, seen, delay, rebuilds, queueVars, workerRows>>

(* Fault: the last retry is not granted.                                   *)
CheckRetriesEarly(t) ==
  LET friends == Friends(reports[t].input)
  IN /\ At(t, "largest")
     /\ \E f \in friends :
          /\ LargestRetries(friends, retries[f])
          /\ reports' = IF Exhausted(retries[f] + 1)
                        THEN [reports EXCEPT ![t].pc = "mark"]
                        ELSE [reports EXCEPT ![t] = [@ EXCEPT !.pc = "delay", !.largest = retries[f]]]
     /\ UNCHANGED dbVars

(* SELECT the largest retry count among the friends, and decide.  (The     *)
(* friends are selected just before: one that appears in between has never *)
(* been retried.)                                                          *)
CheckRetries(t) ==
  LET friends == Friends(reports[t].input)
  IN /\ At(t, "largest")
     /\ \E f \in friends :
          /\ LargestRetries(friends, retries[f])
          /\ reports' = IF Exhausted(retries[f])
                        THEN [reports EXCEPT ![t].pc = "mark"]
                        ELSE [reports EXCEPT ![t] = [@ EXCEPT !.pc = "delay", !.largest = retries[f]]]
     /\ UNCHANGED dbVars

(* mark_build_input_friends_as_non_retriable: SELECT the friends anew ...  *)
SelectExhausted(t) ==
  /\ At(t, "mark")
  /\ reports' = [reports EXCEPT ![t] =
       [@ EXCEPT !.pc = "clear", !.friends = Friends(reports[t].input)]]
  /\ UNCHANGED dbVars

(* ... clear their next_retry ...                                          *)
MarkNonRetriable(t) ==
  /\ At(t, "clear")
  /\ delay' = [i \in Inputs |-> IF i \in reports[t].friends THEN 0 ELSE delay[i]]
  /\ GoTo(t, "unqueue")
  /\ UNCHANGED <<rowid, seen, retries, rebuilds, queueVars, workerRows>>

(* Fault: only the job of the reported input is dropped.                   *)
UnqueueInput(t) ==
  /\ At(t, "unqueue")
  /\ queue' = {q \in queue : q.input # reports[t].input}
  /\ Finish(t)
  /\ UNCHANGED <<inputVars, rebuilds, nextQueueId, workerRows>>

(* ... and drop the friends' jobs, also those that a worker is building.   *)
UnqueueFriends(t) ==
  /\ At(t, "unqueue")
  /\ queue' = {q \in queue : q.input \notin reports[t].friends}
  /\ Finish(t)
  /\ UNCHANGED <<inputVars, rebuilds, nextQueueId, workerRows>>

(* The list of friends is the one read before the results were recorded.   *)
SetNextRetry(t) ==
  /\ At(t, "delay")
  /\ delay' = [i \in Inputs |-> IF i \in reports[t].friends
                                THEN (reports[t].largest + 1) * RetryDelay
                                ELSE delay[i]]
  /\ GoTo(t, "requeue")
  /\ UNCHANGED <<rowid, seen, retries, rebuilds, queueVars, workerRows>>

RequeueJob(t) ==
  /\ At(t, "requeue")
  /\ Upsert(reports[t].input, Retry)
  /\ Finish(t)
  /\ UNCHANGED <<inputVars, rebuilds, workerRows>>

(* A statement fails, or the daemon stops: what was written stays.         *)
AbandonReport(t) ==
  /\ ~At(t, "idle")
  /\ Finish(t)
  /\ UNCHANGED dbVars

HandleReport(t) ==
  \/ SelectJob(t)
  \/ SelectFriends(t)
  \/ \E f \in Inputs, inOrder \in BuiltAtOrders : RecordResult(t, f, inOrder)
  \/ DequeueJob(t)
  \/ CountRetry(t)
  \/ CheckRetries(t)
  \/ SelectExhausted(t)
  \/ MarkNonRetriable(t)
  \/ UnqueueFriends(t)
  \/ SetNextRetry(t)
  \/ RequeueJob(t)
=============================================================================
