------------------------------ MODULE QueueApi ------------------------------
(***************************************************************************)
(* The requests on the build queue.  Workers poll for work and ping while  *)
(* they build; the administrator requests rebuilds and drops jobs.         *)
(***************************************************************************)
EXTENDS WorkerApi

CONSTANT Supports  \* [Workers -> SUBSET Inputs]: architecture and backend fit

ASSUME SupportsAssumption == Supports \in [Workers -> SUBSET Inputs]

VARIABLE request   \* the handler of POST /queue: where it is in its loop

RequestSteps == {"idle", "next", "delay", "enqueue"}

IdleRequest == [pc |-> "idle", todo |-> {}, input |-> None,
                reset |-> FALSE, priority |-> Manual]

QueueApiTypeOK ==
  request \in [pc : RequestSteps, todo : SUBSET Inputs, input : Inputs \cup {None},
               reset : BOOLEAN, priority : Priorities]

QueueApiInit == request = IdleRequest

-----------------------------------------------------------------------------
(* POST /queue/pop: request_work *)

Stale(q) == q.age # None /\ q.age > PingDeadline

(* Fault: the holder stays although its last ping is forgotten.            *)
ForgetStalePings ==
  queue' = {IF Stale(q) THEN [q EXCEPT !.age = None] ELSE q : q \in queue}

(* The statement before the transaction: every stale job is given up.      *)
ClearStaleJobs ==
  queue' = {IF Stale(q) THEN [q EXCEPT !.worker = None, !.age = None] ELSE q : q \in queue}

RequestWork(w) ==
  /\ Authenticate(w)
  /\ ClearStaleJobs
  /\ UNCHANGED <<inputVars, rebuilds, nextQueueId, request>>

(* Fault: held jobs are handed out again.                                  *)
EligibleThoughHeld(w, q) == /\ delay[q.input] = 0
                            /\ q.input \in Supports[w]

Eligible(w, q) == /\ q.worker = None
                  /\ delay[q.input] = 0
                  /\ q.input \in Supports[w]

(* Jobs of one priority are ordered by the day they were queued on and by  *)
(* attributes of the package: any of them may come first.                  *)
FirstInLine(w, q) == /\ Eligible(w, q)
                     /\ \A r \in queue : Eligible(w, r) => q.priority <= r.priority

(* Faults: the job carries the key of its holder; it carries no ping.      *)
PopJobByKey(w, q) ==
  /\ FirstInLine(w, q)
  /\ queue' = (queue \ {q}) \cup {[q EXCEPT !.worker = w, !.age = 0]}
  /\ UNCHANGED <<inputVars, rebuilds, nextQueueId, workerRows, request>>

PopJobWithoutPing(w, q) ==
  /\ FirstInLine(w, q)
  /\ queue' = (queue \ {q}) \cup {[q EXCEPT !.worker = registry[w]]}
  /\ UNCHANGED <<inputVars, rebuilds, nextQueueId, workerRows, request>>

(* The transaction that hands row q to worker w.                           *)
PopJob(w, q) ==
  /\ FirstInLine(w, q)
  /\ queue' = (queue \ {q}) \cup {[q EXCEPT !.worker = registry[w], !.age = 0]}
  /\ UNCHANGED <<inputVars, rebuilds, nextQueueId, workerRows, request>>

NothingToPop(w) == ~ \E q \in queue : Eligible(w, q)

(* Fault: a late ping is taken for a job that was given up.                *)
PingUnheldJob(w, id) ==
  /\ Authenticate(w)
  /\ queue' = {IF q.id = id THEN [q EXCEPT !.age = 0] ELSE q : q \in queue}
  /\ UNCHANGED <<inputVars, rebuilds, nextQueueId, request>>

(* POST /queue/{id}/ping: only the holder of the job refreshes it.         *)
PingJob(w, id) ==
  /\ Authenticate(w)
  /\ queue' = {IF q.id = id /\ q.worker = registry'[w] THEN [q EXCEPT !.age = 0] ELSE q
                 : q \in queue}
  /\ UNCHANGED <<inputVars, rebuilds, nextQueueId, request>>

-----------------------------------------------------------------------------
(* POST /queue: request_rebuild *)

(* With no name the request only covers packages of the last sync.         *)
Matches(i, source, scope, status) ==
  /\ i \in Known
  /\ IF source = None THEN seen[SourceOf[i]] ELSE SourceOf[i] = source
  /\ scope # None => ScopeOf[i] = scope
  /\ status # None => NewestStatus(rebuilds[i]) = status

SelectInputs(source, scope, status, reset, priority) ==
  LET matching == {i \in Inputs : Matches(i, source, scope, status)}
  IN /\ request.pc = "idle"
     /\ matching # {}
     /\ request' = [pc |-> "next", todo |-> matching, input |-> None,
                    reset |-> reset, priority |-> priority]
     /\ UNCHANGED dbVars

(* Fault: only a result that is BAD is cleared.                            *)
ResetBadResult(view) ==
  IF view.newest # "BAD" THEN view
  ELSE [view EXCEPT !.newest = "NULL",
                    !.shown = IF view.same THEN "NULL" ELSE view.shown]

(* The row with the largest id loses its status, and so do its artifacts.  *)
ResetNewest(view) ==
  IF view = NoRebuild THEN view
  ELSE [view EXCEPT !.newest = "NULL",
                    !.shown = IF view.same THEN "NULL" ELSE view.shown]

(* It is selected first and updated next, which is one step here: a row    *)
(* inserted in between might as well have been inserted after both.        *)
ResetInput(i) ==
  /\ request.pc = "next"
  /\ i \in request.todo
  /\ rebuilds' = IF request.reset THEN [rebuilds EXCEPT ![i] = ResetNewest(@)] ELSE rebuilds
  /\ request' = [request EXCEPT !.pc = "delay", !.todo = @ \ {i}, !.input = i]
  /\ UNCHANGED <<inputVars, queueVars, workerRows>>

ClearDelay ==
  /\ request.pc = "delay"
  /\ delay' = [delay EXCEPT ![request.input] = 0]
  /\ request' = [request EXCEPT !.pc = "enqueue"]
  /\ UNCHANGED <<rowid, seen, retries, rebuilds, queueVars, workerRows>>

EnqueueInput ==
  /\ request.pc = "enqueue"
  /\ Upsert(request.input, request.priority)
  /\ request' = IF request.todo = {} THEN IdleRequest
                ELSE [request EXCEPT !.pc = "next", !.input = None]
  /\ UNCHANGED <<inputVars, rebuilds, workerRows>>

(* A statement fails, or the daemon stops: what was written stays.         *)
AbandonRequest ==
  /\ request.pc # "idle"
  /\ request' = IdleRequest
  /\ UNCHANGED dbVars

-----------------------------------------------------------------------------
(* DELETE /queue: the jobs in a scope, of a source, or both; held or not.  *)
DropQueuedJobs(source, scope) ==
  /\ queue' = {q \in queue : \/ source # None /\ SourceOf[q.input] # source
                             \/ scope # None /\ ScopeOf[q.input] # scope}
  /\ UNCHANGED <<inputVars, rebuilds, nextQueueId, workerRows, request>>

(* DELETE /queue/{id} *)
DropQueuedJob(q) ==
  /\ queue' = queue \ {q}
  /\ UNCHANGED <<inputVars, rebuilds, nextQueueId, workerRows, request>>
=============================================================================
