----------------------------- MODULE Rebuilderd -----------------------------
(***************************************************************************)
(* The daemon, its workers and its administrator: the handlers of the API  *)
(* modules driven by rebuilderd-worker processes and by rebuildctl.        *)
(***************************************************************************)
EXTENDS QueueApi, BuildApi, PackageApi

VARIABLE worker  \* the rebuilderd-worker process of each key

WorkerSteps == {"idle", "popping", "building"}

IdleWorker == [pc |-> "idle", qid |-> 0, input |-> None]

WorkerTypeOK == worker \in [Workers -> [pc : WorkerSteps, qid : Nat, input : Inputs \cup {None}]]

vars == <<dbVars, request, reports, sync, worker>>

Init ==
  /\ DatabaseInit
  /\ QueueApiInit
  /\ BuildApiInit
  /\ PackageApiInit
  /\ worker = [w \in Workers |-> IdleWorker]

TypeOK ==
  /\ DatabaseTypeOK
  /\ QueueApiTypeOK
  /\ BuildApiTypeOK
  /\ PackageApiTypeOK
  /\ WorkerTypeOK

-----------------------------------------------------------------------------
(* Bound: a handler only starts if the ids that it and the handlers in     *)
(* progress may still use are left, so that none is stuck half-way.        *)
Promised == Cardinality({t \in Threads : ~At(t, "idle")})
            + Cardinality(request.todo)
            + (IF request.pc \in {"delay", "enqueue"} THEN 1 ELSE 0)
Spare(n) == nextQueueId + Promised + n <= MaxQueueId + 1
SpareWorker == nextWorkerId + Cardinality({w \in Workers : registry[w] = None}) <= MaxWorkerId

(* The write lock of a sync keeps every other statement out.               *)
LockFree == ~sync.active

(* rebuilderd-worker *)

Become(w, state) == worker' = [worker EXCEPT ![w] = state]

(* The worker asks for a job; the daemon first clears the stale ones.      *)
Poll(w) ==
  /\ LockFree
  /\ worker[w].pc = "idle"
  /\ RequestWork(w)
  /\ Become(w, [IdleWorker EXCEPT !.pc = "popping"])
  /\ UNCHANGED <<reports, sync>>

(* The daemon hands out a job and the worker builds it ...                 *)
StartBuild(w, q) ==
  /\ LockFree
  /\ worker[w].pc = "popping"
  /\ PopJob(w, q)
  /\ Become(w, [pc |-> "building", qid |-> q.id, input |-> q.input])
  /\ UNCHANGED <<reports, sync>>

(* ... unless the answer is lost or no backend is configured for it: the   *)
(* job is taken, and nobody builds it.                                     *)
LoseJob(w, q) ==
  /\ LockFree
  /\ worker[w].pc = "popping"
  /\ PopJob(w, q)
  /\ Become(w, IdleWorker)
  /\ UNCHANGED <<reports, sync>>

FindNothing(w) ==
  /\ LockFree
  /\ worker[w].pc = "popping"
  /\ NothingToPop(w)
  /\ Become(w, IdleWorker)
  /\ UNCHANGED <<dbVars, request, reports, sync>>

(* rebuild_with_heartbeat: the worker goes on whatever the ping returns.   *)
Ping(w) ==
  /\ LockFree
  /\ worker[w].pc = "building"
  /\ PingJob(w, worker[w].qid)
  /\ UNCHANGED <<reports, sync, worker>>

(* The build ends and its report reaches a handler.  The worker waits for  *)
(* no more than the answer, an error or its own restart, and then polls.   *)
SubmitReport(w, t, status) ==
  /\ LockFree
  /\ worker[w].pc = "building"
  /\ Spare(1)
  /\ Authenticate(w)
  /\ ReceiveReport(t, worker[w].qid, worker[w].input, status)
  /\ Become(w, IdleWorker)
  /\ UNCHANGED <<inputVars, rebuilds, queueVars, request, sync>>

(* The worker restarts, or its request or report is lost or refused.       *)
StopWorker(w) ==
  /\ LockFree
  /\ worker[w].pc # "idle"
  /\ Become(w, IdleWorker)
  /\ UNCHANGED <<dbVars, request, reports, sync>>

(* A worker signs up as it starts. *)
SignUp(w) ==
  /\ LockFree
  /\ worker[w].pc = "idle"
  /\ registry[w] = None
  /\ RegisterWorker(w)
  /\ UNCHANGED <<request, reports, sync, worker>>

Unregister(w) ==
  /\ LockFree
  /\ SpareWorker
  /\ UnregisterWorker(w)
  /\ worker[w].pc # "popping"  \* as good as after the answer: see WorkerApi
  /\ UNCHANGED <<request, reports, sync, worker>>

WorkerStep(w) ==
  \/ Poll(w)
  \/ \E q \in queue : StartBuild(w, q) \/ LoseJob(w, q)
  \/ FindNothing(w)
  \/ Ping(w)
  \/ \E t \in Threads, status \in Outcomes : SubmitReport(w, t, status)
  \/ StopWorker(w)
  \/ SignUp(w)
  \/ Unregister(w)

-----------------------------------------------------------------------------
(* The daemon's handlers of reports, and the administrator *)

ReportStep(t) ==
  /\ LockFree
  /\ HandleReport(t) \/ AbandonReport(t)
  /\ UNCHANGED <<request, sync, worker>>

RequestRebuild ==
  /\ LockFree
  /\ \/ \E source \in Sources \cup {None}, scope \in Scopes \cup {None},
           status \in Outcomes \cup {"UNKWN", None}, reset \in BOOLEAN :
          /\ SelectInputs(source, scope, status, reset, Manual)
          /\ Spare(Cardinality(request'.todo))
     \/ \E i \in request.todo : ResetInput(i)
     \/ ClearDelay
     \/ EnqueueInput
     \/ AbandonRequest
  /\ UNCHANGED <<reports, sync, worker>>

DropJobs ==
  /\ LockFree
  /\ \/ \E source \in Sources \cup {None}, scope \in Scopes \cup {None} :
          DropQueuedJobs(source, scope)
     \/ \E q \in queue : DropQueuedJob(q)
  /\ UNCHANGED <<reports, sync, worker>>

(* rebuildctl pkgs sync submits one report per scope, also if it is empty. *)
StartSync ==
  /\ LockFree
  /\ \E scope \in Scopes :
       \E reported \in SUBSET {i \in Inputs : ScopeOf[i] = scope} :
         /\ Spare(Cardinality(reported))
         /\ BeginSync(scope, reported)
  /\ UNCHANGED <<request, reports, worker>>

ContinueSync == SyncStep /\ UNCHANGED <<request, reports, worker>>

Tick ==
  /\ LockFree
  /\ Elapse
  /\ UNCHANGED <<request, reports, sync, worker>>

-----------------------------------------------------------------------------
Next ==
  \/ \E w \in Workers : WorkerStep(w)
  \/ \E t \in Threads : ReportStep(t)
  \/ RequestRebuild
  \/ DropJobs
  \/ StartSync
  \/ ContinueSync
  \/ Tick

Spec == Init /\ [][Next]_vars
=============================================================================
