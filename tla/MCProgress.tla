----------------------------- MODULE MCProgress -----------------------------
(***************************************************************************)
(* Progress around one build input: a worker that builds it, another that  *)
(* is handed its jobs and builds none, one handler of reports that may     *)
(* fail after any statement, and syncs that may leave the package out.     *)
(* The administrator only syncs.                                           *)
(***************************************************************************)
EXTENDS RebuilderdProperties, TLC

CONSTANTS i1, s1, c1,
          Builders,    \* the workers with a backend for the package
          MaxFailures  \* bound: reports that are handled only half-way

VARIABLE failures

MCVars == <<vars, failures>>

MCSourceOf  == i1 :> s1
MCScopeOf   == i1 :> c1
MCFriendKey == i1 :> "url"
MCSupports  == [w \in Workers |-> Inputs]

Build(w)   == \E q \in queue : StartBuild(w, q)
Deliver(w) == \E t \in Threads, status \in {"GOOD", "BAD"} : SubmitReport(w, t, status)
Handle(t)  == LockFree /\ HandleReport(t) /\ UNCHANGED <<request, sync, worker>>

(* Bound: the package is left out only while there are ids for its return, *)
(* its retries and what fails.                                             *)
Sync ==
  /\ StartSync
  /\ sync'.reported = {} => Spare(MaxRetries + 1 + MaxFailures - failures)

Step ==
  \/ \E w \in Workers : \/ Poll(w)
                        \/ \E q \in queue : LoseJob(w, q)
                        \/ FindNothing(w)
                        \/ StopWorker(w)
  \/ \E w \in Builders : Build(w) \/ Ping(w) \/ Deliver(w)
  \/ \E t \in Threads : Handle(t)
  \/ Sync
  \/ ContinueSync
  \/ Tick

(* The daemon stops, or a statement fails. *)
FailHalfWay(t) ==
  /\ failures < MaxFailures
  /\ LockFree
  /\ AbandonReport(t)
  /\ failures' = failures + 1
  /\ UNCHANGED <<request, sync, worker>>

MCNext ==
  \/ Step /\ UNCHANGED failures
  \/ \E t \in Threads : FailHalfWay(t)

(* A statement that waits for the write lock of a sync gets it in the end, *)
(* so these are strongly fair.  A worker that builds polls for ever, not   *)
(* always before the job is free, and it does not lose every job and every *)
(* report.  Of the others nothing is assumed.                              *)
Fairness ==
  /\ \A w \in Builders : /\ SF_vars(Poll(w) \/ FindNothing(w))
                         /\ SF_vars(Poll(w) /\ \E q \in queue' : Eligible(w, q))
                         /\ SF_vars(Build(w))
                         /\ SF_vars(Deliver(w))
  /\ \A t \in Threads : SF_vars(Handle(t))
  /\ WF_vars(ContinueSync)
  /\ SF_vars(Tick)

MCSpec == Init /\ failures = 0 /\ [][MCNext]_MCVars /\ Fairness
=============================================================================
