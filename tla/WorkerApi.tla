------------------------------ MODULE WorkerApi ------------------------------
(***************************************************************************)
(* Table workers: the authentication every worker request starts with, and *)
(* the requests that add and delete rows.  A handler reads its worker's id *)
(* once, so a row deleted while the handler runs might as well have been   *)
(* deleted after it: authentication is part of the step that uses the id.  *)
(***************************************************************************)
EXTENDS Database

CONSTANT SignupRequired  \* a signup secret or an allow-list is configured

ASSUME SignupAssumption == SignupRequired \in BOOLEAN

(* Fault: the table is not AUTOINCREMENT, and the largest id is given again. *)
UpsertWorkerReusingIds(w) ==
  IF registry[w] # None
  THEN UNCHANGED workerRows
  ELSE \E n \in 1 .. MaxWorkerId :
         /\ \A v \in Workers : registry[v] # None => registry[v] < n
         /\ n = 1 \/ \E v \in Workers : registry[v] = n - 1
         /\ registry' = [registry EXCEPT ![w] = n]
         /\ nextWorkerId' = n + 1

(* NewWorker::upsert as far as ids go: an existing key keeps its row.      *)
UpsertWorker(w) ==
  IF registry[w] # None
  THEN UNCHANGED workerRows
  ELSE /\ nextWorkerId <= MaxWorkerId
       /\ registry' = [registry EXCEPT ![w] = nextWorkerId]
       /\ nextWorkerId' = nextWorkerId + 1

(* auth::worker: without access control an unknown key gets a new row, and *)
(* with access control it is refused.                                      *)
Authenticate(w) ==
  IF SignupRequired
  THEN registry[w] # None /\ UNCHANGED workerRows
  ELSE UpsertWorker(w)

(* POST /workers *)
RegisterWorker(w) ==
  /\ SignupRequired
  /\ UpsertWorker(w)
  /\ UNCHANGED <<inputVars, rebuilds, queueVars>>

(* DELETE /workers/{id}, sent with the key of any worker.  The jobs that   *)
(* the deleted worker holds keep its id.                                   *)
UnregisterWorker(w) ==
  /\ registry[w] # None
  /\ registry' = [registry EXCEPT ![w] = None]
  /\ UNCHANGED <<inputVars, rebuilds, queueVars, nextWorkerId>>
=============================================================================
