------------------------------ MODULE Database ------------------------------
(***************************************************************************)
(* The SQLite tables that the rebuilderd daemon schedules from, and the    *)
(* statements its request handlers run on them.  A handler that is not     *)
(* wrapped in a transaction is a sequence of these statements, each one    *)
(* atomic (SQLite autocommit) and each one interleaved with the statements *)
(* of every other handler.                                                 *)
(*                                                                         *)
(* Time is relative.  A row keeps the time since its last ping and a       *)
(* build input the time until its next retry, so that the clock never      *)
(* grows: the code only ever compares those two columns with now.          *)
(***************************************************************************)
EXTENDS Integers, FiniteSets

CONSTANTS
  Inputs,         \* build inputs that some sync may report
  Sources,        \* source packages (name, version, distribution, release, component)
  Scopes,         \* scopes of a sync (distribution, release, component, architecture)
  SourceOf,       \* [Inputs -> Sources]: build_inputs.source_package_id
  ScopeOf,        \* [Inputs -> Scopes]
  FriendKey,      \* a function on Inputs: (url, backend, architecture)
  Workers,        \* worker keys
  None,           \* SQL NULL, and an Option that is None
  PingDeadline,   \* PING_DEADLINE in ticks
  RetryDelay,     \* schedule.retry_delay_base in ticks
  InitialDelay,   \* schedule.initial_delay in ticks
  MaxRetries,     \* schedule.max_retries, or None
  MaxQueueId,     \* bound: queue rows ever inserted
  MaxWorkerId     \* bound: worker rows ever inserted

ASSUME MapAssumption ==
  /\ IsFiniteSet(Inputs)
  /\ SourceOf \in [Inputs -> Sources]
  /\ ScopeOf \in [Inputs -> Scopes]

ASSUME TimeAssumption ==
  /\ PingDeadline \in Nat
  /\ RetryDelay \in Nat
  /\ InitialDelay \in Nat

ASSUME RetriesAssumption == MaxRetries \in Nat \cup {None}

ASSUME BoundAssumption == MaxQueueId \in Nat /\ MaxWorkerId \in Nat

ASSUME NoneAssumption == /\ None \notin Nat
                         /\ None \notin Inputs
                         /\ None \notin Sources
                         /\ None \notin Scopes

(* Priority: the lower the number, the earlier the job is handed out.      *)
Manual  == 0
Default == 1
Retry   == 2
Priorities == {Manual, Default, Retry}

(* What a report may say of a build.                                       *)
Outcomes == {"GOOD", "BAD", "FAIL"}

(* rebuilds.status of one row, "NULL" once reset; "none" if there is no row. *)
Results == Outcomes \cup {"NULL", "none"}

VARIABLES
  rowid,       \* build_inputs.id of each input, 0 while it is not in the table
  seen,        \* source_packages.seen_in_last_sync
  retries,     \* build_inputs.retries
  delay,       \* ticks until build_inputs.next_retry; 0 if it is past or NULL
  rebuilds,    \* what the readers of table rebuilds see of each input
  queue,       \* the rows of table queue
  nextQueueId, \* its AUTOINCREMENT counter
  registry,    \* workers.id of each worker key, None while it has no row
  nextWorkerId \* the AUTOINCREMENT counter of table workers

inputVars  == <<rowid, seen, retries, delay>>
queueVars  == <<queue, nextQueueId>>
workerRows == <<registry, nextWorkerId>>
dbVars     == <<inputVars, rebuilds, queueVars, workerRows>>

-----------------------------------------------------------------------------
(* A row of table queue.  age is the time since last_ping, which is NULL   *)
(* as long as no worker holds the row; it saturates past the deadline.     *)
QueueRow == [id       : Nat \ {0},
             input    : Inputs,
             priority : Priorities,
             worker   : (Nat \ {0}) \cup {None},
             age      : 0 .. PingDeadline + 1 \cup {None}]

(* Two queries read the rebuilds of an input: by the largest id (newest)   *)
(* and by the latest built_at (shown).  same says that both find one row.  *)
RebuildView == [newest : Results, shown : Results, same : BOOLEAN]

NoRebuild == [newest |-> "none", shown |-> "none", same |-> TRUE]

DatabaseTypeOK ==
  /\ rowid \in [Inputs -> Nat]
  /\ seen \in [Sources -> BOOLEAN]
  /\ retries \in [Inputs -> Nat]
  /\ delay \in [Inputs -> Nat]
  /\ rebuilds \in [Inputs -> RebuildView]
  /\ queue \in SUBSET QueueRow
  /\ nextQueueId \in Nat \ {0}
  /\ registry \in [Workers -> (Nat \ {0}) \cup {None}]
  /\ nextWorkerId \in Nat \ {0}

DatabaseInit ==
  /\ rowid = [i \in Inputs |-> 0]
  /\ seen = [s \in Sources |-> FALSE]
  /\ retries = [i \in Inputs |-> 0]
  /\ delay = [i \in Inputs |-> 0]
  /\ rebuilds = [i \in Inputs |-> NoRebuild]
  /\ queue = {}
  /\ nextQueueId = 1
  /\ registry = [w \in Workers |-> None]
  /\ nextWorkerId = 1

-----------------------------------------------------------------------------
(* Table build_inputs. *)

Known == {i \in Inputs : rowid[i] # 0}

(* Friends share the url, the backend and the architecture; an input is    *)
(* one of its own friends.                                                 *)
FriendsIn(S, i) == {f \in S : FriendKey[f] = FriendKey[i]}
Friends(i) == FriendsIn(Known, i)

(* n is the largest retry count among the inputs in S.                     *)
LargestRetries(S, n) == /\ \E f \in S : retries[f] = n
                        /\ \A f \in S : retries[f] <= n

Exhausted(n) == MaxRetries # None /\ n >= MaxRetries

-----------------------------------------------------------------------------
(* Table rebuilds. *)

(* BuildStatus of the row with the latest built_at: no row and a status    *)
(* that is NULL both read as UNKWN.                                        *)
CurrentStatus(view) == IF view.shown \in Outcomes THEN view.shown ELSE "UNKWN"
NewestStatus(view)  == IF view.newest \in Outcomes THEN view.newest ELSE "UNKWN"

(* Insert a row.  inOrder: its built_at is later than that of every other. *)
Insert(view, status, inOrder) ==
  IF inOrder \/ view = NoRebuild
  THEN [newest |-> status, shown |-> status, same |-> TRUE]
  ELSE [view EXCEPT !.newest = status, !.same = FALSE]

-----------------------------------------------------------------------------
(* Table queue. *)

Queued(i) == \E q \in queue : q.input = i
QueuedFriend(S, i) == \E q \in queue : q.input \in FriendsIn(S, i)

(* Fault: the table is not AUTOINCREMENT, and the largest id is given again. *)
UpsertReusingIds(i, p) ==
  IF Queued(i)
  THEN /\ queue' = {IF q.input = i THEN [q EXCEPT !.priority = p] ELSE q : q \in queue}
       /\ UNCHANGED nextQueueId
  ELSE \E n \in 1 .. nextQueueId :
         /\ \A q \in queue : q.id < n
         /\ n = 1 \/ \E q \in queue : q.id = n - 1
         /\ queue' = queue \cup {[id |-> n, input |-> i, priority |-> p,
                                  worker |-> None, age |-> None]}
         /\ nextQueueId' = n + 1

(* NewQueued::upsert: on a conflict only the priority is replaced.         *)
Upsert(i, p) ==
  IF Queued(i)
  THEN /\ queue' = {IF q.input = i THEN [q EXCEPT !.priority = p] ELSE q : q \in queue}
       /\ UNCHANGED nextQueueId
  ELSE /\ queue' = queue \cup {[id |-> nextQueueId, input |-> i, priority |-> p,
                                worker |-> None, age |-> None]}
       /\ nextQueueId' = nextQueueId + 1

-----------------------------------------------------------------------------
(* The passage of time. *)

Older(row) ==
  IF row.age = None \/ row.age = PingDeadline + 1 THEN row
  ELSE [row EXCEPT !.age = @ + 1]

Elapse ==
  /\ queue' = {Older(q) : q \in queue}
  /\ delay' = [i \in Inputs |-> IF delay[i] = 0 THEN 0 ELSE delay[i] - 1]
  /\ UNCHANGED <<rowid, seen, retries, rebuilds, nextQueueId, workerRows>>
=============================================================================
