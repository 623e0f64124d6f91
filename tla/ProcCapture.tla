----------------------------- MODULE ProcCapture -----------------------------
(***************************************************************************)
(* worker/src/proc.rs: a child process runs under a timeout and a limit on *)
(* its output.  The child does what it likes: it may write, close a pipe,  *)
(* leave pipes to its own children, ignore SIGTERM, or exit.               *)
(***************************************************************************)
EXTENDS Integers, FiniteSets

CONSTANTS
  None,
  Kinds,        \* what is run: the backend, the differ or diffoscope
  Timeout,      \* [Kinds -> Nat]: Options.timeout
  SizeLimit,    \* [Kinds -> Nat]: Options.size_limit
  KillAtLimit,  \* [Kinds -> BOOLEAN]: Options.kill_at_size_limit
  KillDelay,    \* SIGKILL_DELAY
  Notice,       \* the length of a "TRUNCATED DUE TO ..." message
  Chunks,       \* how many bytes a read may return
  MaxElapsed    \* bound: the clock of a run stops here

ASSUME CaptureAssumption ==
  /\ None \notin Nat
  /\ Timeout \in [Kinds -> Nat]
  /\ SizeLimit \in [Kinds -> Nat]
  /\ KillAtLimit \in [Kinds -> BOOLEAN]
  /\ KillDelay \in Nat /\ Notice \in Nat /\ MaxElapsed \in Nat
  /\ Chunks \subseteq Nat \ {0}

VARIABLES
  run,   \* the task in proc::run, with its Capture
  child  \* the process group it has started

Pipes == {"stdout", "stderr"}

IdleRun ==
  [pc |-> "idle", kind |-> None, elapsed |-> 0, wakeAt |-> 0, termAt |-> None,
   output |-> 0, truncated |-> FALSE, open |-> {}, success |-> FALSE]

NoChild == [alive |-> FALSE, killed |-> FALSE, pipes |-> {}]

ProcInit == run = IdleRun /\ child = NoChild

ProcTypeOK ==
  /\ run \in [pc : {"idle", "running", "done", "failed"}, kind : Kinds \cup {None},
              elapsed : Nat, wakeAt : Nat, termAt : Nat \cup {None},
              output : Nat, truncated : BOOLEAN, open : SUBSET Pipes, success : BOOLEAN]
  /\ child \in [alive : BOOLEAN, killed : BOOLEAN, pipes : SUBSET Pipes]

Running == run.pc = "running"

-----------------------------------------------------------------------------
(* The limits *)

(* Capture::truncate: a message in place of all further output. *)
TruncateOutput(r, kill) ==
  [r EXCEPT !.output = @ + Notice,
            !.truncated = TRUE,
            !.termAt = IF kill THEN r.elapsed ELSE @]

(* Fault: a truncated log is truncated again and again.                    *)
PushBytesThoughTruncated(r, n) ==
  LET room == SizeLimit[r.kind] - r.output
  IN IF room < 1 THEN TruncateOutput(r, KillAtLimit[r.kind])
     ELSE [r EXCEPT !.output = @ + (IF n < room THEN n ELSE room)]

(* Capture::push_bytes: n bytes were read, and what fits is kept.          *)
PushBytes(r, n) ==
  LET room == SizeLimit[r.kind] - r.output
  IN CASE r.truncated -> r
       [] ~r.truncated /\ room < 1 -> TruncateOutput(r, KillAtLimit[r.kind])
       [] OTHER -> [r EXCEPT !.output = @ + (IF n < room THEN n ELSE room)]

(* Fault: SIGKILL follows SIGTERM only before the timeout.                 *)
OverdueBeforeTimeout(r) ==
  r.termAt # None /\ r.elapsed > r.termAt + KillDelay /\ r.elapsed <= Timeout[r.kind]

(* SIGTERM was sent more than SIGKILL_DELAY ago. *)
Overdue(r) == r.termAt # None /\ r.elapsed > r.termAt + KillDelay

(* Fault: the pipes of a killed child are still read.                      *)
KeepReading(r) == r

(* Nothing more is read from a child that is killed, whoever still holds   *)
(* its pipes.                                                              *)
StopReading(r) == IF Overdue(r) THEN [r EXCEPT !.open = {}] ELSE r

(* Capture::next_wakeup, which every turn of the loop starts with: end a   *)
(* child that has timed out, and say how long to sleep.                    *)
NextWakeup(r) ==
  LET s == StopReading(r)
  IN CASE r.elapsed <= Timeout[r.kind] -> [s EXCEPT !.wakeAt = Timeout[r.kind]]
       [] r.elapsed > Timeout[r.kind] /\ r.termAt = None ->
            [TruncateOutput(s, TRUE) EXCEPT !.wakeAt = r.elapsed + KillDelay]
       [] OTHER -> [s EXCEPT !.wakeAt = r.elapsed + KillDelay]

(* One turn of the loop: an event, then next_wakeup, which may SIGKILL.    *)
Turn(r) ==
  /\ run' = NextWakeup(r)
  /\ child' = [child EXCEPT !.killed = @ \/ Overdue(r)]

-----------------------------------------------------------------------------
(* The loop of proc::run *)

Start(kind) ==
  /\ ~Running
  /\ run' = NextWakeup([IdleRun EXCEPT !.pc = "running", !.kind = kind, !.open = Pipes])
  /\ child' = [alive |-> TRUE, killed |-> FALSE, pipes |-> Pipes]

ReadOutput(n) ==
  /\ Running
  /\ run.open \cap child.pipes # {}
  /\ Turn(PushBytes(run, n))

ReadEof(p) ==
  /\ Running
  /\ p \in run.open \ child.pipes
  /\ Turn([run EXCEPT !.open = @ \ {p}])

WakeUp ==
  /\ Running
  /\ run.elapsed > run.wakeAt
  /\ Turn(run)

(* Both pipes are done with: the exit status is collected.                 *)
Reap ==
  /\ Running
  /\ run.open = {}
  /\ ~child.alive
  /\ run' = [run EXCEPT !.pc = "done"]
  /\ UNCHANGED child

(* The child cannot be spawned, read, waited for or signalled.             *)
RunFails ==
  /\ Running
  /\ run' = [run EXCEPT !.pc = "failed"]
  /\ UNCHANGED child

-----------------------------------------------------------------------------
(* The child and its own children *)

ClosePipe(p) ==
  /\ Running
  /\ p \in child.pipes
  /\ child' = [child EXCEPT !.pipes = @ \ {p}]
  /\ UNCHANGED run

(* Only a child that nobody has killed may exit with success.              *)
Exit(success) ==
  /\ Running
  /\ child.alive
  /\ success => ~child.killed
  /\ child' = [child EXCEPT !.alive = FALSE]
  /\ run' = [run EXCEPT !.success = success]

ChildStep == \E p \in Pipes : ClosePipe(p) \/ \E success \in BOOLEAN : Exit(success)

-----------------------------------------------------------------------------
(* The clock does not pass what is due: a sleep lasts a little longer than *)
(* asked for and no more, an end of file, an exit and SIGKILL are prompt.  *)
Due ==
  \/ run.elapsed > run.wakeAt
  \/ run.open \ child.pipes # {}
  \/ run.open = {} /\ ~child.alive
  \/ child.killed /\ child.alive

Elapse == run' = [run EXCEPT !.elapsed = @ + 1] /\ UNCHANGED child

LoopStep ==
  \/ \E n \in Chunks : ReadOutput(n)
  \/ \E p \in Pipes : ReadEof(p)
  \/ WakeUp
  \/ Reap
=============================================================================
