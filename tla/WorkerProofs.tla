----------------------------- MODULE WorkerProofs -----------------------------
(***************************************************************************)
(* First the limits of a child, for every timeout, size limit, delay and   *)
(* ping: what is logged, and how long the child may live.  Then what a     *)
(* result and a report mean, for every job, every content of its files,    *)
(* every way to cut the reads and whatever the children do.                *)
(***************************************************************************)
EXTENDS WorkerProperties, TLAPS

RunType ==
  [pc : {"idle", "running", "done", "failed"}, kind : Kinds \cup {None},
   elapsed : Nat, wakeAt : Nat, termAt : Nat \cup {None},
   output : Nat, truncated : BOOLEAN, open : SUBSET Pipes, success : BOOLEAN]

WorkerTyped ==
  /\ run \in RunType
  /\ child \in [alive : BOOLEAN, killed : BOOLEAN, pipes : SUBSET Pipes]
  /\ beat \in [pinging : BOOLEAN, time : Nat]
  /\ "pc" \in DOMAIN build

(* Children run in three steps of a build, which end with them.            *)
ChildIsAwaited == Running => run.kind \in Kinds /\ build.pc \in {"verify", "differ", "diffoscope"}

(* One notice for the size, and one more for the timeout.                  *)
LogBounded(r) ==
  /\ ~r.truncated => r.output <= SizeLimit[r.kind] /\ r.termAt = None
  /\ r.termAt = None => r.output <= SizeLimit[r.kind] + Notice
  /\ r.output <= SizeLimit[r.kind] + 2 * Notice

(* A child may be late for something due at time t by one tick, and by a   *)
(* ping that is waited for; no ping starts before the clock has moved.     *)
LateFor(t) ==
  IF beat.pinging THEN beat.time <= PingLimit /\ run.elapsed <= t + 1 + beat.time
  ELSE /\ run.elapsed <= t + 1 + PingLimit
       /\ beat.time > 0 => run.elapsed <= t + 1

LastTerm(kind) == Timeout[kind] + 1 + PingLimit
LastWake(kind) == LastTerm(kind) + 2 * KillDelay

(* SIGTERM is sent soon after the timeout; a child that is not killed is   *)
(* looked at again within two delays; and one that is killed is not read.  *)
TimeBounded ==
  /\ run.termAt = None => run.wakeAt = Timeout[run.kind]
  /\ run.termAt # None => run.termAt <= LastTerm(run.kind)
  /\ LateFor(run.wakeAt)
  /\ LateFor(LastWake(run.kind))
  /\ ~child.killed => run.wakeAt <= LastWake(run.kind)
  /\ child.killed => run.open = {}

WorkerInv ==
  /\ WorkerTyped
  /\ ChildIsAwaited
  /\ Running => LogBounded(run) /\ TimeBounded

-----------------------------------------------------------------------------
(* Capture::push_bytes, and Capture::truncate when nothing more fits.      *)

LEMMA PushesBytes ==
  ASSUME NEW r \in RunType, NEW n \in Chunks, r.kind \in Kinds, LogBounded(r),
         NEW t, t = PushBytes(r, n)
  PROVE  /\ t \in RunType
         /\ t.pc = r.pc /\ t.kind = r.kind /\ t.elapsed = r.elapsed /\ t.wakeAt = r.wakeAt
         /\ t.open = r.open
         /\ LogBounded(t)
         /\ t.termAt = r.termAt \/ (r.termAt = None /\ t.termAt = r.elapsed)
<1> DEFINE room == SizeLimit[r.kind] - r.output
<1>1. SizeLimit[r.kind] \in Nat /\ KillAtLimit[r.kind] \in BOOLEAN /\ n \in Nat \ {0} /\ Notice \in Nat
  BY CaptureAssumption
<1>2. CASE r.truncated
  BY <1>2 DEF PushBytes
<1>3. CASE ~r.truncated /\ room < 1
  <2>1. PICK term \in {r.elapsed, r.termAt} :
          t = [r EXCEPT !.output = r.output + Notice, !.truncated = TRUE, !.termAt = term]
    BY <1>3 DEF PushBytes, TruncateOutput
  <2>2. r.output \in Nat /\ r.elapsed \in Nat /\ r.termAt = None
    BY <1>3 DEF RunType, LogBounded
  <2>3. r.output <= SizeLimit[r.kind]
    BY <1>3 DEF LogBounded
  <2>4. /\ t \in RunType
        /\ t.pc = r.pc /\ t.kind = r.kind /\ t.elapsed = r.elapsed /\ t.wakeAt = r.wakeAt
        /\ t.open = r.open /\ t.output = r.output + Notice /\ t.truncated = TRUE
        /\ t.termAt = term
    <3> DEFINE out == r.output + Notice
    <3>1. out \in Nat /\ term \in Nat \cup {None}
      BY <1>1, <2>1, <2>2 DEF RunType
    <3>2. t = [r EXCEPT !.output = out, !.truncated = TRUE, !.termAt = term]
      BY <2>1
    <3> HIDE DEF out
    <3>3. t \in RunType
      BY <3>1, <3>2 DEF RunType
    <3>4. /\ t.pc = r.pc /\ t.kind = r.kind /\ t.elapsed = r.elapsed /\ t.wakeAt = r.wakeAt
          /\ t.open = r.open /\ t.output = out /\ t.truncated = TRUE /\ t.termAt = term
      BY <3>2 DEF RunType
    <3>5. QED  BY <3>3, <3>4 DEF out
  <2>5. LogBounded(t)
    BY <1>1, <2>2, <2>3, <2>4 DEF LogBounded
  <2>6. QED  BY <2>2, <2>4, <2>5
<1>4. CASE ~r.truncated /\ ~(room < 1)
  <2> DEFINE kept == IF n < room THEN n ELSE room
  <2>1. t = [r EXCEPT !.output = @ + kept]
    BY <1>4 DEF PushBytes
  <2>2. r.output \in Nat /\ r.termAt = None
    BY <1>4 DEF RunType, LogBounded
  <2>3. room \in Nat /\ kept \in Nat /\ r.output + kept <= SizeLimit[r.kind]
    BY <1>1, <1>4, <2>2
  <2> HIDE DEF kept, room
  <2>4. QED  BY <1>1, <1>4, <2>1, <2>2, <2>3 DEF LogBounded, RunType
<1>5. QED  BY <1>2, <1>3, <1>4

(* Capture::next_wakeup: SIGTERM once after the timeout, and nothing more  *)
(* is read after SIGKILL.                                                  *)
LEMMA SetsWakeup ==
  ASSUME NEW r \in RunType, r.kind \in Kinds, LogBounded(r), NEW t, t = NextWakeup(r)
  PROVE  /\ t \in RunType
         /\ t.pc = r.pc /\ t.kind = r.kind /\ t.elapsed = r.elapsed
         /\ t.open = IF Overdue(r) THEN {} ELSE r.open
         /\ LogBounded(t)
         /\ r.elapsed <= Timeout[r.kind] => t.wakeAt = Timeout[r.kind] /\ t.termAt = r.termAt
         /\ r.elapsed > Timeout[r.kind] =>
              /\ t.wakeAt = r.elapsed + KillDelay
              /\ t.termAt = IF r.termAt = None THEN r.elapsed ELSE r.termAt
<1> DEFINE s == StopReading(r)
           late == r.elapsed + KillDelay
           out == r.output + Notice
<1>1. /\ Timeout[r.kind] \in Nat /\ SizeLimit[r.kind] \in Nat /\ KillDelay \in Nat /\ Notice \in Nat
      /\ r.elapsed \in Nat /\ r.output \in Nat /\ None \notin Nat
  BY CaptureAssumption DEF RunType
<1>2. /\ s \in RunType
      /\ s.pc = r.pc /\ s.kind = r.kind /\ s.elapsed = r.elapsed /\ s.termAt = r.termAt
      /\ s.output = r.output /\ s.truncated = r.truncated
      /\ s.open = IF Overdue(r) THEN {} ELSE r.open
  <2>1. CASE Overdue(r)
    BY <2>1 DEF StopReading, RunType
  <2>2. CASE ~Overdue(r)
    BY <2>2 DEF StopReading
  <2>3. QED  BY <2>1, <2>2
<1>3. late \in Nat /\ out \in Nat
  BY <1>1
<1>4. CASE r.elapsed <= Timeout[r.kind]
  <2>1. t = [s EXCEPT !.wakeAt = Timeout[r.kind]]
    BY <1>1, <1>4 DEF NextWakeup
  <2> HIDE DEF s
  <2>2. t \in RunType /\ t.wakeAt = Timeout[r.kind]
        /\ t.pc = s.pc /\ t.kind = s.kind /\ t.elapsed = s.elapsed /\ t.termAt = s.termAt
        /\ t.output = s.output /\ t.truncated = s.truncated /\ t.open = s.open
    BY <1>1, <1>2, <2>1 DEF RunType
  <2>3. QED  BY <1>1, <1>2, <1>4, <2>2 DEF LogBounded
<1>5. CASE r.elapsed > Timeout[r.kind] /\ r.termAt = None
  <2>1. t = [[s EXCEPT !.output = s.output + Notice, !.truncated = TRUE, !.termAt = s.elapsed]
               EXCEPT !.wakeAt = late]
    BY <1>1, <1>5 DEF NextWakeup, TruncateOutput
  <2>2. t = [[s EXCEPT !.output = out, !.truncated = TRUE, !.termAt = r.elapsed]
               EXCEPT !.wakeAt = late]
    BY <1>2, <2>1
  <2> HIDE DEF s, out, late
  <2>3. t \in RunType /\ t.wakeAt = late /\ t.termAt = r.elapsed
        /\ t.pc = s.pc /\ t.kind = s.kind /\ t.elapsed = s.elapsed
        /\ t.output = out /\ t.truncated = TRUE /\ t.open = s.open
    BY <1>1, <1>2, <1>3, <2>2 DEF RunType
  <2>4. out <= SizeLimit[r.kind] + 2 * Notice
    BY <1>1, <1>5 DEF out, LogBounded
  <2>5. LogBounded(t)
    BY <1>1, <1>2, <2>3, <2>4 DEF LogBounded
  <2>6. QED  BY <1>1, <1>2, <1>5, <2>3, <2>5 DEF late
<1>6. CASE r.elapsed > Timeout[r.kind] /\ r.termAt # None
  <2>1. t = [s EXCEPT !.wakeAt = late]
    BY <1>1, <1>6 DEF NextWakeup
  <2> HIDE DEF s, late
  <2>2. t \in RunType /\ t.wakeAt = late
        /\ t.pc = s.pc /\ t.kind = s.kind /\ t.elapsed = s.elapsed /\ t.termAt = s.termAt
        /\ t.output = s.output /\ t.truncated = s.truncated /\ t.open = s.open
    BY <1>2, <1>3, <2>1 DEF RunType
  <2>3. LogBounded(t)
    BY <1>2, <2>2 DEF LogBounded
  <2>4. QED  BY <1>1, <1>2, <1>6, <2>2, <2>3 DEF late
<1>7. QED  BY <1>1, <1>4, <1>5, <1>6

(* One turn of the loop on r, which is run after an event.                 *)
LEMMA TurnKeepsInv ==
  ASSUME WorkerInv, Running, Polled, NEW r \in RunType, Turn(r), UNCHANGED <<job, build, beat>>,
         r.pc = "running", r.kind = run.kind, r.elapsed = run.elapsed, r.open \subseteq run.open,
         LogBounded(r), r.termAt = run.termAt \/ (run.termAt = None /\ r.termAt = run.elapsed)
  PROVE  WorkerInv'
<1> DEFINE limit == Timeout[run.kind]
<1>1. /\ run \in RunType /\ run.kind \in Kinds /\ run.elapsed \in Nat /\ run.wakeAt \in Nat
      /\ TimeBounded /\ limit \in Nat
      /\ KillDelay \in Nat /\ PingLimit \in Nat /\ None \notin Nat
      /\ ~beat.pinging /\ beat.time \in Nat
      /\ child \in [alive : BOOLEAN, killed : BOOLEAN, pipes : SUBSET Pipes]
  BY CaptureAssumption, BuildAssumption
  DEF WorkerInv, WorkerTyped, ChildIsAwaited, RunType, Polled
<1>2. /\ run' \in RunType
      /\ run'.pc = "running" /\ run'.kind = run.kind /\ run'.elapsed = run.elapsed
      /\ run'.open = IF Overdue(r) THEN {} ELSE r.open
      /\ LogBounded(run')
      /\ run.elapsed <= limit => run'.wakeAt = limit /\ run'.termAt = r.termAt
      /\ run.elapsed > limit =>
           /\ run'.wakeAt = run.elapsed + KillDelay
           /\ run'.termAt = IF r.termAt = None THEN run.elapsed ELSE r.termAt
  <2>1. run' = NextWakeup(r)
    BY DEF Turn
  <2>2. QED  BY <1>1, <2>1, SetsWakeup
<1>3. child' \in [alive : BOOLEAN, killed : BOOLEAN, pipes : SUBSET Pipes]
      /\ (child'.killed <=> child.killed \/ Overdue(r))
  BY <1>1 DEF Turn
<1>4. WorkerTyped'
  BY <1>2, <1>3 DEF WorkerInv, WorkerTyped
<1>5. ChildIsAwaited'
  BY <1>2 DEF WorkerInv, ChildIsAwaited, Running
<1>6. run.termAt = None => run.elapsed <= LastTerm(run.kind)
  BY <1>1 DEF TimeBounded, LateFor, LastTerm
<1>7. run'.termAt = None => run'.wakeAt = limit
  BY <1>1, <1>2
<1>8. run'.termAt # None => run'.termAt <= LastTerm(run.kind)
  BY <1>1, <1>2, <1>6 DEF TimeBounded
<1>9. run.elapsed <= run'.wakeAt
  BY <1>1, <1>2
<1>10. ~child'.killed => run'.wakeAt <= LastWake(run.kind)
  <2> SUFFICES ASSUME ~child'.killed, run.elapsed > limit PROVE run.elapsed + KillDelay <= LastWake(run.kind)
    BY <1>1, <1>2 DEF LastWake, LastTerm
  <2>1. CASE r.termAt = None
    BY <1>1, <1>6, <2>1 DEF LastWake, LastTerm
  <2>2. CASE r.termAt # None
    <3>1. r.termAt \in Nat /\ r.termAt <= LastTerm(run.kind)
      BY <1>1, <1>6, <2>2 DEF TimeBounded, RunType
    <3>2. run.elapsed <= r.termAt + KillDelay
      BY <1>1, <1>3, <2>2, <3>1 DEF Overdue
    <3>3. QED  BY <1>1, <3>1, <3>2 DEF LastWake, LastTerm
  <2>3. QED  BY <2>1, <2>2
<1>11. child'.killed => run'.open = {}
  BY <1>1, <1>2, <1>3 DEF TimeBounded
<1>12. LateFor(run.wakeAt)'
  BY <1>1, <1>2, <1>9 DEF LateFor
<1>13. LateFor(LastWake(run.kind))'
  BY <1>1, <1>2 DEF LateFor, TimeBounded, LastWake, LastTerm
<1>14. QED
  BY <1>2, <1>4, <1>5, <1>7, <1>8, <1>10, <1>11, <1>12, <1>13
  DEF WorkerInv, TimeBounded, LogBounded, LastWake, LastTerm

-----------------------------------------------------------------------------
(* The steps of a build *)

LEMMA WorkerInitHolds == Init => WorkerInv
BY CaptureAssumption
DEF Init, ProcInit, IdleRun, NoChild, NewBuild, NewBeat, WorkerInv, WorkerTyped, ChildIsAwaited,
    Running, RunType, Pipes

(* When no child runs there is nothing to bound. *)
LEMMA IdleKeepsInv ==
  ASSUME WorkerTyped', ~Running'
  PROVE  WorkerInv'
BY DEF WorkerInv, ChildIsAwaited

LEMMA StartsChild ==
  ASSUME WorkerInv, Polled, NEW kind \in Kinds, Start(kind), GoTo(kind), UNCHANGED beat
  PROVE  WorkerInv'
<1> DEFINE r == [IdleRun EXCEPT !.pc = "running", !.kind = kind, !.open = Pipes]
<1>1. /\ Timeout[kind] \in Nat /\ SizeLimit[kind] \in Nat
      /\ KillDelay \in Nat /\ Notice \in Nat /\ PingLimit \in Nat /\ None \notin Nat
      /\ beat \in [pinging : BOOLEAN, time : Nat] /\ ~beat.pinging /\ beat' = beat
      /\ kind \in {"verify", "differ", "diffoscope"}
  BY CaptureAssumption, BuildAssumption DEF WorkerInv, WorkerTyped, Polled
<1>2. /\ r \in RunType /\ r.pc = "running" /\ r.kind = kind /\ r.elapsed = 0
      /\ r.termAt = None /\ r.output = 0 /\ r.truncated = FALSE
  BY DEF IdleRun, RunType
<1>3. run' = NextWakeup(r)
  BY DEF Start
<1> HIDE DEF r
<1>4. LogBounded(r)
  BY <1>1, <1>2 DEF LogBounded
<1>5. /\ run' \in RunType /\ run'.pc = "running" /\ run'.kind = kind /\ run'.elapsed = 0
      /\ LogBounded(run') /\ run'.wakeAt = Timeout[kind] /\ run'.termAt = None
  BY <1>1, <1>2, <1>3, <1>4, SetsWakeup
<1>6. child' = [alive |-> TRUE, killed |-> FALSE, pipes |-> Pipes]
  BY DEF Start
<1>7. "pc" \in DOMAIN build' /\ build'.pc = kind
  BY DEF GoTo, WorkerInv, WorkerTyped
<1>8. TimeBounded'
  BY <1>1, <1>5, <1>6 DEF TimeBounded, LateFor, LastWake, LastTerm
<1>9. QED
  BY <1>1, <1>5, <1>6, <1>7, <1>8 DEF WorkerInv, WorkerTyped, ChildIsAwaited, LogBounded

(* A step of the loop of proc::run. *)
LEMMA LoopKeepsInv ==
  ASSUME WorkerInv, Polled, LoopStep \/ RunFails, UNCHANGED <<job, build, beat>>
  PROVE  WorkerInv'
<1>1. Running /\ run \in RunType /\ run.kind \in Kinds /\ LogBounded(run)
  BY DEF LoopStep, RunFails, ReadOutput, ReadEof, WakeUp, Reap, WorkerInv, WorkerTyped,
         ChildIsAwaited
<1>2. ASSUME NEW n \in Chunks, ReadOutput(n) PROVE WorkerInv'
  <2> DEFINE r == PushBytes(run, n)
  <2>1. /\ r \in RunType
        /\ r.pc = run.pc /\ r.kind = run.kind /\ r.elapsed = run.elapsed
        /\ r.open = run.open
        /\ LogBounded(r)
        /\ r.termAt = run.termAt \/ (run.termAt = None /\ r.termAt = run.elapsed)
    BY <1>1, PushesBytes
  <2>2. Turn(r)
    BY <1>2 DEF ReadOutput
  <2> HIDE DEF r
  <2>3. QED  BY <1>1, <2>1, <2>2, TurnKeepsInv DEF Running
<1>3. ASSUME NEW p \in Pipes, ReadEof(p) PROVE WorkerInv'
  <2> DEFINE r == [run EXCEPT !.open = @ \ {p}]
  <2>1. r \in RunType /\ r.pc = run.pc /\ r.kind = run.kind /\ r.elapsed = run.elapsed
        /\ r.open \subseteq run.open /\ r.termAt = run.termAt
        /\ r.output = run.output /\ r.truncated = run.truncated
    BY <1>1 DEF RunType
  <2>2. Turn(r)
    BY <1>3 DEF ReadEof
  <2> HIDE DEF r
  <2>3. LogBounded(r)
    BY <1>1, <2>1 DEF LogBounded
  <2>4. QED  BY <1>1, <2>1, <2>2, <2>3, TurnKeepsInv DEF Running
<1>4. CASE WakeUp
  BY <1>1, <1>4, TurnKeepsInv DEF WakeUp, Running
<1>5. CASE Reap \/ RunFails
  <2>1. WorkerTyped'
    BY <1>5 DEF Reap, RunFails, WorkerInv, WorkerTyped, RunType
  <2>2. ~Running'
    BY <1>1, <1>5 DEF Reap, RunFails, Running, RunType
  <2>3. QED  BY <2>1, <2>2, IdleKeepsInv
<1>6. QED  BY <1>2, <1>3, <1>4, <1>5 DEF LoopStep

(* The child may do what it likes: nothing here depends on it.             *)
LEMMA ChildKeepsInv ==
  ASSUME WorkerInv, ChildStep, UNCHANGED <<job, build, beat>>
  PROVE  WorkerInv'
<1>1. /\ Running /\ run \in RunType
      /\ run' \in RunType /\ run'.pc = run.pc /\ run'.kind = run.kind
      /\ run'.elapsed = run.elapsed /\ run'.wakeAt = run.wakeAt /\ run'.termAt = run.termAt
      /\ run'.output = run.output /\ run'.truncated = run.truncated /\ run'.open = run.open
  BY DEF ChildStep, ClosePipe, Exit, WorkerInv, WorkerTyped, RunType
<1>2. child' \in [alive : BOOLEAN, killed : BOOLEAN, pipes : SUBSET Pipes]
      /\ child'.killed = child.killed
  BY DEF ChildStep, ClosePipe, Exit, WorkerInv, WorkerTyped
<1>3. QED
  BY <1>1, <1>2
  DEF WorkerInv, WorkerTyped, ChildIsAwaited, Running, LogBounded, TimeBounded, LateFor,
      LastWake, LastTerm

-----------------------------------------------------------------------------
(* The clock and the heartbeat *)

LEMMA PingsKeepInv ==
  ASSUME WorkerInv, StartPing \/ EndPing
  PROVE  WorkerInv'
<1>1. /\ run' = run /\ child' = child /\ build' = build
      /\ beat \in [pinging : BOOLEAN, time : Nat]
      /\ PingLimit \in Nat /\ PingInterval \in Nat
  BY BuildAssumption DEF StartPing, EndPing, WorkerInv, WorkerTyped
<1>2. beat' \in [pinging : BOOLEAN, time : Nat] /\ beat'.time = 0
  <2>1. CASE StartPing
    BY <2>1 DEF StartPing
  <2>2. CASE EndPing
    BY <2>2 DEF EndPing, NewBeat
  <2>3. QED  BY <2>1, <2>2
<1>3. WorkerTyped' /\ ChildIsAwaited' /\ (Running' <=> Running)
  BY <1>1, <1>2 DEF WorkerInv, WorkerTyped, ChildIsAwaited, Running
<1>4. ASSUME Running PROVE LogBounded(run') /\ TimeBounded'
  <2>1. run \in RunType /\ run.kind \in Kinds /\ LogBounded(run) /\ TimeBounded
    BY <1>4 DEF WorkerInv, WorkerTyped, ChildIsAwaited
  <2>2. /\ run.elapsed \in Nat /\ run.wakeAt \in Nat /\ LastWake(run.kind) \in Nat
    BY <2>1, <1>1, CaptureAssumption DEF RunType, LastWake, LastTerm
  <2>3. ASSUME NEW t \in Nat, LateFor(t) PROVE LateFor(t)'
    <3>1. CASE StartPing
      <4>1. ~beat.pinging /\ beat.time > 0 /\ beat'.pinging
        BY <1>1, <3>1 DEF StartPing, Polled
      <4>2. run.elapsed <= t + 1
        BY <2>3, <4>1 DEF LateFor
      <4>3. QED  BY <1>1, <1>2, <2>2, <4>1, <4>2 DEF LateFor
    <3>2. CASE EndPing
      <4>1. beat.pinging /\ ~beat'.pinging
        BY <3>2 DEF EndPing, NewBeat
      <4>2. beat.time <= PingLimit /\ run.elapsed <= t + 1 + beat.time
        BY <2>3, <4>1 DEF LateFor
      <4>3. QED  BY <1>1, <1>2, <2>2, <4>1, <4>2 DEF LateFor
    <3>3. QED  BY <3>1, <3>2
  <2>4. PICK wake \in Nat : wake = run.wakeAt
    BY <2>2
  <2>5. PICK last \in Nat : last = LastWake(run.kind)
    BY <2>2
  <2>6. LateFor(wake)' /\ LateFor(last)'
    BY <2>1, <2>3, <2>4, <2>5 DEF TimeBounded
  <2>7. LateFor(run.wakeAt)' /\ LateFor(LastWake(run.kind))'
    BY <1>1, <2>4, <2>5, <2>6 DEF LateFor, LastWake, LastTerm
  <2>8. QED  BY <1>1, <2>1, <2>7 DEF TimeBounded, LastWake, LastTerm
<1>5. QED  BY <1>1, <1>3, <1>4 DEF WorkerInv

(* The clock does not pass what is due, unless a ping is waited for.       *)
LEMMA TickKeepsInv ==
  ASSUME WorkerInv, Tick
  PROVE  WorkerInv'
<1>1. /\ Running /\ run \in RunType /\ run.kind \in Kinds /\ LogBounded(run) /\ TimeBounded
      /\ beat \in [pinging : BOOLEAN, time : Nat]
      /\ child \in [alive : BOOLEAN, killed : BOOLEAN, pipes : SUBSET Pipes]
      /\ child' = child /\ build' = build
  BY DEF Tick, Elapse, WorkerInv, WorkerTyped, ChildIsAwaited
<1>2. /\ run.elapsed \in Nat /\ run.wakeAt \in Nat /\ LastWake(run.kind) \in Nat
      /\ PingLimit \in Nat /\ beat.time \in Nat
  <2>1. Timeout[run.kind] \in Nat /\ KillDelay \in Nat /\ PingLimit \in Nat
    BY <1>1, BuildAssumption, CaptureAssumption
  <2>2. LastWake(run.kind) \in Nat
    BY <2>1 DEF LastWake, LastTerm
  <2>3. run.elapsed \in Nat /\ run.wakeAt \in Nat /\ beat.time \in Nat
    BY <1>1 DEF RunType
  <2>4. QED  BY <2>1, <2>2, <2>3
<1>3. /\ run' \in RunType /\ run'.pc = run.pc /\ run'.kind = run.kind
      /\ run'.elapsed = run.elapsed + 1 /\ run'.wakeAt = run.wakeAt /\ run'.termAt = run.termAt
      /\ run'.output = run.output /\ run'.truncated = run.truncated /\ run'.open = run.open
  BY <1>1, <1>2 DEF Tick, Elapse, RunType
<1>4. /\ beat' \in [pinging : BOOLEAN, time : Nat]
      /\ beat'.pinging = beat.pinging /\ beat'.time = beat.time + 1
  BY <1>1 DEF Tick
<1>5. WorkerTyped' /\ ChildIsAwaited'
  BY <1>1, <1>3, <1>4 DEF WorkerInv, WorkerTyped, ChildIsAwaited, Running
<1>6. LogBounded(run')
  BY <1>1, <1>3 DEF LogBounded
<1>7. LateFor(run.wakeAt)' /\ LateFor(LastWake(run.kind))'
  <2>1. CASE beat.pinging
    BY <1>1, <1>2, <1>3, <1>4, <2>1 DEF TimeBounded, LateFor, LastWake, LastTerm, Tick, Polled
  <2>2. CASE ~beat.pinging
    <3>1. ~Due
      BY <2>2 DEF Tick
    <3>2. run.elapsed <= run.wakeAt
      BY <1>2, <3>1 DEF Due
    <3>3. ~child.killed
      BY <1>1, <3>1 DEF Due, TimeBounded
    <3>4. run.elapsed <= LastWake(run.kind)
      BY <1>1, <1>2, <3>2, <3>3 DEF TimeBounded
    <3>5. QED
      BY <1>2, <1>3, <1>4, <2>2, <3>2, <3>4 DEF LateFor, LastWake, LastTerm
  <2>3. QED  BY <2>1, <2>2, <1>1
<1>8. TimeBounded'
  BY <1>1, <1>3, <1>7 DEF TimeBounded, LastWake, LastTerm
<1>9. QED  BY <1>5, <1>6, <1>8 DEF WorkerInv

-----------------------------------------------------------------------------
(* A step of the build outside proc::run leaves no child behind.           *)
LEMMA EndsKeepInv ==
  ASSUME WorkerInv, build.pc \notin {"verify", "differ", "diffoscope"},
         UNCHANGED <<run, child>>, beat' \in {beat, NewBeat}, "pc" \in DOMAIN build'
  PROVE  WorkerInv'
<1>1. ~Running'
  BY DEF WorkerInv, ChildIsAwaited, Running
<1>2. NewBeat \in [pinging : BOOLEAN, time : Nat]
  BY DEF NewBeat
<1>3. WorkerTyped'
  BY <1>2 DEF WorkerInv, WorkerTyped
<1>4. QED  BY <1>1, <1>3, IdleKeepsInv

LEMMA IdleRunKeepsInv ==
  ASSUME WorkerInv, run' = IdleRun, child' = NoChild, UNCHANGED beat, "pc" \in DOMAIN build'
  PROVE  WorkerInv'
<1>1. ~Running'
  BY DEF Running, IdleRun
<1>2. IdleRun \in RunType /\ NoChild \in [alive : BOOLEAN, killed : BOOLEAN, pipes : SUBSET Pipes]
  BY DEF IdleRun, NoChild, RunType
<1>3. WorkerTyped'
  BY <1>2 DEF WorkerInv, WorkerTyped
<1>4. QED  BY <1>1, <1>3, IdleKeepsInv

LEMMA BuildKeepsInv ==
  ASSUME WorkerInv, Progress \/ FailBuild \/ NextJob
  PROVE  WorkerInv'
<1>0. "pc" \in DOMAIN build
  BY DEF WorkerInv, WorkerTyped
<1>1. CASE Download
  <2>1. build.pc = "download" /\ UNCHANGED <<run, child, beat>> /\ "pc" \in DOMAIN build'
    BY <1>0, <1>1 DEF Download, At
  <2>2. QED  BY <2>1, EndsKeepInv
<1>2. CASE StartBackend
  <2>1. Polled /\ Start("verify") /\ GoTo("verify") /\ UNCHANGED beat /\ "verify" \in Kinds
    BY <1>2, BuildAssumption DEF StartBackend, At
  <2>2. QED  BY <2>1, StartsChild
<1>3. CASE EndBackend
  <2>1. run' = IdleRun /\ child' = NoChild /\ UNCHANGED beat /\ "pc" \in DOMAIN build'
    BY <1>0, <1>3 DEF EndBackend
  <2>2. QED  BY <2>1, IdleRunKeepsInv
<1>4. CASE NoOutput
  <2>1. build.pc = "artifact" /\ UNCHANGED <<run, child, beat>> /\ "pc" \in DOMAIN build'
    BY <1>0, <1>4 DEF NoOutput, At, Result
  <2>2. QED  BY <2>1, EndsKeepInv
<1>5. CASE StartDiffer
  <2>1. Polled /\ Start("differ") /\ GoTo("differ") /\ UNCHANGED beat /\ "differ" \in Kinds
    BY <1>5, BuildAssumption DEF StartDiffer, At
  <2>2. QED  BY <2>1, StartsChild
<1>6. CASE EndDiffer
  <2>1. run' = IdleRun /\ child' = NoChild /\ UNCHANGED beat /\ "pc" \in DOMAIN build'
    BY <1>0, <1>6 DEF EndDiffer, GoTo
  <2>2. QED  BY <2>1, IdleRunKeepsInv
<1>7. CASE StartCompare
  <2>1. build.pc = "artifact" /\ UNCHANGED <<run, child, beat>> /\ "pc" \in DOMAIN build'
    BY <1>0, <1>7 DEF StartCompare, At, GoTo
  <2>2. QED  BY <2>1, EndsKeepInv
<1>8. ASSUME NEW n \in ReadSizes, CompareChunk(n) PROVE WorkerInv'
  <2>1. build.pc = "compare" /\ UNCHANGED <<run, child, beat>> /\ "pc" \in DOMAIN build'
    BY <1>0, <1>8 DEF CompareChunk, At, GoTo
  <2>2. QED  BY <2>1, EndsKeepInv
<1>9. CASE CompareEnd
  <2>1. build.pc = "compare" /\ UNCHANGED <<run, child, beat>> /\ "pc" \in DOMAIN build'
    BY <1>0, <1>9 DEF CompareEnd, At, GoTo
  <2>2. QED  BY <2>1, EndsKeepInv
<1>10. ASSUME NEW attested \in BOOLEAN, Attest(attested) PROVE WorkerInv'
  <2>1. build.pc = "attest" /\ UNCHANGED <<run, child, beat>> /\ "pc" \in DOMAIN build'
    BY <1>0, <1>10 DEF Attest, At, Result
  <2>2. QED  BY <2>1, EndsKeepInv
<1>11. CASE SkipDiffoscope
  <2>1. build.pc = "mismatch" /\ UNCHANGED <<run, child, beat>> /\ "pc" \in DOMAIN build'
    BY <1>0, <1>11 DEF SkipDiffoscope, At, Result
  <2>2. QED  BY <2>1, EndsKeepInv
<1>12. CASE StartDiffoscope
  <2>1. Polled /\ Start("diffoscope") /\ GoTo("diffoscope") /\ UNCHANGED beat
        /\ "diffoscope" \in Kinds
    BY <1>12, BuildAssumption DEF StartDiffoscope, At
  <2>2. QED  BY <2>1, StartsChild
<1>13. CASE EndDiffoscope
  <2>1. run' = IdleRun /\ child' = NoChild /\ UNCHANGED beat /\ "pc" \in DOMAIN build'
    BY <1>0, <1>13 DEF EndDiffoscope, Result
  <2>2. QED  BY <2>1, IdleRunKeepsInv
<1>14. CASE Finish
  <2>1. build.pc = "artifact" /\ UNCHANGED <<run, child, beat>> /\ "pc" \in DOMAIN build'
    BY <1>0, <1>14 DEF Finish, At, Report
  <2>2. QED  BY <2>1, EndsKeepInv
<1>15. CASE FailBuild
  <2>1. UNCHANGED beat /\ child' = NoChild /\ "pc" \in DOMAIN build'
    BY <1>0, <1>15 DEF FailBuild, CanFail, Report
  <2>2. CASE run' = IdleRun
    BY <2>1, <2>2, IdleRunKeepsInv
  <2>3. CASE build.pc \in {"download", "compare", "attest"} /\ run' = run
    <3>1. ~Running'
      BY <2>3 DEF WorkerInv, ChildIsAwaited, Running
    <3>2. WorkerTyped'
      BY <2>1, <2>3 DEF WorkerInv, WorkerTyped, NoChild, Pipes
    <3>3. QED  BY <3>1, <3>2, IdleKeepsInv
  <2>4. QED  BY <1>15, <2>2, <2>3 DEF FailBuild, CanFail
<1>16. CASE NextJob
  <2>1. build.pc = "report" /\ UNCHANGED <<run, child>> /\ beat' = NewBeat /\ "pc" \in DOMAIN build'
    BY <1>16 DEF NextJob, At, NewBuild
  <2>2. QED  BY <2>1, EndsKeepInv
<1>17. QED
  BY <1>1, <1>2, <1>3, <1>4, <1>5, <1>6, <1>7, <1>8, <1>9, <1>10, <1>11, <1>12, <1>13, <1>14,
     <1>15, <1>16 DEF Progress

LEMMA NextKeepsInv ==
  ASSUME WorkerInv, [Next]_vars
  PROVE  WorkerInv'
<1>1. CASE Progress \/ FailBuild \/ NextJob
  BY <1>1, BuildKeepsInv
<1>2. CASE ProcStep
  <2>1. UNCHANGED <<job, build, beat>>
    BY <1>2 DEF ProcStep
  <2>2. CASE Polled /\ (LoopStep \/ RunFails)
    BY <2>1, <2>2, LoopKeepsInv
  <2>3. CASE ChildStep
    BY <2>1, <2>3, ChildKeepsInv
  <2>4. QED  BY <1>2, <2>2, <2>3 DEF ProcStep
<1>3. CASE StartPing \/ EndPing
  BY <1>3, PingsKeepInv
<1>4. CASE Tick
  BY <1>4, TickKeepsInv
<1>5. CASE UNCHANGED vars
  <2>1. run' = run /\ child' = child /\ build' = build /\ beat' = beat
    BY <1>5 DEF vars
  <2>2. QED
    BY <2>1 DEF WorkerInv, WorkerTyped, ChildIsAwaited, Running, LogBounded, TimeBounded,
                LateFor, LastWake, LastTerm
<1>6. QED  BY <1>1, <1>2, <1>3, <1>4, <1>5 DEF Next

-----------------------------------------------------------------------------
(* What a child has logged, and how late its end may be, is bounded in     *)
(* every state of every build.                                             *)
THEOREM WorkerInvHolds == Spec => []WorkerInv
<1>1. Init => WorkerInv
  BY WorkerInitHolds
<1>2. WorkerInv /\ [Next]_vars => WorkerInv'
  BY NextKeepsInv
<1>3. QED  BY <1>1, <1>2, PTL DEF Spec

(* size_limit - output.len() never underflows, and a log holds what fits   *)
(* and at most two notices, however the reads of push_bytes are cut.       *)
THEOREM LogsAreBounded == Spec => []LogWithinLimit
<1>1. WorkerInv => LogWithinLimit
  BY DEF WorkerInv, LogBounded, LogWithinLimit
<1>2. QED  BY <1>1, WorkerInvHolds, PTL

(* However a child, its own children and the daemon's answers to the pings *)
(* behave, proc::run is done with the child before the deadline.           *)
THEOREM ChildrenEndInTime == Spec => []RunEndsInTime
<1>1. WorkerInv => RunEndsInTime
  <2> SUFFICES ASSUME WorkerInv, Running PROVE run.elapsed <= Deadline(run.kind)
    BY DEF RunEndsInTime
  <2>1. /\ LateFor(LastWake(run.kind)) /\ run \in RunType /\ run.kind \in Kinds
        /\ beat \in [pinging : BOOLEAN, time : Nat]
    BY DEF WorkerInv, WorkerTyped, ChildIsAwaited, TimeBounded
  <2>2. /\ run.elapsed \in Nat /\ Timeout[run.kind] \in Nat
        /\ KillDelay \in Nat /\ PingLimit \in Nat /\ beat.time \in Nat
    BY <2>1, BuildAssumption, CaptureAssumption DEF RunType
  <2>3. QED  BY <2>1, <2>2 DEF LateFor, LastWake, LastTerm, Deadline
<1>2. QED  BY <1>1, WorkerInvHolds, PTL

-----------------------------------------------------------------------------
(* What a result means.                                                    *)
BuildType ==
  [pc : BuildSteps, got : Nat, inputs : [Files -> Contents \cup {None}],
   out : [Files -> Contents \cup {None}], pos : Nat,
   results : Seq(Results), status : {"GOOD", "BAD", "FAIL", None}]

BuildTyped == job \in Jobs /\ build \in BuildType

(* No download among the first got has replaced the k-th one.              *)
Kept(k) ==
  \A n \in k + 1 .. build.got :
    Wanted[n].file = Wanted[k].file => Wanted[n].content = Wanted[k].content

InputsAreWanted ==
  \A k \in 1 .. build.got :
    /\ build.inputs[Wanted[k].file] \in Contents
    /\ Kept(k) => build.inputs[Wanted[k].file] = Wanted[k].content

(* All is downloaded before the backend starts. *)
DownloadsFirst ==
  /\ build.got <= Len(Wanted)
  /\ build.pc \notin {"download", "report"} => build.got = Len(Wanted)

ResultsFit ==
  /\ Len(build.results) <= Len(job.artifacts)
  /\ build.pc \in {"compare", "differ", "attest", "mismatch", "diffoscope"} => HasNext
  /\ build.pc \in {"download", "verify"} => build.results = <<>>

(* What compare_files has read so far, and what it has found.              *)
ComparedSoFar ==
  /\ build.pc \in {"download", "verify", "artifact"} => build.pos = 0
  /\ build.pc = "compare" =>
       /\ Rebuilt \in Contents
       /\ build.pos <= Len(Original) /\ build.pos <= Len(Rebuilt)
       /\ \A i \in 1 .. build.pos : Original[i] = Rebuilt[i]
  /\ build.pc = "differ" => job.differ
  /\ ~job.differ =>
       /\ build.pc = "attest" => Rebuilt = Original
       /\ build.pc \in {"mismatch", "diffoscope"} => Rebuilt # Original

ReproducedInv ==
  /\ BuildTyped
  /\ DownloadsFirst
  /\ InputsAreWanted
  /\ ResultsFit
  /\ ComparedSoFar
  /\ ReportIsComplete
  /\ GoodMeansReproduced

-----------------------------------------------------------------------------
(* The downloads: the artifacts in their order, then the input.            *)
LEMMA WantedIs ==
  ASSUME job \in Jobs
  PROVE  /\ job.artifacts \in Seq(Downloads)
         /\ Wanted \in Seq(Downloads)
         /\ Len(Wanted) = Len(job.artifacts) + 1
         /\ \A k \in 1 .. Len(job.artifacts) : Wanted[k] = job.artifacts[k]
<1>1. job.artifacts \in Seq(Downloads) /\ job.input \in Downloads
  BY BuildAssumption
<1>2. QED  BY <1>1 DEF Wanted

LEMMA ReproducedInitHolds == Init => ReproducedInv
<1> SUFFICES ASSUME Init PROVE ReproducedInv
  OBVIOUS
<1>1. job \in Jobs /\ build = NewBuild
  BY DEF Init
<1>2. NewBuild \in BuildType /\ NewBuild.got = 0 /\ NewBuild.pc = "download"
      /\ NewBuild.results = <<>> /\ NewBuild.pos = 0
  BY DEF NewBuild, BuildType, NoFiles, BuildSteps
<1>3. QED
  BY <1>1, <1>2, WantedIs
  DEF ReproducedInv, BuildTyped, DownloadsFirst, InputsAreWanted, ResultsFit, ComparedSoFar,
      ReportIsComplete, GoodMeansReproduced

(* The artifact whose result is next, and what was downloaded for it.      *)
LEMMA CurrentIs ==
  ASSUME ReproducedInv, HasNext, build.pc \notin {"download", "report"}
  PROVE  LET k == Len(build.results) + 1
         IN /\ k \in 1 .. Len(job.artifacts)
            /\ Current = job.artifacts[k] /\ Current \in Downloads
            /\ Original \in Contents
            /\ Rebuilt \in Contents \cup {None}
            /\ ~Replaced(k) => Original = job.artifacts[k].content
<1> DEFINE k == Len(build.results) + 1
<1>1. /\ job \in Jobs /\ build \in BuildType /\ build.got = Len(Wanted)
      /\ InputsAreWanted
  BY DEF ReproducedInv, BuildTyped, DownloadsFirst
<1>2. k \in 1 .. Len(job.artifacts) /\ k \in 1 .. build.got /\ Wanted[k] = job.artifacts[k]
  BY <1>1, WantedIs DEF HasNext, BuildType
<1>3. Current = job.artifacts[k]
  BY DEF Current
<1> HIDE DEF k
<1>4. Current \in Downloads /\ Wanted[k] = Current
  BY <1>1, <1>2, <1>3, WantedIs
<1>5. Original \in Contents
  BY <1>1, <1>2, <1>4 DEF InputsAreWanted, Original
<1>6. Rebuilt \in Contents \cup {None}
  BY <1>1, <1>4 DEF Rebuilt, BuildType, Downloads
<1>7. ~Replaced(k) => Original = job.artifacts[k].content
  BY <1>1, <1>2, <1>4 DEF InputsAreWanted, Kept, Replaced, Original
<1>8. QED  BY <1>2, <1>3, <1>4, <1>5, <1>6, <1>7 DEF k

(* A result is right if it says whether the two files are the same.        *)
LEMMA ResultKeepsInv ==
  ASSUME ReproducedInv, HasNext, build.pc \notin {"download", "report"},
         NEW status \in {"GOOD", "BAD"}, NEW attested \in BOOLEAN, NEW diff \in BOOLEAN,
         ~job.differ => (status = "GOOD" <=> Rebuilt = Original),
         Result(status, attested, diff), job' = job
  PROVE  ReproducedInv'
<1> DEFINE k == Len(build.results) + 1
           res == [status |-> status, attested |-> attested, diff |-> diff]
<1>1. /\ job \in Jobs /\ build \in BuildType /\ build.results \in Seq(Results)
      /\ res \in Results /\ res.status = status
  BY DEF ReproducedInv, BuildTyped, BuildType, Results
<1>2. build' = [build EXCEPT !.results = Append(build.results, res), !.pos = 0, !.pc = "artifact"]
  BY DEF Result
<1>3. /\ k \in 1 .. Len(job.artifacts)
      /\ Current = job.artifacts[k]
      /\ ~Replaced(k) => Original = job.artifacts[k].content
  BY CurrentIs
<1> HIDE DEF res
<1>4. /\ Append(build.results, res) \in Seq(Results)
      /\ Len(Append(build.results, res)) = k
      /\ \A n \in 1 .. Len(build.results) : Append(build.results, res)[n] = build.results[n]
      /\ Append(build.results, res)[k] = res
  BY <1>1
<1>5. /\ build' \in BuildType
      /\ build'.results = Append(build.results, res) /\ build'.pos = 0 /\ build'.pc = "artifact"
      /\ build'.got = build.got /\ build'.inputs = build.inputs /\ build'.out = build.out
  BY <1>1, <1>2, <1>4 DEF BuildType, BuildSteps
<1>6. Wanted' = Wanted
  BY DEF Wanted
<1>7. BuildTyped' /\ DownloadsFirst' /\ InputsAreWanted'
  BY <1>1, <1>5, <1>6 DEF ReproducedInv, BuildTyped, DownloadsFirst, InputsAreWanted, Kept
<1>8. ResultsFit' /\ ComparedSoFar' /\ ReportIsComplete'
  BY <1>3, <1>4, <1>5 DEF ResultsFit, ComparedSoFar, ReportIsComplete
<1>9. ASSUME NEW n \in DOMAIN build'.results, ~job.differ, ~Replaced(n)
      PROVE  build'.results[n].status = "GOOD"
               <=> build.out[job.artifacts[n].file] = job.artifacts[n].content
  <2>1. n \in 1 .. k
    BY <1>4, <1>5, <1>9
  <2>2. CASE n = k
    BY <1>1, <1>3, <1>4, <1>5, <1>9, <2>2 DEF Rebuilt
  <2>3. CASE n # k
    <3>1. n \in DOMAIN build.results /\ build'.results[n] = build.results[n]
      BY <1>1, <1>4, <1>5, <2>1, <2>3
    <3>2. QED  BY <1>9, <3>1 DEF ReproducedInv, GoodMeansReproduced
  <2>4. QED  BY <2>2, <2>3
<1>10. GoodMeansReproduced'
  BY <1>5, <1>6, <1>9 DEF GoodMeansReproduced, Replaced
<1>11. QED  BY <1>7, <1>8, <1>10 DEF ReproducedInv

-----------------------------------------------------------------------------
(* A step that goes on with the same files and results.                    *)
LEMMA GoingOnKeepsInv ==
  ASSUME ReproducedInv, job' = job, build' \in BuildType,
         build'.got = build.got, build'.inputs = build.inputs, build'.out = build.out,
         build'.results = build.results,
         build.got = Len(Wanted), build'.pc \notin {"download", "report"},
         build'.pc = "verify" => build.results = <<>>,
         build'.pc \in {"compare", "differ", "attest", "mismatch", "diffoscope"} => HasNext,
         ComparedSoFar'
  PROVE  ReproducedInv'
<1>1. Wanted' = Wanted
  BY DEF Wanted
<1>2. BuildTyped' /\ DownloadsFirst' /\ InputsAreWanted'
  BY <1>1 DEF ReproducedInv, BuildTyped, DownloadsFirst, InputsAreWanted, Kept
<1>3. ResultsFit' /\ ReportIsComplete'
  BY DEF ReproducedInv, ResultsFit, ReportIsComplete, HasNext
<1>4. GoodMeansReproduced'
  BY <1>1 DEF ReproducedInv, GoodMeansReproduced, Replaced
<1>5. QED  BY <1>2, <1>3, <1>4 DEF ReproducedInv

LEMMA GoToKeepsInv ==
  ASSUME ReproducedInv, job' = job, NEW step \in BuildSteps \ {"download", "report", "artifact"},
         GoTo(step), build.got = Len(Wanted),
         step = "verify" => build.results = <<>> /\ build.pos = 0,
         step # "verify" => HasNext /\ build.pc \notin {"download", "report"},
         step = "compare" => Rebuilt # None /\ build.pos = 0,
         step = "differ" => job.differ,
         ~job.differ =>
           (step = "attest" => Rebuilt = Original) /\ (step \in {"mismatch", "diffoscope"} => Rebuilt # Original)
  PROVE  ReproducedInv'
<1>1. build \in BuildType
  BY DEF ReproducedInv, BuildTyped
<1>2. /\ build' \in BuildType /\ build'.pc = step
      /\ build'.got = build.got /\ build'.inputs = build.inputs /\ build'.out = build.out
      /\ build'.results = build.results /\ build'.pos = build.pos
  BY <1>1 DEF GoTo, BuildType
<1>3. step = "compare" => Rebuilt \in Contents /\ Len(Rebuilt) \in Nat /\ Len(Original) \in Nat
  BY CurrentIs, BuildAssumption
<1>4. Rebuilt' = Rebuilt /\ Original' = Original
  BY <1>2 DEF Rebuilt, Original, Current
<1>5. ComparedSoFar'
  BY <1>2, <1>3, <1>4 DEF ComparedSoFar
<1>6. QED  BY <1>2, <1>5, GoingOnKeepsInv

(* A later download of the same name replaces the file.                    *)
LEMMA DownloadKeepsInv ==
  ASSUME ReproducedInv, Download
  PROVE  ReproducedInv'
<1> DEFINE g == build.got + 1
           d == Wanted[g]
<1>1. /\ job \in Jobs /\ build \in BuildType /\ job' = job
      /\ build.pc = "download" /\ build.got < Len(Wanted) /\ build.got \in Nat
      /\ build.results = <<>> /\ build.pos = 0
      /\ build' = [build EXCEPT !.got = @ + 1, !.inputs[d.file] = d.content]
  BY DEF Download, At, ReproducedInv, BuildTyped, BuildType, ResultsFit, ComparedSoFar
<1>2. /\ Wanted \in Seq(Downloads) /\ Wanted' = Wanted
      /\ g \in 1 .. Len(Wanted) /\ g \in Nat
  BY <1>1, WantedIs DEF Wanted
<1>3. \A k \in 1 .. Len(Wanted) : Wanted[k].file \in Files /\ Wanted[k].content \in Contents
  <2>1. \A k \in 1 .. Len(Wanted) : Wanted[k] \in Downloads
    BY <1>2
  <2>2. QED  BY <2>1 DEF Downloads
<1> HIDE DEF d, g
<1>4. d.file \in Files /\ d.content \in Contents
  BY <1>2, <1>3 DEF d
<1>5. /\ build' \in BuildType
      /\ build'.got = g /\ build'.inputs = [build.inputs EXCEPT ![d.file] = d.content]
      /\ build'.pc = build.pc /\ build'.results = build.results /\ build'.pos = build.pos
  BY <1>1, <1>2, <1>4 DEF BuildType, g
<1>6. ASSUME NEW k \in 1 .. g
      PROVE  /\ build'.inputs[Wanted[k].file] \in Contents
             /\ Kept(k)' => build'.inputs[Wanted[k].file] = Wanted[k].content
  <2>1. Wanted[k].file \in Files /\ Wanted[k].content \in Contents
    BY <1>2, <1>3
  <2>2. build'.inputs[Wanted[k].file] =
          IF Wanted[k].file = d.file THEN d.content ELSE build.inputs[Wanted[k].file]
    BY <1>1, <1>5, <2>1 DEF BuildType
  <2>3. CASE k = g
    BY <1>4, <2>2, <2>3 DEF d
  <2>4. CASE k # g /\ Wanted[k].file = d.file
    <3>1. g \in k + 1 .. g
      BY <1>2, <2>4
    <3>2. Kept(k)' => d.content = Wanted[k].content
      BY <1>2, <1>5, <2>4, <3>1 DEF Kept, d
    <3>3. QED  BY <1>4, <2>2, <2>4, <3>2
  <2>5. CASE k # g /\ Wanted[k].file # d.file
    <3>1. k \in 1 .. build.got
      BY <1>1, <2>5 DEF g
    <3>2. Kept(k)' => Kept(k)
      BY <1>1, <1>2, <1>5 DEF Kept, g
    <3>3. QED  BY <2>2, <2>5, <3>1, <3>2 DEF ReproducedInv, InputsAreWanted
  <2>6. QED  BY <2>3, <2>4, <2>5
<1>7. InputsAreWanted'
  BY <1>2, <1>5, <1>6 DEF InputsAreWanted
<1>8. BuildTyped' /\ DownloadsFirst' /\ ResultsFit'
  BY <1>1, <1>2, <1>5 DEF BuildTyped, DownloadsFirst, ReproducedInv, ResultsFit
<1>9. ComparedSoFar' /\ ReportIsComplete' /\ GoodMeansReproduced'
  BY <1>1, <1>5 DEF ComparedSoFar, ReportIsComplete, GoodMeansReproduced
<1>10. QED  BY <1>7, <1>8, <1>9 DEF ReproducedInv

(* The backend leaves what it likes, before there is a result.             *)
LEMMA BackendKeepsInv ==
  ASSUME ReproducedInv, EndBackend
  PROVE  ReproducedInv'
<1>1. PICK out \in Outputs : build' = [build EXCEPT !.pc = "artifact", !.out = out]
  BY DEF EndBackend
<1>2. /\ build \in BuildType /\ job' = job /\ build.pc = "verify"
      /\ build.results = <<>> /\ build.pos = 0 /\ build.got = Len(Wanted)
      /\ out \in [Files -> Contents \cup {None}]
  BY DEF EndBackend, At, ReproducedInv, BuildTyped, BuildType, ResultsFit, ComparedSoFar, DownloadsFirst,
         Outputs
<1>3. /\ build' \in BuildType /\ build'.pc = "artifact"
      /\ build'.got = build.got /\ build'.inputs = build.inputs
      /\ build'.results = build.results /\ build'.pos = build.pos
  BY <1>1, <1>2 DEF BuildType, BuildSteps
<1>4. Wanted' = Wanted
  BY <1>2 DEF Wanted
<1>5. BuildTyped' /\ DownloadsFirst' /\ InputsAreWanted'
  BY <1>2, <1>3, <1>4 DEF ReproducedInv, BuildTyped, DownloadsFirst, InputsAreWanted, Kept
<1>6. ResultsFit' /\ ComparedSoFar' /\ ReportIsComplete' /\ GoodMeansReproduced'
  BY <1>2, <1>3 DEF ReproducedInv, ResultsFit, ComparedSoFar, ReportIsComplete, GoodMeansReproduced
<1>7. QED  BY <1>5, <1>6 DEF ReproducedInv

(* What a read of n bytes returns. *)
LEMMA ReadsFrom ==
  ASSUME NEW s \in Seq(Nat), NEW pos \in Nat, NEW n \in Nat, pos + n <= Len(s),
         NEW j \in 1 .. n
  PROVE  SubSeq(s, pos + 1, pos + n)[j] = s[pos + j]
OBVIOUS

(* compare_files stops at the first difference it reads.                   *)
LEMMA CompareKeepsInv ==
  ASSUME ReproducedInv, (\E n \in ReadSizes : CompareChunk(n)) \/ CompareEnd
  PROVE  ReproducedInv'
<1>1. /\ job' = job /\ build.pc = "compare" /\ build \in BuildType /\ build.pos \in Nat
      /\ build.got = Len(Wanted) /\ HasNext
      /\ build.pos <= Len(Original) /\ build.pos <= Len(Rebuilt)
      /\ \A i \in 1 .. build.pos : Original[i] = Rebuilt[i]
      /\ Rebuilt \in Contents
  BY DEF CompareChunk, CompareEnd, At, ReproducedInv, BuildTyped, BuildType, DownloadsFirst,
         ResultsFit, ComparedSoFar
<1>2. Original \in Seq(Nat) /\ Rebuilt \in Seq(Nat)
  BY <1>1, CurrentIs, BuildAssumption
<1>3. ASSUME NEW n \in ReadSizes, CompareChunk(n) PROVE ReproducedInv'
  <2> DEFINE end == build.pos + n
             same == /\ end <= Len(Rebuilt)
                     /\ SubSeq(Original, build.pos + 1, end) = SubSeq(Rebuilt, build.pos + 1, end)
  <2>1. n \in Nat \ {0} /\ end \in Nat /\ end <= Len(Original)
    BY <1>1, <1>3, BuildAssumption DEF CompareChunk
  <2>2. CASE same
    <3>1. build' = [build EXCEPT !.pos = end]
      BY <1>3, <2>2 DEF CompareChunk
    <3> HIDE DEF end
    <3>2. /\ build' \in BuildType /\ build'.pos = end
          /\ build'.pc = build.pc /\ build'.got = build.got /\ build'.inputs = build.inputs
          /\ build'.out = build.out /\ build'.results = build.results
      BY <1>1, <2>1, <3>1 DEF BuildType
    <3>3. Original' = Original /\ Rebuilt' = Rebuilt
      BY <1>1, <3>2 DEF Original, Rebuilt, Current
    <3>4. ASSUME NEW i \in 1 .. end PROVE Original[i] = Rebuilt[i]
      <4>1. CASE i <= build.pos
        BY <1>1, <2>1, <4>1
      <4>2. CASE i > build.pos
        <5>1. PICK j \in 1 .. n : i = build.pos + j
          <6>1. i - build.pos \in 1 .. n /\ i = build.pos + (i - build.pos)
            BY <1>1, <2>1, <3>4, <4>2 DEF end
          <6>2. QED  BY <6>1
        <5>2. /\ SubSeq(Original, build.pos + 1, build.pos + n)[j] = Original[i]
              /\ SubSeq(Rebuilt, build.pos + 1, build.pos + n)[j] = Rebuilt[i]
          <6>1. build.pos + n <= Len(Original) /\ build.pos + n <= Len(Rebuilt) /\ n \in Nat
            BY <2>1, <2>2 DEF end
          <6>2. QED  BY <1>1, <1>2, <5>1, <6>1, ReadsFrom
        <5>3. QED  BY <2>2, <5>2 DEF end
      <4>3. QED  BY <1>1, <2>1, <3>4, <4>1, <4>2
    <3>5. ComparedSoFar'
      BY <1>1, <2>1, <2>2, <3>2, <3>3, <3>4 DEF ComparedSoFar
    <3>6. QED  BY <1>1, <3>2, <3>5, GoingOnKeepsInv
  <2>3. CASE ~same
    <3>1. GoTo("mismatch")
      BY <1>3, <2>3 DEF CompareChunk
    <3>2. Rebuilt # Original
      BY <2>1, <2>3
    <3>3. QED  BY <1>1, <3>1, <3>2, GoToKeepsInv DEF BuildSteps
  <2>4. QED  BY <2>2, <2>3
<1>4. CASE CompareEnd
  <2>1. build.pos = Len(Original)
    BY <1>4 DEF CompareEnd
  <2>2. CASE Len(Rebuilt) > build.pos
    <3>1. GoTo("mismatch") /\ Rebuilt # Original
      BY <1>2, <1>4, <2>1, <2>2 DEF CompareEnd
    <3>2. QED  BY <1>1, <3>1, GoToKeepsInv DEF BuildSteps
  <2>3. CASE ~(Len(Rebuilt) > build.pos)
    <3>1. GoTo("attest")
      BY <1>4, <2>3 DEF CompareEnd
    <3>2. Len(Rebuilt) = Len(Original)
      BY <1>1, <1>2, <2>1, <2>3
    <3>3. Rebuilt = Original
      BY <1>1, <1>2, <2>1, <3>2
    <3>4. QED  BY <1>1, <3>1, <3>3, GoToKeepsInv DEF BuildSteps
  <2>4. QED  BY <2>2, <2>3
<1>5. QED  BY <1>3, <1>4

(* The report keeps all results, or none.                                  *)
LEMMA ReportKeepsInv ==
  ASSUME ReproducedInv, Finish \/ FailBuild
  PROVE  ReproducedInv'
<1>1. /\ job' = job /\ job \in Jobs /\ build \in BuildType
      /\ build.results \in Seq(Results) /\ Len(build.results) <= Len(job.artifacts)
      /\ Len(job.artifacts) \in Nat
  BY WantedIs DEF Finish, FailBuild, ReproducedInv, BuildTyped, BuildType, ResultsFit
<1>2. PICK status \in {"GOOD", "BAD", "FAIL"}, results \in {build.results, <<>>} :
        /\ Report(status, results)
        /\ status = "FAIL" => results = <<>>
        /\ status # "FAIL" => results = build.results /\ ~HasNext
  <2>1. CASE Finish
    BY <2>1 DEF Finish
  <2>2. CASE FailBuild
    BY <2>2 DEF FailBuild
  <2>3. QED  BY <2>1, <2>2
<1>3. results \in Seq(Results)
  <2>1. <<>> \in Seq(Results)
    OBVIOUS
  <2>2. QED  BY <1>1, <2>1
<1>4. /\ build' \in BuildType
      /\ build'.pc = "report" /\ build'.status = status /\ build'.results = results
      /\ build'.got = build.got /\ build'.inputs = build.inputs /\ build'.out = build.out
  BY <1>1, <1>2, <1>3 DEF Report, BuildType, BuildSteps
<1>5. Wanted' = Wanted
  BY <1>1 DEF Wanted
<1>6. BuildTyped' /\ DownloadsFirst' /\ InputsAreWanted'
  BY <1>1, <1>4, <1>5 DEF ReproducedInv, BuildTyped, DownloadsFirst, InputsAreWanted, Kept
<1>7. ResultsFit' /\ ComparedSoFar'
  BY <1>1, <1>2, <1>4 DEF ResultsFit, ComparedSoFar
<1>8. ReportIsComplete'
  BY <1>1, <1>2, <1>4 DEF ReportIsComplete, HasNext
<1>9. GoodMeansReproduced'
  <2>1. CASE results = <<>>
    BY <1>4, <2>1 DEF GoodMeansReproduced
  <2>2. CASE results = build.results
    BY <1>1, <1>4, <1>5, <2>2 DEF ReproducedInv, GoodMeansReproduced, Replaced
  <2>3. QED  BY <1>2, <2>1, <2>2
<1>10. QED  BY <1>6, <1>7, <1>8, <1>9 DEF ReproducedInv

-----------------------------------------------------------------------------
LEMMA ProgressKeepsInv ==
  ASSUME ReproducedInv, Progress
  PROVE  ReproducedInv'
<1>1. /\ build.pc \in {"compare", "differ", "attest", "mismatch", "diffoscope"} => HasNext
      /\ build.pc \notin {"download", "report"} => build.got = Len(Wanted)
      /\ ~job.differ => /\ build.pc = "attest" => Rebuilt = Original
                        /\ build.pc \in {"mismatch", "diffoscope"} => Rebuilt # Original
  BY DEF ReproducedInv, ResultsFit, DownloadsFirst, ComparedSoFar
<1>2. CASE Download
  BY <1>2, DownloadKeepsInv
<1>3. CASE StartBackend
  <2>1. job' = job /\ GoTo("verify") /\ build.got = Len(Wanted) /\ build.pc = "download"
    BY <1>3 DEF StartBackend, At
  <2>2. build.results = <<>> /\ build.pos = 0
    BY <2>1 DEF ReproducedInv, ResultsFit, ComparedSoFar
  <2>3. QED  BY <2>1, <2>2, GoToKeepsInv DEF BuildSteps
<1>4. CASE EndBackend
  BY <1>4, BackendKeepsInv
<1>5. CASE NoOutput
  <2>1. /\ job' = job /\ build.pc = "artifact" /\ HasNext /\ Rebuilt = None
        /\ Result("BAD", FALSE, FALSE)
    BY <1>5 DEF NoOutput, At
  <2>2. Rebuilt # Original
    BY <2>1, CurrentIs, BuildAssumption
  <2>3. QED  BY <2>1, <2>2, ResultKeepsInv
<1>6. CASE StartDiffer
  <2>1. job' = job /\ build.pc = "artifact" /\ HasNext /\ job.differ /\ GoTo("differ")
    BY <1>6 DEF StartDiffer, At
  <2>2. QED  BY <1>1, <2>1, GoToKeepsInv DEF BuildSteps
<1>7. CASE EndDiffer
  <2>1. /\ job' = job /\ build.pc = "differ" /\ HasNext
        /\ GoTo("attest") \/ GoTo("mismatch")
    BY <1>1, <1>7 DEF EndDiffer, At
  <2>2. job.differ
    BY <2>1 DEF ReproducedInv, ComparedSoFar
  <2>3. QED  BY <1>1, <2>1, <2>2, GoToKeepsInv DEF BuildSteps
<1>8. CASE StartCompare
  <2>1. job' = job /\ build.pc = "artifact" /\ HasNext /\ Rebuilt # None /\ GoTo("compare")
    BY <1>8 DEF StartCompare, At
  <2>2. build.pos = 0
    BY <2>1 DEF ReproducedInv, ComparedSoFar
  <2>3. QED  BY <1>1, <2>1, <2>2, GoToKeepsInv DEF BuildSteps
<1>9. CASE (\E n \in ReadSizes : CompareChunk(n)) \/ CompareEnd
  BY <1>9, CompareKeepsInv
<1>10. ASSUME NEW attested \in BOOLEAN, Attest(attested) PROVE ReproducedInv'
  <2>1. job' = job /\ build.pc = "attest" /\ Result("GOOD", attested, FALSE)
    BY <1>10 DEF Attest, At
  <2>2. QED  BY <1>1, <2>1, ResultKeepsInv
<1>11. CASE SkipDiffoscope
  <2>1. job' = job /\ build.pc = "mismatch" /\ Result("BAD", FALSE, FALSE)
    BY <1>11 DEF SkipDiffoscope, At
  <2>2. QED  BY <1>1, <2>1, ResultKeepsInv
<1>12. CASE StartDiffoscope
  <2>1. job' = job /\ build.pc = "mismatch" /\ GoTo("diffoscope")
    BY <1>12 DEF StartDiffoscope, At
  <2>2. QED  BY <1>1, <2>1, GoToKeepsInv DEF BuildSteps
<1>13. CASE EndDiffoscope
  <2>1. job' = job /\ build.pc = "diffoscope" /\ Result("BAD", FALSE, TRUE)
    BY <1>13 DEF EndDiffoscope, At
  <2>2. QED  BY <1>1, <2>1, ResultKeepsInv
<1>14. CASE Finish
  BY <1>14, ReportKeepsInv
<1>15. QED
  BY <1>2, <1>3, <1>4, <1>5, <1>6, <1>7, <1>8, <1>9, <1>10, <1>11, <1>12, <1>13, <1>14
  DEF Progress

LEMMA ReproducedNext ==
  ASSUME ReproducedInv, [Next]_vars
  PROVE  ReproducedInv'
<1>1. CASE Progress
  BY <1>1, ProgressKeepsInv
<1>2. CASE FailBuild
  BY <1>2, ReportKeepsInv
<1>3. CASE NextJob
  <2>1. job' \in Jobs /\ build' = NewBuild
    BY <1>3 DEF NextJob
  <2>2. NewBuild \in BuildType /\ NewBuild.got = 0 /\ NewBuild.pc = "download"
        /\ NewBuild.results = <<>> /\ NewBuild.pos = 0
    BY DEF NewBuild, BuildType, NoFiles, BuildSteps
  <2>3. Len(job.artifacts)' \in Nat /\ Len(Wanted)' \in Nat
    <3>1. job'.artifacts \in Seq(Downloads) /\ job'.input \in Downloads
      BY <2>1, BuildAssumption
    <3>2. QED  BY <3>1 DEF Wanted
  <2>4. QED
    BY <2>1, <2>2, <2>3
    DEF ReproducedInv, BuildTyped, DownloadsFirst, InputsAreWanted, ResultsFit, ComparedSoFar,
        ReportIsComplete, GoodMeansReproduced
<1>4. CASE ProcStep \/ StartPing \/ EndPing \/ Tick \/ UNCHANGED vars
  <2>1. job' = job /\ build' = build
    BY <1>4 DEF ProcStep, StartPing, EndPing, Tick, vars
  <2>2. /\ Wanted' = Wanted /\ (HasNext' <=> HasNext)
        /\ Original' = Original /\ Rebuilt' = Rebuilt
    BY <2>1 DEF Wanted, HasNext, Original, Rebuilt, Current
  <2>3. BuildTyped' /\ DownloadsFirst' /\ InputsAreWanted' /\ ResultsFit' /\ ComparedSoFar'
    BY <2>1, <2>2
    DEF ReproducedInv, BuildTyped, DownloadsFirst, InputsAreWanted, Kept, ResultsFit, ComparedSoFar
  <2>4. ReportIsComplete' /\ GoodMeansReproduced'
    BY <2>1, <2>2 DEF ReproducedInv, ReportIsComplete, GoodMeansReproduced, Replaced
  <2>5. QED  BY <2>3, <2>4 DEF ReproducedInv
<1>5. QED  BY <1>1, <1>2, <1>3, <1>4 DEF Next

(* What a build has downloaded, compared and found stays consistent with   *)
(* the job in every state of rebuild().                                    *)
THEOREM ReproducedInvHolds == Spec => []ReproducedInv
<1>1. Init => ReproducedInv
  BY ReproducedInitHolds
<1>2. ReproducedInv /\ [Next]_vars => ReproducedInv'
  BY ReproducedNext
<1>3. QED  BY <1>1, <1>2, PTL DEF Spec

(* compare_files says GOOD exactly for an output that is the artifact byte *)
(* by byte, for all contents and however its reads are cut.                *)
THEOREM GoodIsReproduced == Spec => []GoodMeansReproduced
<1>1. ReproducedInv => GoodMeansReproduced
  BY DEF ReproducedInv
<1>2. QED  BY <1>1, ReproducedInvHolds, PTL

(* A report of rebuild() has a result for each artifact, or none at all.   *)
THEOREM ReportsAreComplete == Spec => []ReportIsComplete
<1>1. ReproducedInv => ReportIsComplete
  BY DEF ReproducedInv
<1>2. QED  BY <1>1, ReproducedInvHolds, PTL

(* The state of proc::run and of rebuild() keeps its types throughout.     *)
THEOREM WorkerTypeCorrect == Spec => []TypeOK
<1>1. WorkerInv /\ ReproducedInv => TypeOK
  BY DEF WorkerInv, WorkerTyped, RunType, ReproducedInv, BuildTyped, BuildType,
         TypeOK, ProcTypeOK, BuildTypeOK
<1>2. QED  BY <1>1, WorkerInvHolds, ReproducedInvHolds, PTL
=============================================================================
