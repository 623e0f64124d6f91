--------------------------- MODULE BuildExecution ---------------------------
(***************************************************************************)
(* worker/src/rebuild.rs: one build of the worker, from the downloads to   *)
(* the report, polled together with its heartbeat.                         *)
(***************************************************************************)
EXTENDS ProcCapture, Sequences

CONSTANTS
  Files,         \* names of files in inputs/ and out/
  Contents,      \* what a file may contain: sequences of bytes
  Jobs,          \* jobs of the daemon, with the worker's configuration
  ReadSizes,     \* how many bytes a read of compare_files may return
  PingInterval,  \* PING_INTERVAL
  PingLimit      \* the read timeout of the http client

Downloads == [file : Files, content : Contents]

(* An artifact is known by the last segment of its URL, and what the       *)
(* server has there.                                                       *)
ASSUME BuildAssumption ==
  /\ Contents \subseteq Seq(Nat)
  /\ None \notin Contents
  /\ Kinds = {"verify", "differ", "diffoscope"}
  /\ Jobs \subseteq [artifacts : Seq(Downloads), input : Downloads,
                     differ : BOOLEAN, diffoscope : BOOLEAN]
  /\ ReadSizes \subseteq Nat \ {0}
  /\ PingInterval \in Nat /\ PingLimit \in Nat

VARIABLES
  job,    \* the job and the backend's configuration
  build,  \* the task in rebuild()
  beat    \* rebuild_with_heartbeat: the ping, and the time since the last one

vars == <<run, child, job, build, beat>>

NoFiles == [f \in Files |-> None]

Results == [status : {"GOOD", "BAD"}, attested : BOOLEAN, diff : BOOLEAN]

NewBuild ==
  [pc |-> "download", got |-> 0, inputs |-> NoFiles, out |-> NoFiles,
   pos |-> 0, results |-> <<>>, status |-> None]

NewBeat == [pinging |-> FALSE, time |-> 0]

Init ==
  /\ ProcInit
  /\ job \in Jobs
  /\ build = NewBuild
  /\ beat = NewBeat

BuildSteps == {"download", "verify", "artifact", "compare", "differ", "attest",
               "mismatch", "diffoscope", "report"}

BuildTypeOK ==
  /\ job \in Jobs
  /\ build \in [pc : BuildSteps, got : Nat, inputs : [Files -> Contents \cup {None}],
                out : [Files -> Contents \cup {None}], pos : Nat,
                results : Seq(Results), status : {"GOOD", "BAD", "FAIL", None}]
  /\ beat \in [pinging : BOOLEAN, time : Nat]

TypeOK == ProcTypeOK /\ BuildTypeOK

-----------------------------------------------------------------------------
(* The build is only polled while no ping is awaited.                      *)
Polled == ~beat.pinging

At(step) == Polled /\ build.pc = step
GoTo(step) == build' = [build EXCEPT !.pc = step]

(* The artifact whose result is next, and its two files.                   *)
Current == job.artifacts[Len(build.results) + 1]
Original == build.inputs[Current.file]
Rebuilt == build.out[Current.file]

(* A result is pushed. *)
Result(status, attested, diff) ==
  build' = [build EXCEPT
    !.results = Append(@, [status |-> status, attested |-> attested, diff |-> diff]),
    !.pos = 0,
    !.pc = "artifact"]

-----------------------------------------------------------------------------
(* Downloads and the backend *)

Wanted == Append(job.artifacts, job.input)

(* File::create truncates what an earlier download left under the name.    *)
Download ==
  /\ At("download")
  /\ build.got < Len(Wanted)
  /\ LET d == Wanted[build.got + 1]
     IN build' = [build EXCEPT !.got = @ + 1, !.inputs[d.file] = d.content]
  /\ UNCHANGED <<run, child, job, beat>>

StartBackend ==
  /\ At("download")
  /\ build.got = Len(Wanted)
  /\ Start("verify")
  /\ GoTo("verify")
  /\ UNCHANGED <<job, beat>>

(* The exit status is not looked at, only what the backend leaves in out/  *)
(* under the names of the artifacts.                                       *)
Outputs ==
  {out \in [Files -> Contents \cup {None}] :
     \A f \in Files : out[f] # None => \E k \in DOMAIN job.artifacts : job.artifacts[k].file = f}

EndBackend ==
  /\ At("verify")
  /\ run.pc = "done"
  /\ \E out \in Outputs : build' = [build EXCEPT !.pc = "artifact", !.out = out]
  /\ run' = IdleRun /\ child' = NoChild
  /\ UNCHANGED <<job, beat>>

-----------------------------------------------------------------------------
(* The result of each artifact *)

HasNext == Len(build.results) < Len(job.artifacts)

NoOutput ==
  /\ At("artifact")
  /\ HasNext
  /\ Rebuilt = None
  /\ Result("BAD", FALSE, FALSE)
  /\ UNCHANGED <<run, child, job, beat>>

StartDiffer ==
  /\ At("artifact")
  /\ HasNext
  /\ Rebuilt # None
  /\ job.differ
  /\ Start("differ")
  /\ GoTo("differ")
  /\ UNCHANGED <<job, beat>>

EndDiffer ==
  /\ At("differ")
  /\ run.pc = "done"
  /\ GoTo(IF run.success THEN "attest" ELSE "mismatch")
  /\ run' = IdleRun /\ child' = NoChild
  /\ UNCHANGED <<job, beat>>

StartCompare ==
  /\ At("artifact")
  /\ HasNext
  /\ Rebuilt # None
  /\ ~job.differ
  /\ GoTo("compare")
  /\ UNCHANGED <<run, child, job, beat>>

(* compare_files reads some bytes of the original, and as many of the      *)
(* output.                                                                 *)
CompareChunk(n) ==
  /\ At("compare")
  /\ build.pos + n <= Len(Original)
  /\ LET end == build.pos + n
     IN IF /\ end <= Len(Rebuilt)
           /\ SubSeq(Original, build.pos + 1, end) = SubSeq(Rebuilt, build.pos + 1, end)
        THEN build' = [build EXCEPT !.pos = end]
        ELSE GoTo("mismatch")
  /\ UNCHANGED <<run, child, job, beat>>

(* Fault: an output that begins with the original is equal to it.          *)
CompareEndOfOriginal ==
  /\ At("compare")
  /\ build.pos = Len(Original)
  /\ GoTo("attest")
  /\ UNCHANGED <<run, child, job, beat>>

(* At the end of the original the output must end as well. *)
CompareEnd ==
  /\ At("compare")
  /\ build.pos = Len(Original)
  /\ GoTo(IF Len(Rebuilt) > build.pos THEN "mismatch" ELSE "attest")
  /\ UNCHANGED <<run, child, job, beat>>

(* A failure of in-toto only costs the attestation.                        *)
Attest(attested) ==
  /\ At("attest")
  /\ Result("GOOD", attested, FALSE)
  /\ UNCHANGED <<run, child, job, beat>>

SkipDiffoscope ==
  /\ At("mismatch")
  /\ ~job.diffoscope
  /\ Result("BAD", FALSE, FALSE)
  /\ UNCHANGED <<run, child, job, beat>>

StartDiffoscope ==
  /\ At("mismatch")
  /\ job.diffoscope
  /\ Start("diffoscope")
  /\ GoTo("diffoscope")
  /\ UNCHANGED <<job, beat>>

(* Whatever its exit status, diffoscope has found a difference.            *)
EndDiffoscope ==
  /\ At("diffoscope")
  /\ run.pc = "done"
  /\ Result("BAD", FALSE, TRUE)
  /\ run' = IdleRun /\ child' = NoChild
  /\ UNCHANGED <<job, beat>>

-----------------------------------------------------------------------------
(* The report *)

Report(status, results) ==
  build' = [build EXCEPT !.pc = "report", !.status = status, !.results = results]

Finish ==
  /\ At("artifact")
  /\ ~HasNext
  /\ Report(IF \A k \in DOMAIN build.results : build.results[k].status = "GOOD"
            THEN "GOOD" ELSE "BAD", build.results)
  /\ UNCHANGED <<run, child, job, beat>>

(* A child fails; or a download, reading a file, or what is done with an   *)
(* attestation and with the output of diffoscope.                          *)
CanFail ==
  \/ build.pc \in {"download", "compare", "attest"} /\ run' = run
  \/ run.pc = "failed" /\ run' = IdleRun
  \/ build.pc = "diffoscope" /\ run.pc = "done" /\ run' = IdleRun

(* Fault: a failed build reports the results it has.                       *)
FailBuildKeepingResults ==
  /\ Polled
  /\ CanFail
  /\ Report("FAIL", build.results)
  /\ child' = NoChild
  /\ UNCHANGED <<job, beat>>

(* A step of the build fails, or a child: no results are reported.         *)
FailBuild ==
  /\ Polled
  /\ CanFail
  /\ Report("FAIL", <<>>)
  /\ child' = NoChild
  /\ UNCHANGED <<job, beat>>

(* The report is sent, and the worker gets another job.                    *)
NextJob ==
  /\ At("report")
  /\ job' \in Jobs
  /\ build' = NewBuild
  /\ beat' = NewBeat
  /\ UNCHANGED <<run, child>>

-----------------------------------------------------------------------------
(* The heartbeat.  Time only matters while a child runs.                   *)

StartPing ==
  /\ Polled
  /\ beat.time > PingInterval
  /\ beat' = [pinging |-> TRUE, time |-> 0]
  /\ UNCHANGED <<run, child, job, build>>

EndPing ==
  /\ beat.pinging
  /\ beat' = NewBeat
  /\ UNCHANGED <<run, child, job, build>>

Tick ==
  /\ Running
  /\ run.elapsed < MaxElapsed
  /\ \/ Polled /\ ~Due /\ beat.time <= PingInterval
     \/ beat.pinging /\ beat.time < PingLimit /\ ~(child.killed /\ child.alive)
  /\ Elapse
  /\ beat' = [beat EXCEPT !.time = @ + 1]
  /\ UNCHANGED <<job, build>>

-----------------------------------------------------------------------------
ProcStep ==
  /\ \/ Polled /\ (LoopStep \/ RunFails)
     \/ ChildStep
  /\ UNCHANGED <<job, build, beat>>

Progress ==
  \/ Download \/ StartBackend \/ EndBackend
  \/ NoOutput \/ StartDiffer \/ EndDiffer \/ StartCompare
  \/ \E n \in ReadSizes : CompareChunk(n)
  \/ CompareEnd
  \/ \E attested \in BOOLEAN : Attest(attested)
  \/ SkipDiffoscope \/ StartDiffoscope \/ EndDiffoscope
  \/ Finish

Next ==
  \/ Progress \/ FailBuild \/ NextJob
  \/ ProcStep
  \/ StartPing \/ EndPing \/ Tick

Spec == Init /\ [][Next]_vars

-----------------------------------------------------------------------------
(* Fairness: the task is polled, a ping ends by its answer or its timeout, *)
(* time passes, and the kernel delivers end of file, exit and SIGKILL.     *)
Polls(A) == Polled /\ A /\ UNCHANGED <<job, build, beat>>

Fairness ==
  /\ SF_vars(Progress \/ FailBuild)
  /\ SF_vars(Polls(WakeUp \/ Reap \/ \E p \in Pipes : ReadEof(p)))
  /\ WF_vars(StartPing \/ EndPing)
  /\ WF_vars(Tick)
  /\ WF_vars(child.killed /\ Exit(FALSE) /\ UNCHANGED <<job, build, beat>>)

FairSpec == Spec /\ Fairness
=============================================================================
