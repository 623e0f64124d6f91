-------------------------- MODULE WorkerProperties --------------------------
(***************************************************************************)
(* What one build of the worker promises, whatever its children do.        *)
(***************************************************************************)
EXTENDS BuildExecution

(* size_limit - output.len() never underflows, and the log stays within    *)
(* the limit but for its notices: one for the size, one for the timeout.   *)
LogWithinLimit ==
  Running =>
    /\ ~run.truncated => run.output <= SizeLimit[run.kind]
    /\ run.output <= SizeLimit[run.kind] + 2 * Notice

(* A child that ignores SIGTERM, or whose own children keep its pipes      *)
(* open, is done with at a time known in advance.  The delay counts twice: *)
(* output that arrives just before SIGKILL_DELAY is over starts the sleep  *)
(* anew.  Both the wake-up at the timeout and the last may follow a ping.   *)
Deadline(kind) == Timeout[kind] + 2 * KillDelay + 2 * (PingLimit + 1)

RunEndsInTime == Running => run.elapsed <= Deadline(run.kind)

(* A later download of the same name has replaced the k-th one.            *)
Replaced(k) ==
  \E n \in k + 1 .. Len(Wanted) :
    Wanted[n].file = Wanted[k].file /\ Wanted[n].content # Wanted[k].content

(* Without a custom differ an artifact is GOOD if and only if the output   *)
(* of its name is the artifact byte by byte, however the reads of          *)
(* compare_files are cut and however the backend ended.                    *)
GoodMeansReproduced ==
  \A k \in DOMAIN build.results :
    ~job.differ /\ ~Replaced(k) =>
      (build.results[k].status = "GOOD"
         <=> build.out[job.artifacts[k].file] = job.artifacts[k].content)

(* A report speaks of all artifacts of the job in their order or, when any *)
(* step failed, of none: results that were already found are dropped.      *)
ReportIsComplete ==
  build.pc = "report" =>
    IF build.status = "FAIL" THEN build.results = <<>>
    ELSE Len(build.results) = Len(job.artifacts)

(* Every build comes to its report, although a ping blocks the build and   *)
(* the child never ends by itself.                                         *)
BuildEnds == build.pc = "download" ~> build.pc = "report"
=============================================================================
