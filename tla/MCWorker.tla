------------------------------ MODULE MCWorker ------------------------------
(***************************************************************************)
(* One worker that builds job after job: two artifacts of which one is     *)
(* replaced by another download, compared by the worker or by a custom     *)
(* differ, with and without diffoscope, and a job without artifacts.       *)
(***************************************************************************)
EXTENDS WorkerProperties, TLC

CONSTANTS f1, f2

MCContents == {<<0>>, <<0, 1>>, <<0, 0>>}

MCKinds       == {"verify", "differ", "diffoscope"}
MCTimeout     == "verify" :> 2 @@ "differ" :> 1 @@ "diffoscope" :> 1
MCSizeLimit   == "verify" :> 2 @@ "differ" :> 2 @@ "diffoscope" :> 1
(* rebuild.rs:165 and 377, diffoscope.rs:22                                *)
MCKillAtLimit == "verify" :> FALSE @@ "differ" :> FALSE @@ "diffoscope" :> TRUE

On(file, content) == [file |-> file, content |-> content]

Job(artifacts, input, differ, diffoscope) ==
  [artifacts |-> artifacts, input |-> input, differ |-> differ, diffoscope |-> diffoscope]

MCJobs ==
  {Job(<<On(f1, <<0>>), On(f2, <<0, 1>>)>>, On(f2, <<0, 0>>), FALSE, FALSE),
   Job(<<On(f1, <<0, 1>>)>>, On(f2, <<0>>), FALSE, TRUE),
   Job(<<On(f1, <<0, 1>>)>>, On(f2, <<0>>), TRUE, TRUE),
   Job(<<>>, On(f1, <<0>>), FALSE, FALSE)}
=============================================================================
