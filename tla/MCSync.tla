------------------------------- MODULE MCSync -------------------------------
(***************************************************************************)
(* Three build inputs: i1 and i2 are one source package on two             *)
(* architectures, i1 and i3 are friends in one scope.  Syncs of both       *)
(* scopes and bulk requests interleave with one worker and one handler of  *)
(* reports, and no handler fails.                                          *)
(***************************************************************************)
EXTENDS RebuilderdProperties, TLC

CONSTANTS i1, i2, i3, s1, s2, c1, c2

MCSourceOf  == i1 :> s1 @@ i2 :> s1 @@ i3 :> s2
MCScopeOf   == i1 :> c1 @@ i2 :> c2 @@ i3 :> c1
MCFriendKey == i1 :> "amd64" @@ i2 :> "arm64" @@ i3 :> "amd64"
MCSupports  == [w \in Workers |-> Inputs]

Build(w) ==
  \/ Poll(w)
  \/ \E q \in queue : StartBuild(w, q)
  \/ FindNothing(w)
  \/ Ping(w)
  \/ \E t \in Threads, status \in {"GOOD", "BAD"} : SubmitReport(w, t, status)

Request ==
  /\ LockFree
  /\ \/ /\ \E reset \in BOOLEAN : SelectInputs(None, c1, None, reset, Manual)
        /\ Spare(Cardinality(request'.todo))
     \/ \E i \in request.todo : ResetInput(i)
     \/ ClearDelay
     \/ EnqueueInput
  /\ UNCHANGED <<reports, sync, worker>>

(* Bound: a sync that reports nothing is one of the scope with friends.     *)
Sync == StartSync /\ (sync'.reported = {} => sync'.scope = c1)

MCNext ==
  \/ \E w \in Workers : Build(w)
  \/ \E t \in Threads : LockFree /\ HandleReport(t) /\ UNCHANGED <<request, sync, worker>>
  \/ Request
  \/ Sync
  \/ ContinueSync

MCSpec == Init /\ [][MCNext]_vars
=============================================================================
