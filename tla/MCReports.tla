------------------------------ MODULE MCReports -----------------------------
(***************************************************************************)
(* Two build inputs that are friends in different scopes, and two handlers *)
(* of reports that run at the same time, while syncs come and go.  No      *)
(* handler fails, the administrator only syncs, and a worker whose job is  *)
(* taken from it reports on it all the same.                               *)
(***************************************************************************)
EXTENDS RebuilderdProperties, TLC

CONSTANTS i1, i2, s1, s2, c1, c2

MCSourceOf  == i1 :> s1 @@ i2 :> s2
MCScopeOf   == i1 :> c1 @@ i2 :> c2
MCFriendKey == i1 :> "url" @@ i2 :> "url"
MCSupports  == [w \in Workers |-> Inputs]

Build(w) ==
  \/ Poll(w)
  \/ \E q \in queue : StartBuild(w, q)
  \/ \E t \in Threads, status \in {"GOOD", "BAD"} : SubmitReport(w, t, status)

(* Bound: a sync reports something; the runs lease and sync have others.   *)
Sync == StartSync /\ sync'.reported # {}

MCNext ==
  \/ \E w \in Workers : Build(w)
  \/ \E t \in Threads : LockFree /\ HandleReport(t) /\ UNCHANGED <<request, sync, worker>>
  \/ Sync
  \/ ContinueSync
  \/ Tick

MCSpec == Init /\ [][MCNext]_vars

Symmetry == Permutations(Workers) \cup Permutations(Threads)
=============================================================================
