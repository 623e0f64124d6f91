------------------------------ MODULE JobLeases ------------------------------
(***************************************************************************)
(* What the build queue promises, whatever the statements of its handlers  *)
(* do in which order: a package has at most one job at a time, a job has   *)
(* an id of its own for ever, and it is leased to one holder at a time,    *)
(* who keeps it for as long as it is heard of.                             *)
(***************************************************************************)
EXTENDS Naturals

CONSTANTS
  Packages,
  None,
  Deadline   \* how long a holder may be silent

VARIABLES
  jobs,      \* the jobs that are not done
  issued,    \* how many ids have been given out
  admitted   \* holders are numbered as they come, this many so far

leaseVars == <<jobs, issued, admitted>>

Init == jobs = {} /\ issued = 0 /\ admitted = 0

Free(j) == j.holder = None

Offer(p) ==
  /\ \A j \in jobs : j.package # p
  /\ jobs' = jobs \cup {[id |-> issued + 1, package |-> p, holder |-> None, silence |-> None]}
  /\ issued' = issued + 1

Grant(j, h) ==
  /\ Free(j)
  /\ jobs' = (jobs \ {j})
       \cup {[id |-> j.id, package |-> j.package, holder |-> h, silence |-> 0]}
  /\ UNCHANGED issued

Renew(j) ==
  /\ ~Free(j)
  /\ jobs' = (jobs \ {j}) \cup {[j EXCEPT !.silence = 0]}
  /\ UNCHANGED issued

(* All holders that were silent for too long lose their jobs.              *)
Expired(j) == ~Free(j) /\ j.silence > Deadline

Expire ==
  /\ jobs' = {IF Expired(j) THEN [j EXCEPT !.holder = None, !.silence = None] ELSE j : j \in jobs}
  /\ UNCHANGED issued

(* Jobs are done, or dropped. *)
Close == jobs' \subseteq jobs /\ UNCHANGED issued

(* Time passes; beyond the deadline it makes no difference.                *)
Waiting(j) == ~Free(j) /\ j.silence <= Deadline

Wait ==
  /\ jobs' = {IF Waiting(j) THEN [j EXCEPT !.silence = @ + 1] ELSE j : j \in jobs}
  /\ UNCHANGED issued

(* A worker may turn up with any request. *)
Admit == admitted' \in {admitted, admitted + 1}

Next ==
  /\ \/ \E p \in Packages : Offer(p)
     \/ \E j \in jobs : Renew(j) \/ \E h \in 1 .. admitted : Grant(j, h)
     \/ Expire
     \/ Close
     \/ Wait
  /\ Admit

Spec == Init /\ [][Next]_leaseVars
=============================================================================
