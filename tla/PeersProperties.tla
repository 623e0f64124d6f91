--------------------------- MODULE PeersProperties ---------------------------
(***************************************************************************)
(* What the comparison with peers promises.                                *)
(***************************************************************************)
EXTENDS Peers

Registered == {u \in Urls : peers[u] # None}

(* A verdict is shown under the peer whose list it was computed from, even *)
(* when peers were deleted and registered again while the check ran: ids   *)
(* are not given twice, and a row without its peer is refused.             *)
VerdictsBelongToPeer ==
  \A v \in verdicts : v.url \in Registered /\ peers[v.url].id = v.peer

(* A verdict only goes when its peer is no longer asked for, or when a     *)
(* check has compared that peer again.                                     *)
VerdictsSurvive ==
  [][\A v \in verdicts \ verdicts' :
       \/ \E c \in Clients : DeleteStalePeers(c) /\ v.url \notin Request(c).urls
       \/ \E t \in Tasks : ReplaceVerdicts(t) /\ v.peer \in task[t].compared]_peerVars

(* Once nothing fails, no build ends and no peer comes or goes, the daily  *)
(* checks bring the verdicts to what the lists say: stale ones disappear   *)
(* (peers.rs:463) and missing ones appear, whatever older checks in        *)
(* progress still write.  What is cached is then what a live query shows.  *)
StandStill ==
  /\ \/ \E c \in Clients : ClientStep(c)
     \/ \E t \in Tasks : CheckStep(t)
  /\ UNCHANGED <<local, remote, peers>>

Exact ==
  \A u \in Registered, k \in Packages :
    LET theirs == remote[u][peers[u].alias][k]
    IN /\ CachedStatus(u, k) = IF Disagree(theirs, local[k]) THEN theirs ELSE None
       /\ CachedStatus(u, k) \in LiveStatuses(u, k) \cup {None}

VerdictsSettle == <>[][StandStill]_peerVars => <>[]Exact

PeersFairness ==
  /\ \A c \in Clients : WF_peerVars(ClientStep(c))
  /\ \A t \in Tasks : WF_peerVars(CheckStep(t))

(* "Packages whose status disagrees with any peer are flagged" (the API    *)
(* document, of POST /peers/check): when rebuildctl has asked for a check  *)
(* of each release and all checks have ended.                              *)
AllChecked ==
  /\ Registered # {}
  /\ \A c \in Clients : client[c].pc = "idle"
  /\ \A t \in Tasks : task[t].pc = "idle"

DisagreementsAreFlagged ==
  AllChecked =>
    \A u \in Registered, k \in Packages :
      (\E plan \in Plans : \E n \in DOMAIN plan :
         u \in plan[n].urls /\ Disagree(remote[u][plan[n].alias][k], local[k]))
        => HasDisagreement(k)
=============================================================================
