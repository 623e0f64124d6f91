------------------------------- MODULE MCPeers -------------------------------
(***************************************************************************)
(* One package, two peers of which one may leave and come back, and two    *)
(* checks at a time, with old and new results.                             *)
(***************************************************************************)
EXTENDS PeersProperties, TLC

CONSTANTS u1, u2, r1, r2, p1

Check(alias, urls) == [alias |-> alias, urls |-> urls]

MCPlans == {<<Check(r1, {u1})>>, <<Check(r1, {u1, u2})>>, <<Check(r1, {})>>}

MCInit ==
  /\ PeersInit
  /\ local[p1] = "BAD"
  /\ remote[u1][r1][p1] = "GOOD"
  /\ remote[u2][r1][p1] = "BAD"

MCNext ==
  \/ \E c \in Clients : ClientStep(c)
  \/ \E t \in Tasks : CheckStep(t)
  \/ Failure
  \/ LocalChange(p1, "GOOD")

(* One peer that is asked for two releases, and nothing fails or changes.  *)
ReleasePlans == {<<Check(r1, {u1}), Check(r2, {u1})>>}

ReleaseNext ==
  \/ \E c \in Clients : ClientStep(c)
  \/ \E t \in Tasks : CheckStep(t)

ReleaseSpec == PeersInit /\ [][ReleaseNext]_peerVars

MCSpec == MCInit /\ [][MCNext]_peerVars /\ PeersFairness
=============================================================================
