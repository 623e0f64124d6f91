-------------------------------- MODULE Peers --------------------------------
(***************************************************************************)
(* daemon/src/api/v1/peers.rs: the peers of one distribution and           *)
(* architecture, the background checks that compare results with them, and *)
(* rebuildctl peers check, which asks for one check per release.           *)
(***************************************************************************)
EXTENDS Integers, FiniteSets, Sequences

CONSTANTS
  None,
  Urls,      \* base URLs of peers
  V0Urls,    \* those whose API knows no releases
  Releases,  \* the names that peers give their releases
  Packages,  \* (name, version) of binary packages
  Statuses,  \* BuildStatus
  Plans,     \* what a run of rebuildctl asks for: sequences of requests
  Clients,   \* runs of rebuildctl peers check at a time
  Tasks,     \* background checks at a time
  MaxPeerId  \* bound on the ids of table peer_rebuilders

CheckRequests == [alias : Releases \cup {None}, urls : SUBSET Urls]

PeerInfo == [id : Nat, alias : Releases \cup {None}]

ASSUME PeersAssumption ==
  /\ None \notin PeerInfo
  /\ None \notin Releases
  /\ None \notin {"GOOD", "BAD"}
  /\ V0Urls \subseteq Urls
  /\ Plans \subseteq Seq(CheckRequests)
  /\ MaxPeerId \in Nat

VARIABLES
  local,       \* the status of each package that the last sync has seen
  remote,      \* the same of each peer, by release
  peers,       \* table peer_rebuilders, by url
  nextPeerId,
  verdicts,    \* table peer_sha256_checks, and whose listing each row is from
  client,      \* rebuildctl and the handler of its request
  task         \* run_peer_check

peerVars == <<local, remote, peers, nextPeerId, verdicts, client, task>>

Listing == [Packages -> Statuses \cup {None}]
PeerRows == [url : Urls, id : Nat, alias : Releases \cup {None}]
Verdicts == [peer : Nat, url : Urls, pkg : Packages, status : Statuses]

IdleClient == [pc |-> "idle", plan |-> <<>>, todo |-> {}]
IdleTask == [pc |-> "idle", todo |-> {}, maps |-> {}, compared |-> {}, rows |-> {}]

PeersInit ==
  /\ local \in Listing
  /\ remote \in [Urls -> [Releases -> Listing]]
  /\ peers = [u \in Urls |-> None]
  /\ nextPeerId = 1
  /\ verdicts = {}
  /\ client = [c \in Clients |-> IdleClient]
  /\ task = [t \in Tasks |-> IdleTask]

PeersTypeOK ==
  /\ local \in Listing
  /\ remote \in [Urls -> [Releases -> Listing]]
  /\ \A u \in Urls : peers[u] \in PeerInfo \cup {None}
  /\ nextPeerId \in Nat
  /\ verdicts \subseteq Verdicts
  /\ \A c \in Clients :
       client[c].pc \in {"idle", "upsert", "delete", "spawn"} /\ client[c].todo \subseteq Urls
  /\ \A t \in Tasks :
       /\ task[t].pc \in {"idle", "spawned", "fetch", "write"}
       /\ task[t].todo \subseteq PeerRows
       /\ task[t].maps \subseteq [peer : PeerRows, map : Listing]
       /\ task[t].compared \subseteq Nat
       /\ task[t].rows \subseteq Verdicts

-----------------------------------------------------------------------------
(* rebuildctl peers check, and the handler check_peers                     *)

BecomeClient(c, state) == client' = [client EXCEPT ![c] = state]

Request(c) == Head(client[c].plan)

(* Bound: peers are only added while ids are left for all of them.         *)
SpareIds == nextPeerId + Cardinality(Urls) * Cardinality(Clients) <= MaxPeerId + 1

AddsNoPeer(plan) ==
  \A k \in DOMAIN plan : plan[k].urls = plan[1].urls /\ \A u \in plan[1].urls : peers[u] # None

StartPlan(c, plan) ==
  /\ client[c].pc = "idle"
  /\ plan # <<>>
  /\ AddsNoPeer(plan) \/ SpareIds
  /\ BecomeClient(c, [pc |-> "upsert", plan |-> plan, todo |-> Head(plan).urls])
  /\ UNCHANGED <<local, remote, peers, nextPeerId, verdicts, task>>

(* Fault: REPLACE instead of an upsert gives a known url a new row.        *)
UpsertReplacing(c, u) ==
  /\ client[c].pc = "upsert"
  /\ u \in client[c].todo
  /\ peers' = [peers EXCEPT ![u] = [id |-> nextPeerId, alias |-> Request(c).alias]]
  /\ nextPeerId' = nextPeerId + 1
  /\ verdicts' = {v \in verdicts : peers[u] = None \/ v.peer # peers[u].id}
  /\ BecomeClient(c, [client[c] EXCEPT !.todo = @ \ {u}])
  /\ UNCHANGED <<local, remote, task>>

(* Fault: the id of a deleted peer is given again.                         *)
UpsertReusingPeerIds(c, u) ==
  /\ client[c].pc = "upsert"
  /\ u \in client[c].todo
  /\ IF peers[u] = None
     THEN peers' = [peers EXCEPT ![u] =
            [id |-> CHOOSE n \in 1 .. MaxPeerId :
                      \A w \in Urls : peers[w] # None => peers[w].id # n,
             alias |-> Request(c).alias]]
     ELSE peers' = [peers EXCEPT ![u].alias = Request(c).alias]
  /\ BecomeClient(c, [client[c] EXCEPT !.todo = @ \ {u}])
  /\ UNCHANGED <<local, remote, nextPeerId, verdicts, task>>

(* The row of a known URL keeps its id, and with it its verdicts.          *)
UpsertPeer(c, u) ==
  /\ client[c].pc = "upsert"
  /\ u \in client[c].todo
  /\ IF peers[u] = None
     THEN /\ peers' = [peers EXCEPT ![u] = [id |-> nextPeerId, alias |-> Request(c).alias]]
          /\ nextPeerId' = nextPeerId + 1
     ELSE /\ peers' = [peers EXCEPT ![u].alias = Request(c).alias]
          /\ UNCHANGED nextPeerId
  /\ BecomeClient(c, [client[c] EXCEPT !.todo = @ \ {u}])
  /\ UNCHANGED <<local, remote, verdicts, task>>

(* Peers that the request does not name go, with their verdicts.           *)
DeleteStalePeers(c) ==
  /\ client[c].pc = "upsert"
  /\ client[c].todo = {}
  /\ peers' = [u \in Urls |-> IF u \in Request(c).urls THEN peers[u] ELSE None]
  /\ verdicts' = {v \in verdicts : \E u \in Urls : peers'[u] # None /\ peers'[u].id = v.peer}
  /\ BecomeClient(c, [client[c] EXCEPT !.pc = "spawn"])
  /\ UNCHANGED <<local, remote, nextPeerId, task>>

(* The check is started and the request answered; the next one follows.    *)
SpawnCheck(c, t) ==
  /\ client[c].pc = "spawn"
  /\ task[t].pc = "idle"
  /\ task' = [task EXCEPT ![t] = [IdleTask EXCEPT !.pc = "spawned"]]
  /\ LET rest == Tail(client[c].plan)
     IN BecomeClient(c, IF rest = <<>> THEN IdleClient
                        ELSE [pc |-> "upsert", plan |-> rest, todo |-> Head(rest).urls])
  /\ UNCHANGED <<local, remote, peers, nextPeerId, verdicts>>

(* A statement or the request fails, and rebuildctl gives up.              *)
AbandonPlan(c) ==
  /\ client[c].pc # "idle"
  /\ BecomeClient(c, IdleClient)
  /\ UNCHANGED <<local, remote, peers, nextPeerId, verdicts, task>>

-----------------------------------------------------------------------------
(* run_peer_check *)

BecomeTask(t, state) == task' = [task EXCEPT ![t] = state]

ReadPeers(t) ==
  /\ task[t].pc = "spawned"
  /\ LET rows == {[url |-> u, id |-> peers[u].id, alias |-> peers[u].alias]
                    : u \in {w \in Urls : peers[w] # None}}
     IN BecomeTask(t, IF rows = {} THEN IdleTask
                      ELSE [IdleTask EXCEPT !.pc = "fetch", !.todo = rows])
  /\ UNCHANGED <<local, remote, peers, nextPeerId, verdicts, client>>

(* A peer answers for the release it is asked for.  Without one, and from  *)
(* a v0 peer, the map keeps the last entry of each name and version.       *)
Listings(p) ==
  IF p.alias = None \/ p.url \in V0Urls
  THEN {m \in Listing : \A k \in Packages : \E r \in Releases : m[k] = remote[p.url][r][k]}
  ELSE {remote[p.url][p.alias]}

(* fetch_all_peer_packages goes through the pages by id, so that what      *)
(* leaves the list meanwhile does not end it.                              *)
FetchPeer(t, p) ==
  /\ task[t].pc = "fetch"
  /\ p \in task[t].todo
  /\ \E m \in Listings(p) :
       BecomeTask(t, [task[t] EXCEPT !.todo = @ \ {p}, !.maps = @ \cup {[peer |-> p, map |-> m]}])
  /\ UNCHANGED <<local, remote, peers, nextPeerId, verdicts, client>>

(* A peer that cannot be read is left out. *)
FetchFails(t, p) ==
  /\ task[t].pc = "fetch"
  /\ p \in task[t].todo
  /\ BecomeTask(t, [task[t] EXCEPT !.todo = @ \ {p}])
  /\ UNCHANGED <<local, remote, peers, nextPeerId, verdicts, client>>

Disagree(theirs, ours) == {theirs, ours} = {"GOOD", "BAD"}

(* The local packages are read, and compared with the lists of the peers.  *)
ComparePackages(t) ==
  /\ task[t].pc = "fetch"
  /\ task[t].todo = {}
  /\ BecomeTask(t,
       IF task[t].maps = {} THEN IdleTask
       ELSE [IdleTask EXCEPT
         !.pc = "write",
         !.compared = {m.peer.id : m \in task[t].maps},
         !.rows = UNION {{[peer |-> m.peer.id, url |-> m.peer.url, pkg |-> k, status |-> m.map[k]]
                            : k \in {j \in Packages : Disagree(m.map[j], local[j])}}
                           : m \in task[t].maps}])
  /\ UNCHANGED <<local, remote, peers, nextPeerId, verdicts, client>>

(* Every row must name a peer that is still there.                         *)
ForeignKeysHold(t) ==
  \A row \in task[t].rows : \E u \in Urls : peers[u] # None /\ peers[u].id = row.peer

(* Fault: only verdicts that are computed again are replaced.              *)
ReplaceNewVerdicts(t) ==
  /\ task[t].pc = "write"
  /\ ForeignKeysHold(t)
  /\ verdicts' = task[t].rows \cup
       {v \in verdicts : \A row \in task[t].rows : v.peer # row.peer \/ v.pkg # row.pkg}
  /\ BecomeTask(t, IdleTask)
  /\ UNCHANGED <<local, remote, peers, nextPeerId, client>>

(* In one transaction the verdicts on the compared peers are replaced.     *)
ReplaceVerdicts(t) ==
  /\ task[t].pc = "write"
  /\ ForeignKeysHold(t)
  /\ verdicts' = {v \in verdicts : v.peer \notin task[t].compared} \cup task[t].rows
  /\ BecomeTask(t, IdleTask)
  /\ UNCHANGED <<local, remote, peers, nextPeerId, client>>

(* A peer was deleted meanwhile: the transaction is rolled back, and with  *)
(* it the verdicts on all other peers.                                     *)
RejectVerdicts(t) ==
  /\ task[t].pc = "write"
  /\ ~ForeignKeysHold(t)
  /\ BecomeTask(t, IdleTask)
  /\ UNCHANGED <<local, remote, peers, nextPeerId, verdicts, client>>

(* The daemon stops, or the database is busy. *)
AbandonCheck(t) ==
  /\ task[t].pc # "idle"
  /\ BecomeTask(t, IdleTask)
  /\ UNCHANGED <<local, remote, peers, nextPeerId, verdicts, client>>

-----------------------------------------------------------------------------
(* Builds go on here and at the peers. *)
LocalChange(k, status) ==
  /\ local' = [local EXCEPT ![k] = status]
  /\ UNCHANGED <<remote, peers, nextPeerId, verdicts, client, task>>

RemoteChange(u, r, k, status) ==
  /\ remote' = [remote EXCEPT ![u][r][k] = status]
  /\ UNCHANGED <<local, peers, nextPeerId, verdicts, client, task>>

-----------------------------------------------------------------------------
ClientStep(c) ==
  \/ \E plan \in Plans : StartPlan(c, plan)
  \/ \E u \in Urls : UpsertPeer(c, u)
  \/ DeleteStalePeers(c)
  \/ \E t \in Tasks : SpawnCheck(c, t)

CheckStep(t) ==
  \/ ReadPeers(t)
  \/ \E p \in task[t].todo : FetchPeer(t, p)
  \/ ComparePackages(t)
  \/ ReplaceVerdicts(t)
  \/ RejectVerdicts(t)

Failure ==
  \/ \E c \in Clients : AbandonPlan(c)
  \/ \E t \in Tasks : AbandonCheck(t)
  \/ \E t \in Tasks : \E p \in task[t].todo : FetchFails(t, p)

Change ==
  \/ \E k \in Packages, status \in Statuses \cup {None} : LocalChange(k, status)
  \/ \E u \in Urls, r \in Releases, k \in Packages, status \in Statuses \cup {None} :
       RemoteChange(u, r, k, status)

PeersNext ==
  \/ \E c \in Clients : ClientStep(c)
  \/ \E t \in Tasks : CheckStep(t)
  \/ Failure
  \/ Change

PeersSpec == PeersInit /\ [][PeersNext]_peerVars

(* Reads: cached_peer_entries, and has_disagreement of get_binary_packages *)
CachedStatus(u, k) ==
  IF \E v \in verdicts : peers[u] # None /\ v.peer = peers[u].id /\ v.pkg = k
  THEN (CHOOSE v \in verdicts : v.peer = peers[u].id /\ v.pkg = k).status
  ELSE None

(* get_peer_package, live: a peer is asked by name, version and            *)
(* architecture, and answers with one of the rows it has, of any release.  *)
LiveStatuses(u, k) ==
  LET known == {remote[u][r][k] : r \in Releases} \ {None}
  IN IF known = {} THEN {None} ELSE known

HasDisagreement(k) == \E u \in Urls : peers[u] # None /\ CachedStatus(u, k) # None
=============================================================================
