----------------------------- MODULE PeersProofs -----------------------------
(***************************************************************************)
(* Verdicts of background checks stay with the peer they are about, for    *)
(* any number of peers, checks and runs of rebuildctl.  Checks hold ids of *)
(* peers for as long as they run; the reason is that an id, once given to  *)
(* a url, never names the row of another (Owns).                           *)
(***************************************************************************)
EXTENDS PeersProperties, TLAPS

Owns(u, id) ==
  /\ u \in Urls
  /\ id \in Nat
  /\ id < nextPeerId
  /\ \A w \in Urls : peers[w] # None /\ peers[w].id = id => w = u

PeersTyped == peers \in [Urls -> PeerInfo \cup {None}] /\ nextPeerId \in Nat

PeerIds == \A u \in Urls : peers[u] # None => Owns(u, peers[u].id)

ClientState ==
  [pc : {"idle", "upsert", "delete", "spawn"}, plan : Seq(CheckRequests), todo : SUBSET Urls]

ClientsInStep ==
  /\ client \in [Clients -> ClientState]
  /\ \A c \in Clients : client[c].pc # "idle" => client[c].plan # <<>>

(* The fields of a task, whatever is in the lists that it fetched.         *)
TaskState(s) == DOMAIN s = {"pc", "todo", "maps", "compared", "rows"}

TaskInStep(s) ==
  /\ TaskState(s)
  /\ \A p \in s.todo : Owns(p.url, p.id)
  /\ \A m \in s.maps : Owns(m.peer.url, m.peer.id)
  /\ \A row \in s.rows : Owns(row.url, row.peer)

TasksInStep ==
  /\ DOMAIN task = Tasks
  /\ \A t \in Tasks : TaskInStep(task[t])

PeersInv == PeersTyped /\ PeerIds /\ ClientsInStep /\ TasksInStep /\ VerdictsBelongToPeer

-----------------------------------------------------------------------------
LEMMA PeersInitHolds == PeersInit => PeersInv
<1> SUFFICES ASSUME PeersInit PROVE PeersInv
  OBVIOUS
<1>1. PeersTyped /\ PeerIds /\ VerdictsBelongToPeer
  BY DEF PeersInit, PeersTyped, PeerIds, VerdictsBelongToPeer
<1>2. ClientsInStep
  BY DEF PeersInit, ClientsInStep, ClientState, IdleClient
<1>3. TasksInStep
  BY DEF PeersInit, TasksInStep, TaskInStep, TaskState, IdleTask
<1>4. QED  BY <1>1, <1>2, <1>3 DEF PeersInv

(* What is asked of a peer's row is a release, or nothing.                 *)
LEMMA RequestIsTyped ==
  ASSUME PeersInv, NEW c \in Clients, client[c].pc # "idle"
  PROVE  Request(c) \in CheckRequests
BY DEF PeersInv, ClientsInStep, ClientState, Request

(* check_peers gives a new url the next id, and a known one a new alias.   *)
LEMMA UpsertsPeer ==
  ASSUME PeersInv, NEW c \in Clients, NEW u \in Urls, UpsertPeer(c, u)
  PROVE  /\ PeersTyped' /\ PeerIds'
         /\ \A w \in Urls, id \in Nat : Owns(w, id) => Owns(w, id)'
         /\ \A w \in Urls : peers[w] # None => peers'[w] # None /\ peers'[w].id = peers[w].id
<1> USE DEF PeersInv, PeersTyped
<1>1. Request(c).alias \in Releases \cup {None}
  BY RequestIsTyped DEF UpsertPeer, CheckRequests
<1> DEFINE row == IF peers[u] = None THEN [id |-> nextPeerId, alias |-> Request(c).alias]
                  ELSE [peers[u] EXCEPT !.alias = Request(c).alias]
<1>2. peers' = [peers EXCEPT ![u] = row]
      /\ nextPeerId' = IF peers[u] = None THEN nextPeerId + 1 ELSE nextPeerId
  BY DEF UpsertPeer
<1>3. row \in PeerInfo /\ row.id = IF peers[u] = None THEN nextPeerId ELSE peers[u].id
  BY <1>1 DEF PeerInfo
<1>4. row # None
  BY <1>3, PeersAssumption
<1> HIDE DEF row
<1>5. PeersTyped'
  BY <1>2, <1>3
<1>6. ASSUME NEW w \in Urls, NEW id \in Nat, Owns(w, id) PROVE Owns(w, id)'
  BY <1>2, <1>3, <1>6 DEF Owns
<1>7. ASSUME NEW w \in Urls, peers[w] # None PROVE peers'[w] # None /\ peers'[w].id = peers[w].id
  BY <1>2, <1>3, <1>4, <1>7
<1>8. ASSUME NEW w \in Urls, peers'[w] # None PROVE Owns(w, peers[w].id)'
  <2>1. CASE peers[w] # None
    BY <1>6, <1>7, <2>1 DEF PeerIds, Owns
  <2>2. CASE peers[w] = None
    <3>1. w = u /\ peers'[w].id = nextPeerId /\ nextPeerId' = nextPeerId + 1
      BY <1>2, <1>3, <1>8, <2>2
    <3>2. \A v \in Urls : peers'[v] # None /\ peers'[v].id = nextPeerId => v = u
      BY <1>2 DEF PeerIds, Owns
    <3>3. QED  BY <3>1, <3>2 DEF Owns
  <2>3. QED  BY <2>1, <2>2
<1>9. QED  BY <1>5, <1>6, <1>7, <1>8 DEF PeerIds

(* Of the peers' rows a step deletes some, or keeps all and may add one.   *)
LEMMA IdsKeepOwners ==
  ASSUME PeersInv, [PeersNext]_peerVars
  PROVE  /\ PeersTyped' /\ PeerIds'
         /\ \A w \in Urls, id \in Nat : Owns(w, id) => Owns(w, id)'
<1>1. CASE UNCHANGED <<peers, nextPeerId>>
  BY <1>1 DEF PeersInv, PeersTyped, PeerIds, Owns
<1>2. CASE \E c \in Clients, u \in Urls : UpsertPeer(c, u)
  BY <1>2, UpsertsPeer
<1>3. ASSUME NEW c \in Clients, DeleteStalePeers(c)
      PROVE  /\ PeersTyped' /\ PeerIds'
             /\ \A w \in Urls, id \in Nat : Owns(w, id) => Owns(w, id)'
  <2>1. /\ peers' \in [Urls -> PeerInfo \cup {None}] /\ nextPeerId' = nextPeerId
        /\ \A u \in Urls : peers'[u] # None => peers'[u] = peers[u]
    BY <1>3 DEF DeleteStalePeers, PeersInv, PeersTyped
  <2>2. QED  BY <2>1 DEF PeersInv, PeersTyped, PeerIds, Owns
<1>4. QED
  BY <1>1, <1>2, <1>3
  DEF PeersNext, peerVars, ClientStep, CheckStep, Failure, Change, StartPlan, SpawnCheck,
      AbandonPlan, ReadPeers, FetchPeer, FetchFails, ComparePackages, ReplaceVerdicts,
      RejectVerdicts, AbandonCheck, LocalChange, RemoteChange

LEMMA ClientsStayInStep ==
  ASSUME PeersInv, [PeersNext]_peerVars
  PROVE  ClientsInStep'
<1> USE DEF PeersInv
<1>1. ASSUME NEW c \in Clients, NEW state \in ClientState, BecomeClient(c, state),
             state.pc # "idle" => state.plan # <<>>
      PROVE  ClientsInStep'
  BY <1>1 DEF BecomeClient, ClientsInStep
<1>2. IdleClient \in ClientState /\ IdleClient.pc = "idle"
  BY DEF IdleClient, ClientState
<1>3. ASSUME NEW plan \in Seq(CheckRequests), plan # <<>>
      PROVE  [pc |-> "upsert", plan |-> plan, todo |-> Head(plan).urls] \in ClientState
  <2>1. Head(plan) \in CheckRequests
    BY <1>3
  <2>2. Head(plan).urls \in SUBSET Urls
    BY <2>1 DEF CheckRequests
  <2>3. QED  BY <2>2 DEF ClientState
<1>4. ASSUME NEW c \in Clients, NEW plan \in Plans, StartPlan(c, plan) PROVE ClientsInStep'
  <2>1. plan \in Seq(CheckRequests) /\ plan # <<>>
    BY <1>4, PeersAssumption DEF StartPlan
  <2> DEFINE state == [pc |-> "upsert", plan |-> plan, todo |-> Head(plan).urls]
  <2>2. state \in ClientState /\ state.plan # <<>>
    BY <1>3, <2>1
  <2>3. BecomeClient(c, state)
    BY <1>4 DEF StartPlan
  <2> HIDE DEF state
  <2>4. QED  BY <1>1, <2>2, <2>3
<1>5. ASSUME NEW c \in Clients, NEW u \in Urls, UpsertPeer(c, u) PROVE ClientsInStep'
  BY <1>5 DEF UpsertPeer, BecomeClient, ClientsInStep, ClientState
<1>6. ASSUME NEW c \in Clients, DeleteStalePeers(c) PROVE ClientsInStep'
  BY <1>6 DEF DeleteStalePeers, BecomeClient, ClientsInStep, ClientState
<1>7. ASSUME NEW c \in Clients, NEW t \in Tasks, SpawnCheck(c, t) PROVE ClientsInStep'
  <2> DEFINE rest == Tail(client[c].plan)
  <2>1. client[c].plan \in Seq(CheckRequests) /\ client[c].plan # <<>>
    BY <1>7 DEF SpawnCheck, ClientsInStep, ClientState
  <2>2. rest \in Seq(CheckRequests)
    BY <2>1
  <2>3. BecomeClient(c, IF rest = <<>> THEN IdleClient
                        ELSE [pc |-> "upsert", plan |-> rest, todo |-> Head(rest).urls])
    BY <1>7 DEF SpawnCheck
  <2> HIDE DEF rest
  <2>4. CASE rest = <<>>
    BY <1>1, <1>2, <2>3, <2>4
  <2>5. CASE rest # <<>>
    <3> DEFINE state == [pc |-> "upsert", plan |-> rest, todo |-> Head(rest).urls]
    <3>1. state \in ClientState /\ state.plan # <<>> /\ BecomeClient(c, state)
      BY <1>3, <2>2, <2>3, <2>5
    <3> HIDE DEF state
    <3>2. QED  BY <1>1, <3>1
  <2>6. QED  BY <2>4, <2>5
<1>8. ASSUME NEW c \in Clients, AbandonPlan(c) PROVE ClientsInStep'
  BY <1>1, <1>2, <1>8 DEF AbandonPlan
<1>9. CASE UNCHANGED client
  BY <1>9 DEF ClientsInStep
<1>10. QED
  BY <1>4, <1>5, <1>6, <1>7, <1>8, <1>9
  DEF PeersNext, peerVars, ClientStep, CheckStep, Failure, Change, ReadPeers, FetchPeer,
      FetchFails, ComparePackages, ReplaceVerdicts, RejectVerdicts, AbandonCheck, LocalChange,
      RemoteChange

(* A check knows peers by ids that it read or fetched, and by no others.   *)
LEMMA TasksStayInStep ==
  ASSUME PeersInv, [PeersNext]_peerVars
  PROVE  TasksInStep'
<1> USE DEF PeersInv
<1>1. \A w \in Urls, id \in Nat : Owns(w, id) => Owns(w, id)'
  BY IdsKeepOwners
<1>2. ASSUME NEW state, TaskInStep(state) PROVE TaskInStep(state)'
  BY <1>1, <1>2 DEF TaskInStep, TaskState, Owns
<1>3. CASE UNCHANGED task
  BY <1>2, <1>3 DEF TasksInStep
<1>4. ASSUME NEW t \in Tasks, NEW state, BecomeTask(t, state), TaskInStep(state)
      PROVE  TasksInStep'
  <2>1. TaskInStep(state)'
    BY <1>2, <1>4
  <2>2. DOMAIN task' = Tasks /\ task'[t] = state /\ \A s \in Tasks \ {t} : task'[s] = task[s]
    BY <1>4 DEF BecomeTask, TasksInStep
  <2>3. ASSUME NEW s \in Tasks PROVE TaskInStep(task[s])'
    <3>1. CASE s = t
      BY <2>1, <2>2, <3>1 DEF TaskInStep, TaskState, Owns
    <3>2. CASE s # t
      <4>1. PICK other : other = task[s] /\ other = task'[s]
        BY <2>2, <3>2
      <4>2. TaskInStep(other)
        BY <4>1 DEF TasksInStep
      <4>3. TaskInStep(other)'
        BY <1>2, <4>2
      <4>4. QED  BY <4>1, <4>3
    <3>3. QED  BY <3>1, <3>2
  <2>4. QED  BY <2>2, <2>3 DEF TasksInStep
<1>5. TaskInStep(IdleTask)
  BY DEF IdleTask, TaskInStep, TaskState
<1>6. ASSUME NEW c \in Clients, NEW t \in Tasks, SpawnCheck(c, t) PROVE TasksInStep'
  <2> DEFINE state == [IdleTask EXCEPT !.pc = "spawned"]
  <2>1. TaskInStep(state)
    BY DEF IdleTask, TaskInStep, TaskState
  <2>2. BecomeTask(t, state)
    BY <1>6 DEF SpawnCheck, BecomeTask
  <2>3. QED  BY <1>4, <2>1, <2>2
<1>7. ASSUME NEW t \in Tasks, ReadPeers(t) PROVE TasksInStep'
  <2> DEFINE known == {[url |-> u, id |-> peers[u].id, alias |-> peers[u].alias]
                         : u \in {w \in Urls : peers[w] # None}}
             fetching == [IdleTask EXCEPT !.pc = "fetch", !.todo = known]
  <2>1. \A p \in known : Owns(p.url, p.id)
    BY DEF PeerIds
  <2>2. BecomeTask(t, IF known = {} THEN IdleTask ELSE fetching)
    BY <1>7 DEF ReadPeers
  <2> HIDE DEF known
  <2>3. TaskInStep(fetching)
    <3>1. TaskState(fetching) /\ fetching.todo = known /\ fetching.maps = {} /\ fetching.rows = {}
      BY DEF TaskState, IdleTask
    <3>2. QED  BY <2>1, <3>1 DEF TaskInStep
  <2> HIDE DEF fetching
  <2>4. QED  BY <1>4, <1>5, <2>2, <2>3
<1>8. ASSUME NEW t \in Tasks, NEW p \in task[t].todo, FetchPeer(t, p) \/ FetchFails(t, p)
      PROVE  TasksInStep'
  <2> DEFINE left == task[t].todo \ {p}
             failed == [task[t] EXCEPT !.todo = left]
             fetched(m) == [task[t] EXCEPT !.todo = left, !.maps = @ \cup {[peer |-> p, map |-> m]}]
  <2>1. TaskInStep(task[t])
    BY DEF TasksInStep
  <2>2. ASSUME NEW m PROVE TaskInStep(fetched(m))
    <3> DEFINE maps == task[t].maps \cup {[peer |-> p, map |-> m]}
               new == fetched(m)
    <3>1. TaskState(new) /\ new.todo = left /\ new.maps = maps /\ new.rows = task[t].rows
      BY <2>1 DEF TaskInStep, TaskState
    <3>2. (\A q \in left : Owns(q.url, q.id)) /\ \A n \in maps : Owns(n.peer.url, n.peer.id)
      BY <2>1 DEF TaskInStep
    <3> HIDE DEF new, left, maps
    <3>3. TaskInStep(new)
      BY <2>1, <3>1, <3>2 DEF TaskInStep
    <3>4. QED  BY <3>3 DEF new
  <2>3. TaskInStep(failed)
    <3>1. TaskState(failed) /\ failed.todo = left /\ failed.maps = task[t].maps
          /\ failed.rows = task[t].rows
      BY <2>1 DEF TaskInStep, TaskState
    <3> HIDE DEF failed
    <3>2. QED  BY <2>1, <3>1 DEF TaskInStep
  <2>4. CASE FetchPeer(t, p)
    <3>1. PICK m \in Listings(p) : BecomeTask(t, fetched(m))
      BY <2>4 DEF FetchPeer
    <3>2. QED  BY <1>4, <2>2, <3>1
  <2>5. CASE FetchFails(t, p)
    <3>1. BecomeTask(t, failed)
      BY <2>5 DEF FetchFails
    <3> HIDE DEF failed
    <3>2. QED  BY <1>4, <2>3, <3>1
  <2>6. QED  BY <1>8, <2>4, <2>5
<1>9. ASSUME NEW t \in Tasks, ComparePackages(t) PROVE TasksInStep'
  <2> DEFINE ids == {m.peer.id : m \in task[t].maps}
             found == UNION {{[peer |-> m.peer.id, url |-> m.peer.url, pkg |-> k,
                               status |-> m.map[k]]
                                : k \in {j \in Packages : Disagree(m.map[j], local[j])}}
                               : m \in task[t].maps}
             writing == [IdleTask EXCEPT !.pc = "write", !.compared = ids, !.rows = found]
  <2>1. BecomeTask(t, IF task[t].maps = {} THEN IdleTask ELSE writing)
    BY <1>9 DEF ComparePackages
  <2>2. \A row \in found : Owns(row.url, row.peer)
    BY DEF TasksInStep, TaskInStep
  <2> HIDE DEF found, ids
  <2>3. TaskInStep(writing)
    <3>1. TaskState(writing) /\ writing.todo = {} /\ writing.maps = {} /\ writing.rows = found
      BY DEF TaskState, IdleTask
    <3>2. QED  BY <2>2, <3>1 DEF TaskInStep
  <2> HIDE DEF writing
  <2>4. QED  BY <1>4, <1>5, <2>1, <2>3
<1>10. ASSUME NEW t \in Tasks, ReplaceVerdicts(t) \/ RejectVerdicts(t) \/ AbandonCheck(t)
       PROVE  TasksInStep'
  BY <1>4, <1>5, <1>10 DEF ReplaceVerdicts, RejectVerdicts, AbandonCheck
<1>11. QED
  BY <1>3, <1>6, <1>7, <1>8, <1>9, <1>10
  DEF PeersNext, peerVars, ClientStep, CheckStep, Failure, Change, StartPlan, UpsertPeer,
      DeleteStalePeers, AbandonPlan, LocalChange, RemoteChange

(* Verdicts go with their peer, and are only written while it is there.    *)
LEMMA VerdictsStayWithPeer ==
  ASSUME PeersInv, [PeersNext]_peerVars
  PROVE  VerdictsBelongToPeer'
<1> USE DEF PeersInv, Registered
<1>1. CASE UNCHANGED <<peers, verdicts>>
  BY <1>1 DEF VerdictsBelongToPeer
<1>2. ASSUME NEW c \in Clients, NEW u \in Urls, UpsertPeer(c, u) PROVE VerdictsBelongToPeer'
  <2>1. \A w \in Urls : peers[w] # None => peers'[w] # None /\ peers'[w].id = peers[w].id
    BY <1>2, UpsertsPeer
  <2>2. verdicts' = verdicts
    BY <1>2 DEF UpsertPeer
  <2>3. QED  BY <2>1, <2>2 DEF VerdictsBelongToPeer
<1>3. ASSUME NEW c \in Clients, DeleteStalePeers(c) PROVE VerdictsBelongToPeer'
  <2>1. \A u \in Urls : peers'[u] # None => peers'[u] = peers[u]
    BY <1>3 DEF DeleteStalePeers
  <2>2. \A v \in verdicts' : v \in verdicts /\ \E u \in Urls : peers'[u] # None /\ peers'[u].id = v.peer
    BY <1>3 DEF DeleteStalePeers
  <2>3. ASSUME NEW v \in verdicts' PROVE peers'[v.url] # None /\ peers'[v.url] = peers[v.url]
    <3>1. PICK u \in Urls : peers'[u] # None /\ peers'[u].id = v.peer
      BY <2>2
    <3>2. peers[u] # None /\ peers[u].id = v.peer
      BY <2>1, <3>1
    <3>3. v.url \in Urls /\ peers[v.url] # None /\ peers[v.url].id = v.peer
      BY <2>2 DEF VerdictsBelongToPeer
    <3>4. u = v.url
      BY <3>2, <3>3 DEF PeerIds, Owns
    <3>5. QED  BY <2>1, <3>1, <3>4
  <2>4. QED  BY <2>2, <2>3 DEF VerdictsBelongToPeer
<1>4. ASSUME NEW t \in Tasks, ReplaceVerdicts(t) PROVE VerdictsBelongToPeer'
  <2>1. peers' = peers /\ verdicts' \subseteq verdicts \cup task[t].rows /\ ForeignKeysHold(t)
    BY <1>4 DEF ReplaceVerdicts
  <2>2. ASSUME NEW row \in task[t].rows
        PROVE  row.url \in Urls /\ peers[row.url] # None /\ peers[row.url].id = row.peer
    BY <2>1 DEF ForeignKeysHold, TasksInStep, TaskInStep, Owns
  <2>3. QED  BY <2>1, <2>2 DEF VerdictsBelongToPeer
<1>5. QED
  BY <1>1, <1>2, <1>3, <1>4
  DEF PeersNext, peerVars, ClientStep, CheckStep, Failure, Change, StartPlan, SpawnCheck,
      AbandonPlan, ReadPeers, FetchPeer, FetchFails, ComparePackages, RejectVerdicts,
      AbandonCheck, LocalChange, RemoteChange

-----------------------------------------------------------------------------
(* Ids have owners, and requests and checks keep to them.                  *)
THEOREM PeersInvHolds == PeersSpec => []PeersInv
<1>1. PeersInv /\ [PeersNext]_peerVars => PeersInv'
  BY IdsKeepOwners, ClientsStayInStep, TasksStayInStep, VerdictsStayWithPeer DEF PeersInv
<1>2. QED  BY <1>1, PeersInitHolds, PTL DEF PeersSpec

(* What a check and the tables hold beyond that: packages and statuses.    *)
TaskTyped(s) ==
  /\ s.pc \in {"idle", "spawned", "fetch", "write"}
  /\ s.todo \subseteq PeerRows
  /\ s.maps \subseteq [peer : PeerRows, map : Listing]
  /\ s.compared \subseteq Nat
  /\ s.rows \subseteq Verdicts

DataTyped ==
  /\ local \in Listing
  /\ remote \in [Urls -> [Releases -> Listing]]
  /\ verdicts \subseteq Verdicts
  /\ \A t \in Tasks : TaskTyped(task[t])

LEMMA AnswersAreListings ==
  ASSUME DataTyped, NEW p \in PeerRows
  PROVE  Listings(p) \subseteq Listing
<1>1. CASE p.alias = None
  BY <1>1 DEF Listings
<1>2. CASE p.alias \in Releases
  <2>1. remote[p.url][p.alias] \in Listing
    BY <1>2 DEF DataTyped, PeerRows
  <2>2. QED  BY <2>1 DEF Listings
<1>3. QED  BY <1>1, <1>2 DEF PeerRows

(* Only statuses that can disagree become rows. *)
LEMMA ComparedIsTyped ==
  ASSUME PeersInv, DataTyped, NEW t \in Tasks, ComparePackages(t)
  PROVE  TaskTyped(task'[t])
<1>1. DOMAIN task = Tasks
  BY DEF PeersInv, TasksInStep
<1>2. task[t].maps \subseteq [peer : PeerRows, map : Listing]
  BY DEF DataTyped, TaskTyped
<1>3. CASE task[t].maps = {}
  BY <1>1, <1>3 DEF ComparePackages, BecomeTask, IdleTask, TaskTyped
<1>4. CASE task[t].maps # {}
  <2> DEFINE compared == {m.peer.id : m \in task[t].maps}
             RowsOf(m) == {[peer |-> m.peer.id, url |-> m.peer.url, pkg |-> k, status |-> m.map[k]]
                             : k \in {j \in Packages : Disagree(m.map[j], local[j])}}
             rows == UNION {RowsOf(m) : m \in task[t].maps}
  <2>1. task'[t] = [pc |-> "write", todo |-> {}, maps |-> {}, compared |-> compared, rows |-> rows]
    BY <1>1, <1>4 DEF ComparePackages, BecomeTask, IdleTask
  <2>2. compared \subseteq Nat
    BY <1>2 DEF PeerRows
  <2>3. ASSUME NEW m \in task[t].maps, NEW k \in Packages, Disagree(m.map[k], local[k])
        PROVE  [peer |-> m.peer.id, url |-> m.peer.url, pkg |-> k, status |-> m.map[k]] \in Verdicts
    <3>1. m.map \in Listing /\ m.peer.id \in Nat /\ m.peer.url \in Urls
      BY <1>2 DEF PeerRows
    <3>2. m.map[k] \in {"GOOD", "BAD"}
      BY <2>3 DEF Disagree
    <3>3. m.map[k] \in Statuses
      BY <3>1, <3>2, PeersAssumption DEF Listing
    <3>4. QED  BY <3>1, <3>3 DEF Verdicts
  <2>4. rows \subseteq Verdicts
    BY <2>3
  <2>5. QED  BY <2>1, <2>2, <2>4 DEF TaskTyped
<1>5. QED  BY <1>3, <1>4

LEMMA DataStaysTyped ==
  ASSUME PeersInv, DataTyped, [PeersNext]_peerVars
  PROVE  DataTyped'
<1>1. DOMAIN task = Tasks
  BY DEF PeersInv, TasksInStep
<1>2. CASE UNCHANGED <<local, remote, verdicts, task>>
  BY <1>2 DEF DataTyped
<1>3. ASSUME NEW c \in Clients, DeleteStalePeers(c) PROVE DataTyped'
  BY <1>3 DEF DeleteStalePeers, DataTyped
<1>4. ASSUME NEW t \in Tasks, NEW state, BecomeTask(t, state), TaskTyped(state),
             UNCHANGED <<local, remote>>, verdicts' \subseteq Verdicts
      PROVE  DataTyped'
  <2>1. \A s \in Tasks : task'[s] = IF s = t THEN state ELSE task[s]
    BY <1>1, <1>4 DEF BecomeTask
  <2>2. QED  BY <1>4, <2>1 DEF DataTyped
<1>5. TaskTyped(IdleTask) /\ TaskTyped([IdleTask EXCEPT !.pc = "spawned"])
  BY DEF IdleTask, TaskTyped
<1>6. verdicts \subseteq Verdicts
  BY DEF DataTyped
<1>7. ASSUME NEW c \in Clients, NEW t \in Tasks, SpawnCheck(c, t) PROVE DataTyped'
  BY <1>4, <1>5, <1>6, <1>7 DEF SpawnCheck, BecomeTask
<1>8. ASSUME NEW t \in Tasks, ReadPeers(t) PROVE DataTyped'
  <2> DEFINE rows == {[url |-> u, id |-> peers[u].id, alias |-> peers[u].alias]
                        : u \in {w \in Urls : peers[w] # None}}
  <2>1. rows \subseteq PeerRows
    BY DEF PeersInv, PeersTyped, PeerInfo, PeerRows
  <2>2. TaskTyped([IdleTask EXCEPT !.pc = "fetch", !.todo = rows])
    BY <2>1 DEF IdleTask, TaskTyped
  <2>3. QED  BY <1>4, <1>5, <1>6, <1>8, <2>2 DEF ReadPeers
<1>9. ASSUME NEW t \in Tasks, NEW p \in task[t].todo, FetchPeer(t, p) PROVE DataTyped'
  <2>1. PICK m \in Listings(p) :
          BecomeTask(t, [task[t] EXCEPT !.todo = @ \ {p}, !.maps = @ \cup {[peer |-> p, map |-> m]}])
    BY <1>9 DEF FetchPeer
  <2>2. p \in PeerRows /\ m \in Listing
    BY AnswersAreListings DEF DataTyped, TaskTyped
  <2>3. TaskTyped([task[t] EXCEPT !.todo = @ \ {p}, !.maps = @ \cup {[peer |-> p, map |-> m]}])
    BY <2>2 DEF DataTyped, TaskTyped, PeersInv, TasksInStep, TaskInStep, TaskState
  <2>4. QED  BY <1>4, <1>6, <1>9, <2>1, <2>3 DEF FetchPeer
<1>10. ASSUME NEW t \in Tasks, NEW p \in task[t].todo, FetchFails(t, p) PROVE DataTyped'
  <2>1. TaskTyped([task[t] EXCEPT !.todo = @ \ {p}])
    BY DEF DataTyped, TaskTyped, PeersInv, TasksInStep, TaskInStep, TaskState
  <2>2. QED  BY <1>4, <1>6, <1>10, <2>1 DEF FetchFails
<1>11. ASSUME NEW t \in Tasks, ComparePackages(t) PROVE DataTyped'
  <2>1. TaskTyped(task'[t])
    BY <1>11, ComparedIsTyped
  <2>2. \A s \in Tasks \ {t} : task'[s] = task[s]
    BY <1>1, <1>11 DEF ComparePackages, BecomeTask
  <2>3. QED  BY <1>11, <2>1, <2>2 DEF ComparePackages, DataTyped
<1>12. ASSUME NEW t \in Tasks, ReplaceVerdicts(t) PROVE DataTyped'
  <2>1. verdicts' \subseteq Verdicts
    BY <1>12 DEF ReplaceVerdicts, DataTyped, TaskTyped
  <2>2. QED  BY <1>4, <1>5, <1>12, <2>1 DEF ReplaceVerdicts
<1>13. ASSUME NEW t \in Tasks, RejectVerdicts(t) \/ AbandonCheck(t) PROVE DataTyped'
  BY <1>4, <1>5, <1>6, <1>13 DEF RejectVerdicts, AbandonCheck
<1>14. ASSUME NEW k \in Packages, NEW status \in Statuses \cup {None}, LocalChange(k, status)
       PROVE  DataTyped'
  BY <1>14 DEF LocalChange, DataTyped, Listing
<1>15. ASSUME NEW u \in Urls, NEW r \in Releases, NEW k \in Packages,
              NEW status \in Statuses \cup {None}, RemoteChange(u, r, k, status)
       PROVE  DataTyped'
  BY <1>15 DEF RemoteChange, DataTyped, Listing
<1>16. CASE Failure
  BY <1>2, <1>10, <1>13, <1>16 DEF Failure, AbandonPlan
<1>17. ASSUME NEW c \in Clients, ClientStep(c) PROVE DataTyped'
  BY <1>2, <1>3, <1>7, <1>17 DEF ClientStep, StartPlan, UpsertPeer
<1>18. ASSUME NEW t \in Tasks, CheckStep(t) PROVE DataTyped'
  BY <1>8, <1>9, <1>11, <1>12, <1>13, <1>18 DEF CheckStep
<1>19. QED
  BY <1>2, <1>14, <1>15, <1>16, <1>17, <1>18 DEF PeersNext, Change, peerVars

(* Whatever peers answer and whichever statements fail, the checks and the *)
(* tables they write hold what they should: rows of peers, lists of        *)
(* packages with their statuses, and verdicts that have a status.          *)
THEOREM PeersTypeCorrect == PeersSpec => []PeersTypeOK
<1>1. PeersInit => DataTyped
  BY DEF PeersInit, DataTyped, TaskTyped, IdleTask
<1>2. PeersInv /\ DataTyped /\ [PeersNext]_peerVars => DataTyped'
  BY DataStaysTyped
<1>3. PeersInv /\ DataTyped => PeersTypeOK
  BY DEF PeersInv, PeersTyped, ClientsInStep, ClientState, DataTyped, TaskTyped, PeersTypeOK
<1>4. QED  BY <1>1, <1>2, <1>3, PeersInvHolds, PTL DEF PeersSpec

(* A row of peer_sha256_checks is shown under the peer whose list it was   *)
(* computed from, even when peers were deleted, or registered again, while *)
(* run_peer_check was fetching lists.                                      *)
THEOREM VerdictsAreThePeers == PeersSpec => []VerdictsBelongToPeer
<1>1. PeersInv => VerdictsBelongToPeer
  BY DEF PeersInv
<1>2. QED  BY <1>1, PeersInvHolds, PTL

(* Failed checks and repeated registrations take no verdict away: one goes *)
(* with its peer, or when a check has compared that peer again.            *)
THEOREM VerdictsAreKept == PeersSpec => VerdictsSurvive
<1> DEFINE Removed(v) ==
      \/ \E c \in Clients : DeleteStalePeers(c) /\ v.url \notin Request(c).urls
      \/ \E t \in Tasks : ReplaceVerdicts(t) /\ v.peer \in task[t].compared
<1>1. ASSUME PeersInv, [PeersNext]_peerVars, NEW v \in verdicts \ verdicts' PROVE Removed(v)
  <2>1. CASE verdicts' = verdicts
    BY <2>1
  <2>2. ASSUME NEW c \in Clients, DeleteStalePeers(c) PROVE v.url \notin Request(c).urls
    <3>1. v.url \in Urls /\ peers[v.url] # None /\ peers[v.url].id = v.peer
      BY <1>1 DEF PeersInv, VerdictsBelongToPeer, Registered
    <3>2. \A u \in Urls : peers'[u] = IF u \in Request(c).urls THEN peers[u] ELSE None
      BY <2>2 DEF DeleteStalePeers
    <3>3. ~ \E u \in Urls : peers'[u] # None /\ peers'[u].id = v.peer
      BY <1>1, <2>2 DEF DeleteStalePeers
    <3>4. QED  BY <3>1, <3>2, <3>3
  <2>3. ASSUME NEW t \in Tasks, ReplaceVerdicts(t) PROVE v.peer \in task[t].compared
    BY <1>1, <2>3 DEF ReplaceVerdicts
  <2>4. QED
    BY <1>1, <2>1, <2>2, <2>3
    DEF PeersNext, peerVars, ClientStep, CheckStep, Failure, Change, StartPlan, UpsertPeer,
        SpawnCheck, AbandonPlan, ReadPeers, FetchPeer, FetchFails, ComparePackages,
        RejectVerdicts, AbandonCheck, LocalChange, RemoteChange
<1>2. PeersInv /\ [PeersNext]_peerVars => [\A v \in verdicts \ verdicts' : Removed(v)]_peerVars
  BY <1>1
<1>3. QED  BY <1>2, PeersInvHolds, PTL DEF PeersSpec, VerdictsSurvive

-----------------------------------------------------------------------------
(* Disagreements are flagged.  The run peer_releases shows that they are   *)
(* not when a peer is asked for two releases: the second check deletes what *)
(* the first has found.  They are when each peer is asked for one release, *)
(* and nothing fails or changes meanwhile.                                 *)
OneReleaseEach(releaseOf) ==
  \A plan \in Plans : \A n \in DOMAIN plan : \A u \in plan[n].urls :
    u \notin V0Urls /\ plan[n].alias = releaseOf[u] /\ releaseOf[u] \in Releases

Undisturbed == ~Failure /\ UNCHANGED <<local, remote>>

(* What is asked of u, as in the plans.                                    *)
AsksFor(releaseOf, u, alias) ==
  u \notin V0Urls /\ alias = releaseOf[u] /\ releaseOf[u] \in Releases

ClientsAsk(releaseOf) ==
  \A c \in Clients : client[c].pc # "idle" =>
    /\ client[c].todo \subseteq Request(c).urls
    /\ \A n \in DOMAIN client[c].plan : \A u \in client[c].plan[n].urls :
         AsksFor(releaseOf, u, client[c].plan[n].alias)

PeersAsked(releaseOf) == \A u \in Registered : AsksFor(releaseOf, u, peers[u].alias)

(* The packages on which u is found to disagree once it is compared.       *)
Differs(releaseOf, u, k) == Disagree(remote[u][releaseOf[u]][k], local[k])

(* A check has the lists of the releases asked for, and rows for all that  *)
(* differs in them.                                                        *)
CheckKnows(releaseOf, s) ==
  /\ \A p \in s.todo : AsksFor(releaseOf, p.url, p.alias)
  /\ \A m \in s.maps : m.map = remote[m.peer.url][releaseOf[m.peer.url]]
  /\ \A row \in s.rows : row.status \in {"GOOD", "BAD"}
  /\ \A n \in s.compared : \E u \in Urls :
       /\ Owns(u, n)
       /\ \A k \in Packages : Differs(releaseOf, u, k) => \E row \in s.rows : row.peer = n /\ row.pkg = k

Flagged(releaseOf, u) ==
  \A k \in Packages :
    Differs(releaseOf, u, k) => \E v \in verdicts : v.peer = peers[u].id /\ v.pkg = k

Current(p) == peers[p.url] # None /\ peers[p.url].id = p.id

(* Check t compares u, and no peer that it compares has been deleted: its  *)
(* verdicts will not be rejected.                                          *)
OnItsWay(t, u) ==
  \/ /\ task[t].pc = "fetch"
     /\ \A p \in task[t].todo : Current(p)
     /\ \A m \in task[t].maps : Current(m.peer)
     /\ (\E p \in task[t].todo : p.url = u) \/ (\E m \in task[t].maps : m.peer.url = u)
  \/ /\ task[t].pc = "write"
     /\ ForeignKeysHold(t)
     /\ peers[u].id \in task[t].compared

Pending == \/ \E c \in Clients : client[c].pc # "idle"
           \/ \E t \in Tasks : task[t].pc = "spawned"

(* The inductive invariant: a registered peer is flagged where it differs, *)
(* or a check that will flag it is in progress or still to come.           *)
FlagInv(releaseOf) ==
  /\ ClientsAsk(releaseOf)
  /\ PeersAsked(releaseOf)
  /\ \A t \in Tasks : CheckKnows(releaseOf, task[t])
  /\ \A v \in verdicts : v.status \in {"GOOD", "BAD"}
  /\ \A u \in Registered : Flagged(releaseOf, u) \/ Pending \/ \E t \in Tasks : OnItsWay(t, u)

LEMMA ClientsAskOneRelease ==
  ASSUME NEW CONSTANT releaseOf, OneReleaseEach(releaseOf), PeersInv, ClientsAsk(releaseOf),
         [PeersNext]_peerVars
  PROVE  ClientsAsk(releaseOf)'
<1> USE DEF PeersInv, ClientsInStep
<1> DEFINE Asks(s) == s.pc # "idle" =>
             /\ s.todo \subseteq Head(s.plan).urls
             /\ \A n \in DOMAIN s.plan : \A u \in s.plan[n].urls :
                  AsksFor(releaseOf, u, s.plan[n].alias)
<1>0. (\A c \in Clients : Asks(client[c])) /\ DOMAIN client = Clients
  BY DEF ClientsAsk, Request
<1>1. ASSUME NEW c \in Clients, NEW s, BecomeClient(c, s), Asks(s) PROVE ClientsAsk(releaseOf)'
  <2>1. \A d \in Clients : Asks(client'[d])
    BY <1>0, <1>1 DEF BecomeClient
  <2>2. QED  BY <2>1 DEF ClientsAsk, Request, AsksFor
<1>2. Asks(IdleClient)
  BY DEF IdleClient
<1>3. ASSUME NEW plan \in Seq(CheckRequests), plan # <<>>,
             \A n \in DOMAIN plan : \A u \in plan[n].urls : AsksFor(releaseOf, u, plan[n].alias)
      PROVE  Asks([pc |-> "upsert", plan |-> plan, todo |-> Head(plan).urls])
  BY <1>3
<1>4. ASSUME NEW c \in Clients, NEW plan \in Plans, StartPlan(c, plan) PROVE ClientsAsk(releaseOf)'
  <2> DEFINE s == [pc |-> "upsert", plan |-> plan, todo |-> Head(plan).urls]
  <2>1. plan \in Seq(CheckRequests) /\ plan # <<>> /\ BecomeClient(c, s)
    BY <1>4, PeersAssumption DEF StartPlan
  <2>2. Asks(s)
    BY <1>3, <2>1 DEF OneReleaseEach, AsksFor
  <2> HIDE DEF s, Asks
  <2>3. QED  BY <1>1, <2>1, <2>2
<1>5. ASSUME NEW c \in Clients, NEW u \in Urls, UpsertPeer(c, u) PROVE ClientsAsk(releaseOf)'
  <2> DEFINE s == [client[c] EXCEPT !.todo = @ \ {u}]
  <2>1. client[c] \in ClientState /\ BecomeClient(c, s)
    BY <1>5 DEF UpsertPeer
  <2>2. s.pc = client[c].pc /\ s.plan = client[c].plan /\ s.todo \subseteq client[c].todo
    BY <2>1 DEF ClientState
  <2> HIDE DEF s
  <2>3. Asks(s)
    BY <1>0, <2>2
  <2> HIDE DEF Asks
  <2>4. QED  BY <1>1, <2>1, <2>3
<1>6. ASSUME NEW c \in Clients, DeleteStalePeers(c) PROVE ClientsAsk(releaseOf)'
  <2> DEFINE s == [client[c] EXCEPT !.pc = "spawn"]
  <2>1. client[c] \in ClientState /\ BecomeClient(c, s) /\ client[c].pc = "upsert"
    BY <1>6 DEF DeleteStalePeers
  <2>2. s.plan = client[c].plan /\ s.todo = client[c].todo
    BY <2>1 DEF ClientState
  <2> HIDE DEF s
  <2>3. Asks(s)
    BY <1>0, <2>1, <2>2
  <2> HIDE DEF Asks
  <2>4. QED  BY <1>1, <2>1, <2>3
<1>7. ASSUME NEW c \in Clients, NEW t \in Tasks, SpawnCheck(c, t) PROVE ClientsAsk(releaseOf)'
  <2> DEFINE rest == Tail(client[c].plan)
             s == [pc |-> "upsert", plan |-> rest, todo |-> Head(rest).urls]
  <2>1. client[c].plan \in Seq(CheckRequests) /\ client[c].plan # <<>> /\ client[c].pc # "idle"
    BY <1>7 DEF SpawnCheck, ClientState
  <2>2. rest \in Seq(CheckRequests)
    BY <2>1
  <2>3. \A n \in DOMAIN rest : n + 1 \in DOMAIN client[c].plan /\ rest[n] = client[c].plan[n + 1]
    BY <2>1
  <2>4. \A n \in DOMAIN rest : \A u \in rest[n].urls : AsksFor(releaseOf, u, rest[n].alias)
    BY <1>0, <2>1, <2>3
  <2>5. BecomeClient(c, IF rest = <<>> THEN IdleClient ELSE s)
    BY <1>7 DEF SpawnCheck
  <2> HIDE DEF rest
  <2>6. rest # <<>> => Asks(s)
    BY <1>3, <2>2, <2>4
  <2> HIDE DEF s, Asks
  <2>7. QED  BY <1>1, <1>2, <2>5, <2>6
<1>8. ASSUME NEW c \in Clients, AbandonPlan(c) PROVE ClientsAsk(releaseOf)'
  BY <1>1, <1>2, <1>8 DEF AbandonPlan
<1>9. CASE UNCHANGED client
  BY <1>9 DEF ClientsAsk, Request, AsksFor
<1>10. QED
  BY <1>4, <1>5, <1>6, <1>7, <1>8, <1>9, Zenon
  DEF PeersNext, peerVars, ClientStep, CheckStep, Failure, Change, ReadPeers, FetchPeer,
      FetchFails, ComparePackages, ReplaceVerdicts, RejectVerdicts, AbandonCheck, LocalChange,
      RemoteChange

LEMMA PeersAreAsked ==
  ASSUME NEW CONSTANT releaseOf, PeersInv, ClientsAsk(releaseOf), PeersAsked(releaseOf),
         [PeersNext]_peerVars
  PROVE  PeersAsked(releaseOf)'
<1> USE DEF PeersInv, PeersTyped, PeersAsked, AsksFor, Registered
<1>1. CASE UNCHANGED peers
  BY <1>1
<1>2. ASSUME NEW c \in Clients, NEW u \in Urls, UpsertPeer(c, u) PROVE PeersAsked(releaseOf)'
  <2>1. /\ client[c].pc # "idle" /\ client[c].plan \in Seq(CheckRequests)
        /\ client[c].plan # <<>> /\ u \in client[c].todo
    BY <1>2 DEF UpsertPeer, ClientsInStep, ClientState
  <2>2. 1 \in DOMAIN client[c].plan /\ Request(c) = client[c].plan[1]
    BY <2>1 DEF Request
  <2>3. AsksFor(releaseOf, u, Request(c).alias)
    BY <2>1, <2>2 DEF ClientsAsk
  <2>4. \A w \in Urls \ {u} : peers'[w] = peers[w]
    BY <1>2 DEF UpsertPeer
  <2>5. peers'[u].alias = Request(c).alias
    <3>1. peers[u] # None => peers[u] \in PeerInfo
      OBVIOUS
    <3>2. QED  BY <1>2, <3>1 DEF UpsertPeer, PeerInfo
  <2>6. QED  BY <2>3, <2>4, <2>5
<1>3. ASSUME NEW c \in Clients, DeleteStalePeers(c) PROVE PeersAsked(releaseOf)'
  BY <1>3 DEF DeleteStalePeers
<1>4. QED
  BY <1>1, <1>2, <1>3, Zenon
  DEF PeersNext, peerVars, ClientStep, CheckStep, Failure, Change, StartPlan, SpawnCheck,
      AbandonPlan, ReadPeers, FetchPeer, FetchFails, ComparePackages, ReplaceVerdicts,
      RejectVerdicts, AbandonCheck, LocalChange, RemoteChange

(* The fields of a check that become what it writes are right.             *)
LEMMA ChecksKnow ==
  ASSUME NEW CONSTANT releaseOf, PeersInv, PeersAsked(releaseOf),
         \A t \in Tasks : CheckKnows(releaseOf, task[t]),
         [PeersNext]_peerVars, [Undisturbed]_peerVars
  PROVE  \A t \in Tasks : CheckKnows(releaseOf, task[t])'
<1> USE DEF PeersInv, TasksInStep
<1>0. (UNCHANGED <<local, remote>> /\ ~Failure) \/ UNCHANGED peerVars
  BY DEF Undisturbed
<1>1. \A w \in Urls, id \in Nat : Owns(w, id) => Owns(w, id)'
  BY IdsKeepOwners
<1>2. ASSUME NEW s, CheckKnows(releaseOf, s) PROVE CheckKnows(releaseOf, s)'
  <2>1. UNCHANGED <<local, remote>>
    BY <1>0 DEF peerVars
  <2>2. \A u, k : Differs(releaseOf, u, k)' = Differs(releaseOf, u, k)
    BY <2>1 DEF Differs, Disagree
  <2>3. ASSUME NEW n \in s.compared
        PROVE  \E u \in Urls :
                 /\ Owns(u, n)'
                 /\ \A k \in Packages :
                      Differs(releaseOf, u, k)' => \E row \in s.rows : row.peer = n /\ row.pkg = k
    <3>1. PICK u \in Urls :
            /\ Owns(u, n)
            /\ \A k \in Packages :
                 Differs(releaseOf, u, k) => \E row \in s.rows : row.peer = n /\ row.pkg = k
      BY <1>2 DEF CheckKnows
    <3>2. Owns(u, n)'
      BY <1>1, <3>1 DEF Owns
    <3>3. QED  BY <2>2, <3>1, <3>2, Zenon
  <2>4. /\ \A p \in s.todo : AsksFor(releaseOf, p.url, p.alias)'
        /\ \A m \in s.maps : m.map = remote'[m.peer.url][releaseOf[m.peer.url]]
        /\ \A row \in s.rows : row.status \in {"GOOD", "BAD"}
    BY <1>2, <2>1 DEF CheckKnows, AsksFor
  <2>5. QED  BY <2>3, <2>4, Zenon DEF CheckKnows
<1>3. CASE UNCHANGED task
  <2> TAKE t \in Tasks
  <2>1. PICK s : s = task[t] /\ s = task'[t]
    BY <1>3
  <2>2. CheckKnows(releaseOf, s)'
    BY <1>2, <2>1
  <2>3. QED  BY <2>1, <2>2
<1>4. ASSUME NEW t \in Tasks, NEW s, BecomeTask(t, s), CheckKnows(releaseOf, s)
      PROVE  \A v \in Tasks : CheckKnows(releaseOf, task[v])'
  <2>1. task'[t] = s /\ \A v \in Tasks \ {t} : task'[v] = task[v]
    BY <1>4 DEF BecomeTask
  <2> TAKE v \in Tasks
  <2>2. PICK new : new = task'[v] /\ CheckKnows(releaseOf, new)
    BY <1>4, <2>1
  <2>3. CheckKnows(releaseOf, new)'
    BY <1>2, <2>2
  <2>4. QED  BY <2>2, <2>3
<1>5. CheckKnows(releaseOf, IdleTask)
  BY DEF IdleTask, CheckKnows
<1>6. ASSUME NEW c \in Clients, NEW t \in Tasks, SpawnCheck(c, t)
      PROVE  \A v \in Tasks : CheckKnows(releaseOf, task[v])'
  <2> DEFINE s == [IdleTask EXCEPT !.pc = "spawned"]
  <2>1. CheckKnows(releaseOf, s)
    BY DEF IdleTask, CheckKnows
  <2>2. BecomeTask(t, s)
    BY <1>6 DEF SpawnCheck, BecomeTask
  <2> HIDE DEF s
  <2>3. QED  BY <1>4, <2>1, <2>2
<1>7. ASSUME NEW t \in Tasks, ReadPeers(t)
      PROVE  \A v \in Tasks : CheckKnows(releaseOf, task[v])'
  <2> DEFINE known == {[url |-> u, id |-> peers[u].id, alias |-> peers[u].alias]
                         : u \in {w \in Urls : peers[w] # None}}
             fetching == [IdleTask EXCEPT !.pc = "fetch", !.todo = known]
  <2>1. \A p \in known : AsksFor(releaseOf, p.url, p.alias)
    BY DEF PeersAsked, Registered
  <2>2. BecomeTask(t, IF known = {} THEN IdleTask ELSE fetching)
    BY <1>7 DEF ReadPeers
  <2> HIDE DEF known
  <2>3. CheckKnows(releaseOf, fetching)
    BY <2>1 DEF CheckKnows, IdleTask
  <2> HIDE DEF fetching
  <2>4. QED  BY <1>4, <1>5, <2>2, <2>3
<1>8. ASSUME NEW t \in Tasks, NEW p \in task[t].todo, FetchPeer(t, p)
      PROVE  \A v \in Tasks : CheckKnows(releaseOf, task[v])'
  <2>1. AsksFor(releaseOf, p.url, p.alias)
    BY DEF CheckKnows
  <2>2. Listings(p) = {remote[p.url][releaseOf[p.url]]}
    BY <2>1, PeersAssumption DEF Listings, AsksFor
  <2> DEFINE left == task[t].todo \ {p}
             maps == task[t].maps \cup {[peer |-> p, map |-> remote[p.url][releaseOf[p.url]]]}
             fetched == [task[t] EXCEPT !.todo = left, !.maps = maps]
  <2>3. BecomeTask(t, fetched)
    BY <1>8, <2>2 DEF FetchPeer
  <2>4. TaskState(task[t]) /\ CheckKnows(releaseOf, task[t])
    BY DEF TaskInStep
  <2>5. \A m \in maps : m.map = remote[m.peer.url][releaseOf[m.peer.url]]
    BY <2>4 DEF CheckKnows
  <2>6. /\ fetched.todo = left /\ fetched.maps = maps /\ fetched.rows = task[t].rows
        /\ fetched.compared = task[t].compared
    BY <2>4 DEF TaskState
  <2> HIDE DEF fetched, maps
  <2>7. CheckKnows(releaseOf, fetched)
    BY <2>4, <2>5, <2>6 DEF CheckKnows
  <2>8. QED  BY <1>4, <2>3, <2>7
<1>9. ASSUME NEW t \in Tasks, ComparePackages(t)
      PROVE  \A v \in Tasks : CheckKnows(releaseOf, task[v])'
  <2> DEFINE ids == {m.peer.id : m \in task[t].maps}
             found == UNION {{[peer |-> m.peer.id, url |-> m.peer.url, pkg |-> k,
                               status |-> m.map[k]]
                                : k \in {j \in Packages : Disagree(m.map[j], local[j])}}
                               : m \in task[t].maps}
             writing == [IdleTask EXCEPT !.pc = "write", !.compared = ids, !.rows = found]
  <2>0. CheckKnows(releaseOf, task[t]) /\ TaskInStep(task[t])
    OBVIOUS
  <2>1. BecomeTask(t, IF task[t].maps = {} THEN IdleTask ELSE writing)
    BY <1>9 DEF ComparePackages
  <2>2. \A row \in found : row.status \in {"GOOD", "BAD"}
    BY DEF Disagree
  <2>3. ASSUME NEW n \in ids
        PROVE  \E u \in Urls :
                 /\ Owns(u, n)
                 /\ \A k \in Packages :
                      Differs(releaseOf, u, k) => \E row \in found : row.peer = n /\ row.pkg = k
    <3>1. PICK m \in task[t].maps : n = m.peer.id
      OBVIOUS
    <3>2. /\ Owns(m.peer.url, n) /\ m.peer.url \in Urls
          /\ m.map = remote[m.peer.url][releaseOf[m.peer.url]]
      BY <2>0, <3>1 DEF CheckKnows, TaskInStep, Owns
    <3>3. ASSUME NEW k \in Packages, Differs(releaseOf, m.peer.url, k)
          PROVE  \E row \in found : row.peer = n /\ row.pkg = k
      <4> DEFINE row == [peer |-> m.peer.id, url |-> m.peer.url, pkg |-> k, status |-> m.map[k]]
      <4>1. k \in {j \in Packages : Disagree(m.map[j], local[j])}
        BY <3>2, <3>3 DEF Differs
      <4>2. row \in found
        BY <4>1
      <4>3. row.peer = n /\ row.pkg = k
        BY <3>1
      <4> HIDE DEF row, found
      <4>4. QED  BY <4>2, <4>3
    <3> HIDE DEF found
    <3>4. QED  BY <3>2, <3>3
  <2> HIDE DEF found, ids
  <2>4. CheckKnows(releaseOf, writing)
    <3>1. writing.todo = {} /\ writing.maps = {} /\ writing.rows = found /\ writing.compared = ids
      BY DEF IdleTask
    <3> HIDE DEF writing
    <3>2. QED  BY <2>2, <2>3, <3>1 DEF CheckKnows
  <2> HIDE DEF writing
  <2>5. QED  BY <1>4, <1>5, <2>1, <2>4
<1>10. ASSUME NEW t \in Tasks, ReplaceVerdicts(t) \/ RejectVerdicts(t)
       PROVE  \A v \in Tasks : CheckKnows(releaseOf, task[v])'
  BY <1>4, <1>5, <1>10 DEF ReplaceVerdicts, RejectVerdicts
<1>11. CASE Failure /\ UNCHANGED peerVars
  BY <1>3, <1>11 DEF peerVars
<1>12. QED
  BY <1>0, <1>3, <1>6, <1>7, <1>8, <1>9, <1>10, <1>11, Zenon
  DEF PeersNext, peerVars, ClientStep, CheckStep, Change, StartPlan, UpsertPeer,
      DeleteStalePeers, LocalChange, RemoteChange

(* A check that goes on leaves all others as they are.                     *)
LEMMA OthersGoOn ==
  ASSUME NEW CONSTANT releaseOf, PeersInv, NEW u \in Registered, NEW t \in Tasks, NEW s,
         BecomeTask(t, s), UNCHANGED <<peers, client>>, task[t].pc # "spawned",
         Flagged(releaseOf, u) => Flagged(releaseOf, u)',
         OnItsWay(t, u) => OnItsWay(t, u)' \/ Flagged(releaseOf, u)',
         Flagged(releaseOf, u) \/ Pending \/ \E v \in Tasks : OnItsWay(v, u)
  PROVE  Flagged(releaseOf, u)' \/ Pending' \/ \E v \in Tasks : OnItsWay(v, u)'
<1>1. \A v \in Tasks \ {t} : task'[v] = task[v]
  BY DEF BecomeTask, PeersInv, TasksInStep
<1>2. ASSUME NEW v \in Tasks \ {t}, OnItsWay(v, u) PROVE OnItsWay(v, u)'
  <2>1. task'[v] = task[v] /\ peers' = peers
    BY <1>1
  <2>2. QED  BY <1>2, <2>1 DEF OnItsWay, Current, ForeignKeysHold
<1>3. Pending => Pending'
  BY <1>1 DEF Pending
<1>4. QED  BY <1>2, <1>3

LEMMA FlagsStay ==
  ASSUME NEW CONSTANT releaseOf, PeersInv, PeersInv', FlagInv(releaseOf),
         [PeersNext]_peerVars, [Undisturbed]_peerVars, NEW u \in Registered'
  PROVE  Flagged(releaseOf, u)' \/ Pending' \/ \E t \in Tasks : OnItsWay(t, u)'
<1> DEFINE Goal == Flagged(releaseOf, u)' \/ Pending' \/ \E t \in Tasks : OnItsWay(t, u)'
<1>0. (UNCHANGED <<local, remote>> /\ ~Failure) \/ UNCHANGED peerVars
  BY DEF Undisturbed
<1>1. \A w, k : Differs(releaseOf, w, k)' = Differs(releaseOf, w, k)
  BY <1>0 DEF Differs, Disagree, peerVars
<1>2. u \in Urls /\ DOMAIN task = Tasks /\ DOMAIN client = Clients
  BY DEF Registered, PeersInv, TasksInStep, ClientsInStep
<1>3. ASSUME NEW c \in Clients, ClientStep(c) PROVE Pending'
  <2>1. client[c] \in ClientState
    BY DEF PeersInv, ClientsInStep
  <2>2. ASSUME NEW plan \in Plans, StartPlan(c, plan) PROVE client'[c].pc # "idle"
    BY <1>2, <2>2 DEF StartPlan, BecomeClient
  <2>3. ASSUME NEW w \in Urls, UpsertPeer(c, w) PROVE client'[c].pc # "idle"
    BY <1>2, <2>1, <2>3 DEF UpsertPeer, BecomeClient, ClientState
  <2>4. ASSUME DeleteStalePeers(c) PROVE client'[c].pc # "idle"
    BY <1>2, <2>1, <2>4 DEF DeleteStalePeers, BecomeClient, ClientState
  <2>5. ASSUME NEW t \in Tasks, SpawnCheck(c, t) PROVE task'[t].pc = "spawned"
    BY <1>2, <2>5 DEF SpawnCheck, IdleTask
  <2>6. QED  BY <1>3, <2>2, <2>3, <2>4, <2>5 DEF ClientStep, Pending
<1> DEFINE OtherStep == \/ UNCHANGED <<client, task>>
                        \/ \E t \in Tasks : ReadPeers(t) \/ ComparePackages(t) \/ RejectVerdicts(t)
                        \/ \E t \in Tasks : \E p \in task[t].todo : FetchPeer(t, p)
<1>4. ASSUME OtherStep, peers' = peers, verdicts' = verdicts PROVE Goal
  <2>1. u \in Registered /\ (Flagged(releaseOf, u) => Flagged(releaseOf, u)')
    BY <1>1, <1>4 DEF Registered, Flagged
  <2>2. Flagged(releaseOf, u) \/ Pending \/ \E t \in Tasks : OnItsWay(t, u)
    BY <2>1 DEF FlagInv
  <2>3. CASE UNCHANGED <<client, task>>
    BY <1>4, <2>1, <2>2, <2>3 DEF Pending, OnItsWay, Current, ForeignKeysHold
  <2>4. ASSUME NEW t \in Tasks, ReadPeers(t) PROVE Goal
    <3> DEFINE known == {[url |-> w, id |-> peers[w].id, alias |-> peers[w].alias]
                           : w \in {x \in Urls : peers[x] # None}}
               fetching == [IdleTask EXCEPT !.pc = "fetch", !.todo = known]
    <3>1. [url |-> u, id |-> peers[u].id, alias |-> peers[u].alias] \in known
      BY <2>1 DEF Registered
    <3>2. \A p \in known : Current(p)
      BY DEF Current
    <3>3. task' = [task EXCEPT ![t] = IF known = {} THEN IdleTask ELSE fetching]
      BY <2>4 DEF ReadPeers, BecomeTask
    <3>4. \E p \in known : p.url = u
      BY <3>1
    <3> HIDE DEF known
    <3>5. task'[t].pc = "fetch" /\ task'[t].todo = known /\ task'[t].maps = {}
      BY <1>2, <3>3, <3>4 DEF IdleTask
    <3>6. OnItsWay(t, u)'
      BY <1>4, <3>2, <3>4, <3>5 DEF OnItsWay, Current
    <3>7. QED  BY <3>6
  <2>5. ASSUME NEW t \in Tasks, NEW p \in task[t].todo, FetchPeer(t, p) PROVE Goal
    <3>1. PICK m \in Listings(p) :
            BecomeTask(t, [task[t] EXCEPT !.todo = @ \ {p}, !.maps = @ \cup {[peer |-> p, map |-> m]}])
      BY <2>5 DEF FetchPeer
    <3> DEFINE new == [peer |-> p, map |-> m]
               s == [task[t] EXCEPT !.todo = @ \ {p}, !.maps = @ \cup {new}]
    <3>2. BecomeTask(t, s) /\ UNCHANGED client /\ task[t].pc = "fetch"
      BY <2>5, <3>1 DEF FetchPeer
    <3>3. TaskState(task[t]) /\ task'[t] = s
      BY <1>2, <3>2 DEF BecomeTask, PeersInv, TasksInStep, TaskInStep
    <3>4. new.peer = p
      OBVIOUS
    <3>5. /\ task'[t].pc = "fetch" /\ task'[t].todo = task[t].todo \ {p}
          /\ task'[t].maps = task[t].maps \cup {new}
      BY <3>2, <3>3 DEF TaskState
    <3> HIDE DEF new, s
    <3>6. OnItsWay(t, u) => OnItsWay(t, u)'
      BY <1>4, <3>2, <3>4, <3>5 DEF OnItsWay, Current
    <3>7. QED  BY <1>4, <2>1, <2>2, <3>2, <3>6, OthersGoOn
  <2>6. ASSUME NEW t \in Tasks, ComparePackages(t) PROVE Goal
    <3> DEFINE ids == {m.peer.id : m \in task[t].maps}
               found == UNION {{[peer |-> m.peer.id, url |-> m.peer.url, pkg |-> k,
                                 status |-> m.map[k]]
                                  : k \in {j \in Packages : Disagree(m.map[j], local[j])}}
                                 : m \in task[t].maps}
               writing == [IdleTask EXCEPT !.pc = "write", !.compared = ids, !.rows = found]
               s == IF task[t].maps = {} THEN IdleTask ELSE writing
    <3>1. BecomeTask(t, s) /\ UNCHANGED client /\ task[t].pc = "fetch" /\ task[t].todo = {}
      BY <2>6 DEF ComparePackages
    <3>2. \A row \in found : \E m \in task[t].maps : row.peer = m.peer.id
      OBVIOUS
    <3>3. task'[t] = s
      BY <1>2, <3>1 DEF BecomeTask
    <3>4. ASSUME OnItsWay(t, u) PROVE OnItsWay(t, u)'
      <4>1. PICK m \in task[t].maps : m.peer.url = u
        BY <3>1, <3>4 DEF OnItsWay
      <4>2. \A n \in task[t].maps : n.peer.url \in Urls /\ peers[n.peer.url] # None
                                   /\ peers[n.peer.url].id = n.peer.id
        BY <3>1, <3>4 DEF OnItsWay, Current, PeersInv, TasksInStep, TaskInStep, Owns
      <4>3. peers[u].id \in ids
        BY <4>1, <4>2
      <4> HIDE DEF ids, found
      <4>4. task'[t].pc = "write" /\ task'[t].compared = ids /\ task'[t].rows = found
        BY <3>3, <4>1 DEF IdleTask
      <4>5. ForeignKeysHold(t)'
        BY <1>4, <3>2, <4>2, <4>4 DEF ForeignKeysHold
      <4>6. QED  BY <1>4, <4>3, <4>4, <4>5 DEF OnItsWay
    <3> HIDE DEF s
    <3>5. QED  BY <1>4, <2>1, <2>2, <3>1, <3>4, OthersGoOn
  <2>7. ASSUME NEW t \in Tasks, RejectVerdicts(t) PROVE Goal
    <3>1. BecomeTask(t, IdleTask) /\ UNCHANGED client /\ task[t].pc = "write" /\ ~OnItsWay(t, u)
      BY <2>7 DEF RejectVerdicts, OnItsWay
    <3>2. QED  BY <1>4, <2>1, <2>2, <3>1, OthersGoOn
  <2>8. QED
    BY <1>4, <2>3, <2>4, <2>5, <2>6, <2>7, Zenon
<1>5. ASSUME NEW t \in Tasks, ReplaceVerdicts(t) PROVE Goal
  <2>1. u \in Registered /\ peers[u] # None
    BY <1>5 DEF ReplaceVerdicts, Registered
  <2>2. Flagged(releaseOf, u) \/ Pending \/ \E v \in Tasks : OnItsWay(v, u)
    BY <2>1 DEF FlagInv
  <2>3. /\ BecomeTask(t, IdleTask) /\ UNCHANGED <<peers, client>> /\ task[t].pc = "write"
        /\ verdicts' = {v \in verdicts : v.peer \notin task[t].compared} \cup task[t].rows
    BY <1>5 DEF ReplaceVerdicts
  <2>4. CASE peers[u].id \in task[t].compared
    <3>1. PICK w \in Urls :
            /\ Owns(w, peers[u].id)
            /\ \A k \in Packages : Differs(releaseOf, w, k) =>
                 \E row \in task[t].rows : row.peer = peers[u].id /\ row.pkg = k
      BY <2>4 DEF FlagInv, CheckKnows
    <3>2. w = u
      BY <1>2, <2>1, <3>1 DEF Owns
    <3>3. \A k \in Packages : Differs(releaseOf, u, k) =>
            \E v \in verdicts' : v.peer = peers'[u].id /\ v.pkg = k
      BY <2>3, <3>1, <3>2
    <3>4. Flagged(releaseOf, u)'
      BY <1>1, <3>3 DEF Flagged
    <3>5. QED  BY <3>4
  <2>5. CASE peers[u].id \notin task[t].compared
    <3>1. Flagged(releaseOf, u) => Flagged(releaseOf, u)'
      BY <1>1, <2>3, <2>5 DEF Flagged
    <3>2. ~OnItsWay(t, u)
      BY <2>3, <2>5 DEF OnItsWay
    <3>3. QED  BY <2>1, <2>2, <2>3, <3>1, <3>2, OthersGoOn
  <2>6. QED  BY <2>4, <2>5
<1>6. CASE UNCHANGED peerVars
  BY <1>4, <1>6 DEF peerVars
<1>7. ASSUME ~Failure, PeersNext PROVE Goal
  <2>1. CASE \E c \in Clients : ClientStep(c)
    BY <1>3, <2>1
  <2>2. ASSUME NEW t \in Tasks, CheckStep(t) PROVE Goal
    <3>1. ReplaceVerdicts(t) \/ (OtherStep /\ peers' = peers /\ verdicts' = verdicts)
      BY <2>2, Zenon DEF CheckStep, ReadPeers, FetchPeer, ComparePackages, RejectVerdicts
    <3>2. QED  BY <1>4, <1>5, <3>1
  <2>3. CASE Change
    BY <1>4, <2>3 DEF Change, LocalChange, RemoteChange
  <2>4. QED  BY <1>7, <2>1, <2>2, <2>3 DEF PeersNext
<1>8. QED  BY <1>0, <1>6, <1>7

LEMMA FlagInvIsPreserved ==
  ASSUME NEW CONSTANT releaseOf, OneReleaseEach(releaseOf), PeersInv, PeersInv',
         FlagInv(releaseOf), [PeersNext]_peerVars, [Undisturbed]_peerVars
  PROVE  FlagInv(releaseOf)'
<1>1. ClientsAsk(releaseOf)' /\ PeersAsked(releaseOf)'
  BY ClientsAskOneRelease, PeersAreAsked DEF FlagInv
<1>2. \A t \in Tasks : CheckKnows(releaseOf, task[t])'
  BY ChecksKnow DEF FlagInv
<1>3. ASSUME NEW v \in verdicts' PROVE v.status \in {"GOOD", "BAD"}
  <2>1. CASE v \in verdicts
    BY <2>1 DEF FlagInv
  <2>2. ASSUME NEW t \in Tasks, ReplaceVerdicts(t), v \notin verdicts PROVE v.status \in {"GOOD", "BAD"}
    BY <2>2 DEF ReplaceVerdicts, FlagInv, CheckKnows
  <2>3. v \in verdicts \/ \E t \in Tasks : ReplaceVerdicts(t)
    BY DEF PeersNext, peerVars, ClientStep, CheckStep, Failure, Change, StartPlan, UpsertPeer,
           DeleteStalePeers, SpawnCheck, AbandonPlan, ReadPeers, FetchPeer, FetchFails,
           ComparePackages, RejectVerdicts, AbandonCheck, LocalChange, RemoteChange
  <2>4. QED  BY <2>1, <2>2, <2>3
<1>4. \A u \in Registered' :
        Flagged(releaseOf, u)' \/ Pending' \/ \E t \in Tasks : OnItsWay(t, u)'
  BY FlagsStay
<1>5. QED  BY <1>1, <1>2, <1>3, <1>4 DEF FlagInv

(* "Packages whose status disagrees with any peer are flagged": when       *)
(* rebuildctl has asked for the checks and all of them have ended, however *)
(* they ran into each other, and peers came and went meanwhile.            *)
THEOREM DisagreementsAreShown ==
  ASSUME NEW CONSTANT releaseOf, OneReleaseEach(releaseOf)
  PROVE  PeersSpec /\ [][Undisturbed]_peerVars => []DisagreementsAreFlagged
<1>1. PeersInit => FlagInv(releaseOf)
  BY DEF PeersInit, FlagInv, ClientsAsk, PeersAsked, CheckKnows, Registered, IdleClient, IdleTask
<1>2. /\ PeersInv /\ PeersInv' /\ FlagInv(releaseOf)
      /\ [PeersNext]_peerVars /\ [Undisturbed]_peerVars
      => FlagInv(releaseOf)'
  BY FlagInvIsPreserved
<1>3. ASSUME PeersInv, FlagInv(releaseOf), AllChecked, NEW u \in Registered, NEW k \in Packages,
             NEW plan \in Plans, NEW n \in DOMAIN plan, u \in plan[n].urls,
             Disagree(remote[u][plan[n].alias][k], local[k])
      PROVE  HasDisagreement(k)
  <2>1. Differs(releaseOf, u, k)
    BY <1>3 DEF OneReleaseEach, Differs
  <2>2. Flagged(releaseOf, u)
    BY <1>3 DEF AllChecked, FlagInv, Pending, OnItsWay
  <2>3. \E v \in verdicts : v.peer = peers[u].id /\ v.pkg = k
    BY <2>1, <2>2 DEF Flagged
  <2> DEFINE shown == CHOOSE v \in verdicts : v.peer = peers[u].id /\ v.pkg = k
  <2>4. shown \in verdicts
    BY <2>3
  <2>5. u \in Urls /\ peers[u] # None
    BY DEF Registered
  <2>6. CachedStatus(u, k) = shown.status
    BY <2>3, <2>5 DEF CachedStatus
  <2> HIDE DEF shown
  <2>7. CachedStatus(u, k) # None
    BY <1>3, <2>4, <2>6, PeersAssumption DEF FlagInv
  <2>8. QED  BY <2>5, <2>7 DEF HasDisagreement
<1>4. PeersInv /\ FlagInv(releaseOf) => DisagreementsAreFlagged
  BY <1>3 DEF DisagreementsAreFlagged
<1>5. QED  BY <1>1, <1>2, <1>4, PeersInvHolds, PTL DEF PeersSpec
=============================================================================
