----------------------------- MODULE Statistics -----------------------------
(***************************************************************************)
(* GET /dashboard and POST /stats: counts of builds and jobs, read by one  *)
(* statement after the other while builds end, jobs are handed out and     *)
(* packages come and go.                                                   *)
(***************************************************************************)
EXTENDS Options, Integers, FiniteSets, Sequences, SequencesExt, FiniteSetsExt

CONSTANTS
  Inputs,      \* build inputs
  OriginOf,    \* [Inputs -> what a snapshot may be filtered by]
  Backends,    \* the distributions of the statistics configuration
  Specific,    \* [Backends -> their error categories]
  Universal,   \* the categories of "all"
  Kinds,       \* what the logs of a build may show
  MaxClock,    \* bound: the clock
  MaxBuilds    \* bound: builds ever reported

Origins == [distribution : Backends, release : STRING \cup {None}, architecture : STRING]

(* The matcher of a category accepts some kinds of logs, and none of some  *)
(* architectures.                                                          *)
Categories == [kinds : SUBSET STRING, excluded : SUBSET STRING]

ASSUME StatisticsAssumption ==
  /\ IsFiniteSet(Inputs)
  /\ OriginOf \in [Inputs -> Origins]
  /\ Specific \in [Backends -> Seq(Categories)]
  /\ Universal \in Seq(Categories)
  /\ None \notin {"GOOD", "BAD", "FAIL"}
  /\ MaxClock \in Nat
  /\ MaxBuilds \in Nat

VARIABLES
  builds,      \* the rows of table rebuilds of each input, in the order of their ids
  listed,      \* the inputs whose source package was seen in the last sync
  jobs,        \* the job of each input, if any, with the input's next_retry
  clock,
  dashboard,   \* get_dashboard
  collection,  \* collect_stats
  snapshots    \* table stats, with stats_categories

statVars == <<builds, listed, jobs, clock, dashboard, collection, snapshots>>
tables   == <<builds, listed, jobs, clock>>

IdleDashboard == [pc |-> "idle", sums |-> <<>>, now |-> 0, running |-> 0, available |-> 0,
                  pending |-> 0, steady |-> {}]

IdleCollection == [pc |-> "idle", todo |-> {}, combo |-> None, counts |-> <<>>, latest |-> {},
                   bad |-> {}, fails |-> {}, changed |-> FALSE]

StatisticsInit ==
  /\ builds = [i \in Inputs |-> <<>>]
  /\ listed = Inputs
  /\ jobs \in [Inputs -> [held : {FALSE}, retry : {None}]]
  /\ clock = 0
  /\ dashboard = IdleDashboard
  /\ collection = IdleCollection
  /\ snapshots = {}

-----------------------------------------------------------------------------
(* The selects *)

NoBuild == [id |-> 0, built |-> 0, status |-> None, kind |-> None, bad |-> {}]

(* r1 and r2: no other build of the input is later, or as late and newer.  *)
LatestBuild(i) ==
  IF builds[i] = <<>> THEN NoBuild
  ELSE CHOOSE b \in ToSet(builds[i]) : \A c \in ToSet(builds[i]) :
         \/ c.built < b.built
         \/ c.built = b.built /\ c.id <= b.id

StatusCounts(inputs) ==
  [status \in {"GOOD", "BAD", "FAIL", None} |->
     Cardinality({i \in inputs : LatestBuild(i).status = status})]

QueuedInputs == {i \in listed : jobs[i] # None}

Held(i) == jobs[i] # None /\ jobs[i].held

Running == {i \in QueuedInputs : Held(i)}

Available(now) ==
  {i \in QueuedInputs : ~jobs[i].held /\ (jobs[i].retry = None \/ jobs[i].retry <= now)}

Pending(now) ==
  {i \in QueuedInputs : ~jobs[i].held /\ jobs[i].retry # None /\ jobs[i].retry > now}

-----------------------------------------------------------------------------
(* get_dashboard.  steady keeps, for the properties, the inputs that did   *)
(* not change since the first count of jobs.                               *)
ReadSums ==
  /\ dashboard.pc = "idle"
  /\ dashboard' = [IdleDashboard EXCEPT
       !.pc = "running", !.sums = StatusCounts(listed), !.now = clock, !.steady = Inputs]
  /\ UNCHANGED <<tables, collection, snapshots>>

CountRunning ==
  /\ dashboard.pc = "running"
  /\ dashboard' = [dashboard EXCEPT !.pc = "available", !.running = Cardinality(Running)]
  /\ UNCHANGED <<tables, collection, snapshots>>

CountAvailable ==
  /\ dashboard.pc = "available"
  /\ dashboard' = [dashboard EXCEPT
       !.pc = "pending", !.available = Cardinality(Available(dashboard.now))]
  /\ UNCHANGED <<tables, collection, snapshots>>

(* Fault: each count takes the time of its own statement.                  *)
CountPendingNow ==
  /\ dashboard.pc = "pending"
  /\ dashboard' = [dashboard EXCEPT !.pc = "done", !.pending = Cardinality(Pending(clock))]
  /\ UNCHANGED <<tables, collection, snapshots>>

(* The time is that of the request, not of the statement.                  *)
CountPending ==
  /\ dashboard.pc = "pending"
  /\ dashboard' = [dashboard EXCEPT
       !.pc = "done", !.pending = Cardinality(Pending(dashboard.now))]
  /\ UNCHANGED <<tables, collection, snapshots>>

-----------------------------------------------------------------------------
(* collect_stats *)

(* A snapshot without a release is not filtered by release.                *)
InCombo(i, combo) ==
  LET o == OriginOf[i]
  IN /\ o.distribution = combo.distribution
     /\ o.architecture = combo.architecture
     /\ combo.release \in {o.release, None}

InSnapshot(combo) == {i \in listed : InCombo(i, combo)}

(* query_combos_for_backend, for each backend. *)
StartCollection ==
  /\ collection.pc = "idle"
  /\ collection' = [IdleCollection EXCEPT
       !.pc = "counts", !.todo = {OriginOf[i] : i \in {j \in listed :
                                                OriginOf[j].distribution \in Backends}}]
  /\ UNCHANGED <<tables, dashboard, snapshots>>

ReadCounts(combo) ==
  /\ collection.pc = "counts"
  /\ combo \in collection.todo
  /\ collection' = [collection EXCEPT
       !.pc = "latest", !.todo = @ \ {combo}, !.combo = combo,
       !.counts = StatusCounts(InSnapshot(combo)), !.changed = FALSE]
  /\ UNCHANGED <<tables, dashboard, snapshots>>

(* The newest build here is the one of the highest id.                     *)
ReadLatest ==
  /\ collection.pc = "latest"
  /\ collection' = [collection EXCEPT
       !.pc = "bad",
       !.latest = {Last(builds[i]).id : i \in {j \in InSnapshot(collection.combo) :
                                                builds[j] # <<>>}}]
  /\ UNCHANGED <<tables, dashboard, snapshots>>

AllBuilds == UNION {ToSet(builds[i]) : i \in Inputs}

ReadBadArtifacts ==
  /\ collection.pc = "bad"
  /\ collection' = [collection EXCEPT
       !.pc = "fails",
       !.bad = UNION {b.bad : b \in {c \in AllBuilds : c.id \in collection.latest}}]
  /\ UNCHANGED <<tables, dashboard, snapshots>>

ReadFails ==
  /\ collection.pc = "fails"
  /\ collection' = [collection EXCEPT
       !.pc = "insert",
       !.fails = {<<b.id, 0, b.kind>> : b \in {c \in AllBuilds :
                    c.id \in collection.latest /\ c.status = "FAIL"}}]
  /\ UNCHANGED <<tables, dashboard, snapshots>>

CategoriesFor(backend) == Specific[backend] \o Universal

Accepts(category, arch, kind) == kind \in category.kinds /\ arch \notin category.excluded

(* Fault: an item counts for every category that accepts it.               *)
CategoryInAnyPlace(categories, arch, kind, k) == Accepts(categories[k], arch, kind)

(* Each item counts for the first category that accepts it.                *)
IsCategory(categories, arch, kind, k) ==
  /\ Accepts(categories[k], arch, kind)
  /\ \A j \in 1 .. k - 1 : ~Accepts(categories[j], arch, kind)

Categorized ==
  LET categories == CategoriesFor(collection.combo.distribution)
      arch == collection.combo.architecture
  IN [k \in DOMAIN categories |->
        Cardinality({item \in collection.bad \cup collection.fails :
                       IsCategory(categories, arch, item[3], k)})]

InsertSnapshot ==
  /\ collection.pc = "insert"
  /\ snapshots' = snapshots \cup
       {[combo |-> collection.combo, counts |-> collection.counts, categories |-> Categorized]}
  /\ collection' = [collection EXCEPT !.pc = IF collection.todo = {} THEN "done" ELSE "counts"]
  /\ UNCHANGED <<tables, dashboard>>

-----------------------------------------------------------------------------
(* Meanwhile.  Ghosts: dashboard.steady, and collection.changed, which is  *)
(* about the snapshot that is being read.                                  *)
Touch(i) ==
  /\ dashboard' = [dashboard EXCEPT !.steady = @ \ {i}]
  /\ collection' = [collection EXCEPT
       !.changed = @ \/ collection.pc \in {"latest", "bad", "fails", "insert"}]
  /\ UNCHANGED snapshots

BuildCount == Cardinality(AllBuilds)

(* A report: built_at is taken before the row is inserted.  Its statements *)
(* are one step: every count of the input after the first of them is of a  *)
(* changed input.                                                          *)
EndBuild(i, status, built, kind, bad) ==
  /\ Held(i)
  /\ BuildCount < MaxBuilds
  /\ built \in clock - 1 .. clock
  /\ bad # {} <=> status = "BAD"
  /\ LET id == BuildCount + 1
     IN builds' = [builds EXCEPT ![i] = Append(@,
          [id |-> id, built |-> built, status |-> status, kind |-> kind,
           bad |-> {<<id, b[1], b[2]>> : b \in bad}])]
  /\ jobs' = [jobs EXCEPT ![i] = IF status = "GOOD" THEN None
                                 ELSE [held |-> FALSE, retry |-> clock + 1]]
  /\ Touch(i)
  /\ UNCHANGED <<listed, clock>>

(* The row of the highest id, and its artifacts, lose their statuses.      *)
ResetLast(inputBuilds) ==
  [inputBuilds EXCEPT ![Len(inputBuilds)] = [@ EXCEPT !.status = None, !.bad = {}]]

(* A rebuild is asked for: the job is due, and stays with its holder.      *)
AskForRebuild(i, reset) ==
  /\ builds' = [builds EXCEPT ![i] = IF reset THEN ResetLast(@) ELSE @]
  /\ jobs' = [jobs EXCEPT ![i] = [held |-> Held(i), retry |-> None]]
  /\ Touch(i)
  /\ UNCHANGED <<listed, clock>>

(* A job is handed out, or given back. *)
HandOut(i) ==
  /\ i \in Running \cup Available(clock)
  /\ jobs' = [jobs EXCEPT ![i].held = ~@]
  /\ Touch(i)
  /\ UNCHANGED <<builds, listed, clock>>

SyncInput(i) ==
  /\ listed' = IF i \in listed THEN listed \ {i} ELSE listed \cup {i}
  /\ Touch(i)
  /\ UNCHANGED <<builds, jobs, clock>>

Pass ==
  /\ clock < MaxClock
  /\ clock' = clock + 1
  /\ UNCHANGED <<builds, listed, jobs, dashboard, collection, snapshots>>

DashboardStep == ReadSums \/ CountRunning \/ CountAvailable \/ CountPending

CollectionStep ==
  \/ StartCollection
  \/ \E combo \in collection.todo : ReadCounts(combo)
  \/ ReadLatest
  \/ ReadBadArtifacts
  \/ ReadFails
  \/ InsertSnapshot

StatisticsChange(inputs, badSets) ==
  \/ \E i \in inputs :
       \/ \E status \in {"GOOD", "BAD", "FAIL"}, built \in 0 .. MaxClock, kind \in Kinds,
             bad \in badSets : EndBuild(i, status, built, kind, bad)
       \/ \E reset \in BOOLEAN : AskForRebuild(i, reset)
       \/ HandOut(i)
       \/ SyncInput(i)
  \/ Pass

StatisticsNext(badSets) ==
  DashboardStep \/ CollectionStep \/ StatisticsChange(Inputs, badSets)

StatisticsSpec(badSets) == StatisticsInit /\ [][StatisticsNext(badSets)]_statVars
=============================================================================
