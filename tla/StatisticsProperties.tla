------------------------ MODULE StatisticsProperties ------------------------
(***************************************************************************)
(* What the counts promise, although each one is read at another time.     *)
(***************************************************************************)
EXTENDS Statistics

(* A job that does not change while the dashboard is computed is counted   *)
(* once, in its class, also when its retry comes due meanwhile; and only   *)
(* jobs that did change can be counted besides.                            *)
Steady(class) == Cardinality(class \cap dashboard.steady)
Changed == Cardinality(Inputs \ dashboard.steady)

DashboardCountsSteady ==
  dashboard.pc = "done" =>
    /\ dashboard.running - Steady(Running) \in 0 .. Changed
    /\ dashboard.available - Steady(Available(dashboard.now)) \in 0 .. Changed
    /\ dashboard.pending - Steady(Pending(dashboard.now)) \in 0 .. Changed

(* The breakdown of a snapshot adds up to what its counts say: one for     *)
(* each failed build and one for each bad artifact of a bad build, though  *)
(* the counts take the build of the latest time and the breakdown the one  *)
(* of the highest id.  Only what no category takes is missing.  That needs *)
(* that nothing was changed, or reported out of order, meanwhile.          *)
InOrder(i) ==
  \A j, k \in DOMAIN builds[i] : j < k => builds[i][j].built <= builds[i][k].built

Uncategorized ==
  LET categories == CategoriesFor(collection.combo.distribution)
  IN {item \in collection.bad \cup collection.fails :
        \A k \in DOMAIN categories :
          ~Accepts(categories[k], collection.combo.architecture, item[3])}

CategoriesMatchCounts ==
  /\ collection.pc = "insert"
  /\ ~collection.changed
  /\ \A i \in InSnapshot(collection.combo) : InOrder(i)
  => LET latest == {LatestBuild(i) : i \in InSnapshot(collection.combo)}
         known == MapThenSumSet(LAMBDA b : Cardinality(b.bad), latest)
                  + collection.counts["FAIL"]
     IN FoldSeq(LAMBDA a, b : a + b, 0, Categorized) + Cardinality(Uncategorized) = known
=============================================================================
