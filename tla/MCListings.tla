----------------------------- MODULE MCListings -----------------------------
(***************************************************************************)
(* Lists of at most four rows, two of the same name or priority, in pages  *)
(* of two.                                                                 *)
(***************************************************************************)
EXTENDS ListingsProperties

AnyOrigin == [field \in OriginFields |-> None]
Origin(release) ==
  [distribution |-> "debian", release |-> release, component |-> None, architecture |-> "amd64"]

AllPackages ==
  [table |-> "binary", origin |-> AnyOrigin, names |-> None, seen |-> TRUE, statuses |-> {},
   started |-> FALSE, sort |-> "name", cursor |-> "after", direction |-> "asc", head |-> 100,
   status |-> None, due |-> FALSE, untilShort |-> FALSE]

AllJobs == [AllPackages EXCEPT !.table = "queue", !.sort = "priority", !.due = TRUE]

MCQueries ==
  {[AllPackages EXCEPT !.origin.release = ""],
   [AllPackages EXCEPT !.status = "BAD"],
   [AllPackages EXCEPT !.statuses = {"FAIL", "UNKWN"}, !.cursor = "before", !.direction = "desc"],
   [AllPackages EXCEPT !.sort = None, !.untilShort = TRUE],
   AllJobs,
   [AllJobs EXCEPT !.head = 1, !.names = {1}],
   [AllJobs EXCEPT !.started = TRUE, !.due = FALSE]}

Row(name, priority, due) ==
  [name |-> name, origin |-> Origin(None), seen |-> TRUE, rebuild |-> "BAD", artifact |-> "BAD",
   priority |-> priority, due |-> due, started |-> TRUE]

MCFirstRows ==
  {<<Row(1, 1, TRUE), Row(1, 1, TRUE), Row(1, 1, TRUE)>>,
   <<Row(2, 1, FALSE), Row(1, 1, TRUE)>>}

MCNewRows == {Row(1, 1, FALSE),
              [Row(2, 2, FALSE) EXCEPT !.origin.release = "sid", !.started = FALSE, !.artifact = None]}
=============================================================================
