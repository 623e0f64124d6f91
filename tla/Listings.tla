------------------------------ MODULE Listings ------------------------------
(***************************************************************************)
(* The lists of packages and of jobs: what the daemon's handlers select,   *)
(* how util/pagination.rs cuts it into pages, and the loops of rebuildctl  *)
(* and of the peer check that ask for one page after the other while the   *)
(* table changes.                                                          *)
(***************************************************************************)
EXTENDS Options, Integers, FiniteSets, Sequences, SequencesExt, TLC

CONSTANTS
  Queries,    \* what is asked for
  FirstRows,  \* tables to start from: sequences of rows
  NewRows,    \* rows that may be added
  PageSize,   \* 1000
  MaxRowId,   \* bound: rows ever inserted
  MaxChanges  \* bound: changes of the table during a listing

OriginFields == {"distribution", "release", "component", "architecture"}
Outcomes == {"GOOD", "BAD", "FAIL"}

(* Names, and priorities, are numbers in their order.  A row has the       *)
(* columns of both tables, and a query reads those of its own.  A build    *)
(* that failed has no artifacts.                                           *)
TableRows ==
  {row \in [name : Nat, origin : [OriginFields -> STRING \cup {None}], seen : BOOLEAN,
            rebuild : Outcomes \cup {None}, artifact : {"GOOD", "BAD", None},
            priority : Nat, due : BOOLEAN, started : BOOLEAN] :
     row.artifact # None => row.rebuild # "FAIL"}

(* A reader goes through the list in its order. *)
ASSUME ListingsAssumption ==
  /\ PageSize \in Nat \ {0}
  /\ MaxRowId \in Nat
  /\ MaxChanges \in Nat
  /\ \A q \in Queries :
       /\ q.table \in {"binary", "queue"}
       /\ q.sort \in {"name", "priority", None}
       /\ <<q.cursor, q.direction>> \in {<<"after", "asc">>, <<"before", "desc">>}
       /\ q.head \in Nat
  /\ FirstRows \subseteq Seq(TableRows)
  /\ NewRows \subseteq TableRows
  /\ None \notin Nat \cup {"name", "priority", "GOOD", "BAD", "FAIL", "UNKWN"}

VARIABLES
  query,    \* the query of the client
  rows,     \* table binary_packages or queue: a row or None for each id
  nextId,
  listing   \* the client

listingVars == <<query, rows, nextId, listing>>

RowIds == 1 .. MaxRowId

-----------------------------------------------------------------------------
(* The filters *)

(* The empty string, and "null" as a component, ask for a missing value.   *)
Nulls(field) ==
  CASE field = "release" -> {""}
    [] field = "component" -> {"", "null"}
    [] OTHER -> {}

OriginMatches(q, row) ==
  \A field \in OriginFields :
    \/ q.origin[field] = None
    \/ row.origin[field] = IF q.origin[field] \in Nulls(field) THEN None ELSE q.origin[field]

(* The names that the pattern of the query matches. *)
IdentityMatches(q, row) == q.names = None \/ row.name \in q.names

(* Fault: a package without an artifact is of unknown status.              *)
StatusMatchesByArtifact(statuses, row) ==
  \/ statuses = {}
  \/ (IF row.artifact = None THEN "UNKWN" ELSE row.artifact) \in statuses
  \/ "FAIL" \in statuses /\ row.rebuild = "FAIL"

(* FAIL and UNKWN are statuses of the build, the others of the artifact.   *)
StatusMatches(statuses, row) ==
  \/ statuses = {}
  \/ "UNKWN" \in statuses /\ row.rebuild = None
  \/ "FAIL" \in statuses /\ row.rebuild = "FAIL"
  \/ row.artifact # None /\ row.artifact \in statuses \ {"UNKWN", "FAIL"}

(* The status shown is that of the build if there is none of the artifact. *)
ShownStatus(row) ==
  IF row.artifact # None THEN row.artifact
  ELSE IF row.rebuild # None THEN row.rebuild ELSE "UNKWN"

BinaryMatches(q, row) == row.seen = q.seen /\ StatusMatches(q.statuses, row)

QueueMatches(q, row) == q.started => row.started

Selected(q, row) ==
  /\ row # None
  /\ OriginMatches(q, row)
  /\ IdentityMatches(q, row)
  /\ IF q.table = "binary" THEN BinaryMatches(q, row) ELSE QueueMatches(q, row)

-----------------------------------------------------------------------------
(* Pages *)

Base(q) == {i \in RowIds : Selected(q, rows[i])}

Key(q, i) == IF q.sort = "priority" THEN rows[i].priority
             ELSE IF q.sort = "name" THEN rows[i].name ELSE 0

Less(q, i, j) ==
  \/ Key(q, i) < Key(q, j)
  \/ Key(q, i) = Key(q, j) /\ i < j

(* A comparison with the row of the cursor holds for no row once that one  *)
(* is not selected any more.  Without a sort field only the ids count.     *)
Comparable(q, cursor) == q.sort = None \/ cursor \in Base(q)

(* Fault: rows of one name or priority are not told apart.                 *)
BeyondById(q, cursor, i) ==
  \/ cursor = None
  \/ /\ Comparable(q, cursor)
     /\ IF q.cursor = "after" THEN Key(q, cursor) < Key(q, i) ELSE Key(q, i) < Key(q, cursor)

(* Fault: a page begins with the last row of the one before.               *)
BeyondOrAt(q, cursor, i) ==
  \/ cursor = None
  \/ /\ Comparable(q, cursor)
     /\ IF q.cursor = "after" THEN ~Less(q, i, cursor) ELSE ~Less(q, cursor, i)

Beyond(q, cursor, i) ==
  \/ cursor = None
  \/ /\ Comparable(q, cursor)
     /\ IF q.cursor = "after" THEN Less(q, cursor, i) ELSE Less(q, i, cursor)

Take(s, n) == SubSeq(s, 1, IF Len(s) < n THEN Len(s) ELSE n)

(* Which one is row i in the order of the query? *)
Rank(q, ids, i) ==
  Cardinality({j \in ids : IF q.direction = "asc" THEN Less(q, j, i) ELSE Less(q, i, j)}) + 1

Sorted(q, ids) ==
  [k \in 1 .. Cardinality(ids) |-> CHOOSE i \in ids : Rank(q, ids, i) = k]

Page(q, cursor) ==
  CHOOSE page \in {Take(Sorted(q, ids), PageSize)
                     : ids \in {{i \in Base(q) : Beyond(q, cursor, i)}}} : TRUE

-----------------------------------------------------------------------------
(* The client *)

(* rebuildctl keeps the packages of one status, and the jobs that are due. *)
Keeps(q, row) ==
  /\ q.status # None => ShownStatus(row) = q.status
  /\ q.due => row.due

NewListing == [pc |-> "ask", cursor |-> None, shown |-> <<>>, left |-> query.head,
               steady |-> {i \in Base(query) : Keeps(query, rows[i])},
               key |-> None, lost |-> FALSE, changes |-> 0]

(* pkgs ls and queue ls end with an empty page, the peer check with a      *)
(* short one, and queue ls --head with enough jobs.                        *)
RequestPage ==
  /\ listing.pc = "ask"
  /\ UNCHANGED <<query, rows, nextId>>
  /\ \E page \in {Page(query, listing.cursor)} :
     \E kept \in {Take(Sorted(query, {i \in ToSet(page) : Keeps(query, rows[i])}), listing.left)} :
       LET ends == \/ page = <<>>
                   \/ query.untilShort /\ Len(page) < PageSize
                   \/ listing.left = Len(kept)
           lost == /\ listing.cursor # None
                   /\ query.sort # None
                   /\ \/ listing.cursor \notin Base(query)
                      \/ Key(query, listing.cursor) # listing.key
       IN listing' = [listing EXCEPT
            !.shown = @ \o kept,
            !.left = @ - Len(kept),
            !.pc = IF ends THEN "done" ELSE @,
            !.cursor = IF ends THEN None ELSE Last(page),
            !.key = IF ends THEN None ELSE Key(query, Last(page)),
            !.lost = @ \/ lost]

ListingsInit ==
  /\ query \in Queries
  /\ \E first \in FirstRows :
       /\ rows = [i \in RowIds |-> IF i \in DOMAIN first THEN first[i] ELSE None]
       /\ nextId = Len(first) + 1
  /\ listing = NewListing

-----------------------------------------------------------------------------
(* What happens meanwhile.  listing.steady keeps, for the properties, the  *)
(* rows that were to be shown all the time, at one place in the order.     *)
Unmoved(old, new) ==
  old # None /\ new # None /\ old.name = new.name /\ old.priority = new.priority

Change(i, row) ==
  /\ listing.pc = "ask"
  /\ listing.changes < MaxChanges
  /\ row # rows[i]
  /\ rows' = [rows EXCEPT ![i] = row]
  /\ listing' = [listing EXCEPT
       !.changes = @ + 1,
       !.steady = IF Unmoved(rows[i], row) /\ Selected(query, row) /\ Keeps(query, row)
                  THEN @ ELSE @ \ {i}]
  /\ UNCHANGED query

InsertRow(row) ==
  /\ nextId <= MaxRowId
  /\ Change(nextId, row)
  /\ nextId' = nextId + 1

(* A sync finds a package again, or no longer. *)
SyncPackage(i) ==
  /\ query.table = "binary"
  /\ rows[i] # None
  /\ Change(i, [rows[i] EXCEPT !.seen = ~@])
  /\ UNCHANGED nextId

(* A build is reported.  If it did not fail, the artifact is inserted by a *)
(* statement of its own; of a bad build one artifact is bad.               *)
ReportBuild(i, rebuild) ==
  /\ query.table = "binary"
  /\ rows[i] # None
  /\ Change(i, [rows[i] EXCEPT !.rebuild = rebuild, !.artifact = None])
  /\ UNCHANGED nextId

ReportArtifact(i, artifact) ==
  /\ query.table = "binary"
  /\ rows[i] # None
  /\ rows[i].rebuild \in {"GOOD", "BAD"}
  /\ rows[i].artifact = None
  /\ rows[i].rebuild = "GOOD" => artifact = "GOOD"
  /\ Change(i, [rows[i] EXCEPT !.artifact = artifact])
  /\ UNCHANGED nextId

(* A reset clears the status of the build, and then that of its artifacts. *)
ResetBuild(i) ==
  /\ query.table = "binary"
  /\ rows[i] # None
  /\ Change(i, [rows[i] EXCEPT !.rebuild = None])
  /\ UNCHANGED nextId

ResetArtifact(i) ==
  /\ query.table = "binary"
  /\ rows[i] # None
  /\ rows[i].rebuild = None
  /\ Change(i, [rows[i] EXCEPT !.artifact = None])
  /\ UNCHANGED nextId

(* A job is asked for again, handed out or given back, or comes due, and   *)
(* it goes.                                                                *)
ChangePriority(i, priority) ==
  /\ query.table = "queue"
  /\ rows[i] # None
  /\ Change(i, [rows[i] EXCEPT !.priority = priority])
  /\ UNCHANGED nextId

StartJob(i) ==
  /\ query.table = "queue"
  /\ rows[i] # None
  /\ Change(i, [rows[i] EXCEPT !.started = TRUE])
  /\ UNCHANGED nextId

ReleaseJob(i) ==
  /\ query.table = "queue"
  /\ rows[i] # None
  /\ Change(i, [rows[i] EXCEPT !.started = FALSE])
  /\ UNCHANGED nextId

ComeDue(i) ==
  /\ query.table = "queue"
  /\ rows[i] # None
  /\ Change(i, [rows[i] EXCEPT !.due = TRUE])
  /\ UNCHANGED nextId

DropJob(i) ==
  /\ query.table = "queue"
  /\ rows[i] # None
  /\ Change(i, None)
  /\ UNCHANGED nextId

TableChange ==
  \/ \E row \in NewRows : InsertRow(row)
  \/ \E i \in RowIds :
       \/ SyncPackage(i)
       \/ \E rebuild \in Outcomes : ReportBuild(i, rebuild)
       \/ \E artifact \in {"GOOD", "BAD"} : ReportArtifact(i, artifact)
       \/ ResetBuild(i)
       \/ ResetArtifact(i)
       \/ \E priority \in 0 .. 1 : ChangePriority(i, priority)
       \/ StartJob(i)
       \/ ReleaseJob(i)
       \/ ComeDue(i)
       \/ DropJob(i)

ListingsNext == RequestPage \/ TableChange

ListingsSpec == ListingsInit /\ [][ListingsNext]_listingVars
=============================================================================
