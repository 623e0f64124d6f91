------------------------- MODULE ListingsProperties -------------------------
(***************************************************************************)
(* What a list promises its reader.                                        *)
(***************************************************************************)
EXTENDS Listings

TimesShown(i) == Cardinality({k \in DOMAIN listing.shown : listing.shown[k] = i})

(* Whatever is there, at its place, while the pages are read is shown once *)
(* and not twice, also among rows of the same name or priority.  The list  *)
(* breaks only when the last row of a page has left or moved before the    *)
(* next page is asked for; one in the order of the ids never does.         *)
ListingShowsOnce ==
  listing.pc = "done" /\ ~listing.lost =>
    /\ \A i \in listing.steady : TimesShown(i) <= 1
    /\ listing.left > 0 => \A i \in listing.steady : TimesShown(i) = 1

(* Once the table stands still the list ends.                              *)
ListingEnds == <>[][FALSE]_rows => <>(listing.pc = "done")

ListingsFairness == WF_listingVars(RequestPage)

(* The daemon's filter finds a package under the status that the list      *)
(* shows for it, and under no other, so that filtering here and there is   *)
(* the same.  The exceptions are a package without an artifact, because it *)
(* was added to a build input after its build or because its report is     *)
(* still handled: it is shown with the status of the build; and one whose  *)
(* build is reset already, and its artifact not yet.                       *)
StatusFiltersFindShown ==
  query.table = "binary" =>
    \A i \in RowIds : rows[i] # None =>
      \A status \in {"GOOD", "BAD", "FAIL", "UNKWN"} :
        \/ StatusMatches({status}, rows[i]) <=> ShownStatus(rows[i]) = status
        \/ rows[i].artifact = None /\ rows[i].rebuild \in {"GOOD", "BAD"}
        \/ rows[i].artifact # None /\ rows[i].rebuild = None
=============================================================================
