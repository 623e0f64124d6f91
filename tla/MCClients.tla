------------------------------ MODULE MCClients ------------------------------
(***************************************************************************)
(* What clients ask of the daemon besides the scheduling of builds, one    *)
(* kind of request at a time, while the tables change.  Each of the        *)
(* components has variables of its own, and does nothing unless the        *)
(* command is its own.                                                     *)
(***************************************************************************)
EXTENDS MCSchedulers, MCListings, MCStatistics, AttestationsProperties

VARIABLE command  \* what is asked for

Commands == {"sync", "list", "dashboard", "statistics", "attestation"}

(* The listing of a command that lists nothing. *)
EmptyListing == [NewListing EXCEPT !.pc = "done", !.steady = {}]

Some(S) == CHOOSE x \in S : TRUE

ClientsInit ==
  /\ command \in Commands
  /\ SchedulersInit
  /\ command # "sync" =>
       profile = Some(MCProfiles) /\ mirror = Some(MCMirrors[profile.distro])
  /\ IF command = "list" THEN ListingsInit
     ELSE /\ query = AllJobs
          /\ rows = [i \in RowIds |-> None]
          /\ nextId = 1
          /\ listing = EmptyListing
  /\ StatisticsInit
  /\ AttestationsInit

ListingCommand ==
  /\ command = "list"
  /\ ListingsNext
  /\ UNCHANGED <<command, syncVars, statVars, attestationVars>>

ClientsNext ==
  \/ /\ command = "sync"
     /\ SchedulersNext
     /\ UNCHANGED <<command, listingVars, statVars, attestationVars>>
  \/ ListingCommand
  \/ /\ command = "dashboard"
     /\ DashboardStep \/ StatisticsChange(MCInputs, {{}, {<<1, "path">>}})
     /\ BuildCount' <= 1
     /\ UNCHANGED <<command, syncVars, listingVars, attestationVars>>
  \/ /\ command = "statistics"
     /\ CollectionStep \/ StatisticsChange({1}, MCBadSets)
     /\ UNCHANGED <<command, syncVars, listingVars, attestationVars>>
  \/ /\ command = "attestation"
     /\ AttestationsNext
     /\ UNCHANGED <<command, syncVars, listingVars, statVars>>

clientVars == <<command, syncVars, listingVars, statVars, attestationVars>>

ClientsSpec == ClientsInit /\ [][ClientsNext]_clientVars /\ ListingsFairness
=============================================================================
