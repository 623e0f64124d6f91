----------------------------- MODULE Schedulers -----------------------------
(***************************************************************************)
(* tools/src/schedule: rebuildctl pkgs sync reads the package indexes of a *)
(* distribution and turns them into reports, and the daemon takes each     *)
(* report over into its tables of packages.  The mirror may change, and a  *)
(* request fail, between any two steps.                                    *)
(***************************************************************************)
EXTENDS Options, Integers, FiniteSets, Sequences, SequencesExt, TLC

CONSTANTS
  Profiles,         \* sync profiles: PkgsSync
  Mirrors,          \* [distribution -> what its mirror may look like]
  SourceComponent,  \* the component whose Sources.xz a component shares
  Hashes,           \* commits of the ports tree
  GithubAnswers     \* what GitHub may say of the time of each commit

(* Names and times are numbers, in their order.  A version is a pair: that *)
(* of the source, and the number of the binary-only rebuild, if any.       *)
Places == [release : STRING \cup {None}, component : STRING \cup {None}, arch : STRING]

Entries ==
  [name : Nat, version : Nat \X Nat, arch : STRING, source : STRING, srcver : Nat,
   by : STRING, hash : Hashes \cup {None}, built : Nat \cup {None}]

SourceEntries == [name : STRING, version : Nat]

ASSUME SchedulersAssumption ==
  /\ \A p \in Profiles :
       /\ p.distro \in {"debian", "fedora", "archlinux", "freebsd", "tails"}
       /\ Mirrors[p.distro] # {}
       /\ \A m \in Mirrors[p.distro] :
            /\ \A q \in DOMAIN m.sources : q \in Places /\ m.sources[q] \subseteq SourceEntries
            /\ \A q \in DOMAIN m.index :
                 q \in Places /\ m.index[q] \in Seq(IF p.distro = "tails" THEN Nat ELSE Entries)
  /\ None \notin Hashes
  /\ GithubAnswers # {} /\ GithubAnswers \subseteq [Hashes -> Nat \cup {None}]

VARIABLES
  profile,  \* the profile that is synced
  mirror,   \* the indexes on the mirror
  sync,     \* the run of rebuildctl, with all that it has read
  catalog   \* table binary_packages, joined with build_inputs and source_packages

syncVars == <<profile, mirror, sync, catalog>>

IdleSync == [pc |-> "idle", step |-> 1, sources |-> {}, read |-> <<>>, reports |-> <<>>]

SchedulersInit ==
  /\ profile \in Profiles
  /\ mirror \in Mirrors[profile.distro]
  /\ sync = IdleSync
  /\ catalog = {}

-----------------------------------------------------------------------------
(* The order of the requests *)

Place(r, c, a) == [release |-> r, component |-> c, arch |-> a]

ForEach(s, Op(_)) == FlattenSeq([k \in DOMAIN s |-> Op(s[k])])

Steps ==
  LET p == profile
  IN CASE p.distro = "debian" ->
            ForEach(p.releases, LAMBDA r : ForEach(p.components, LAMBDA c :
              <<Place(r, c, "source")>> \o ForEach(p.archs, LAMBDA a : <<Place(r, c, a)>>)))
       [] p.distro = "fedora" ->
            ForEach(p.releases, LAMBDA r : ForEach(p.components, LAMBDA c :
              ForEach(p.archs, LAMBDA a : <<Place(r, c, a)>>)))
       [] p.distro = "archlinux" ->
            ForEach(p.archs, LAMBDA a :
              ForEach(p.components, LAMBDA c : <<Place(None, c, a)>>))
       [] OTHER ->
            ForEach(p.releases, LAMBDA r : ForEach(p.archs, LAMBDA a : <<Place(r, None, a)>>))

Wanted == Steps[sync.step]
WantsSources == Wanted.arch = "source"

Fetching == sync.pc = "fetch" /\ sync.step <= Len(Steps)

(* The other schedulers give up when an index cannot be read, and so does  *)
(* Debian's when it is one of sources.                                     *)
MaySkip == profile.distro \in {"debian", "freebsd"} /\ ~WantsSources

-----------------------------------------------------------------------------
(* What is reported *)

(* Pkg::matches.  FreeBSD's index names no maintainer, and Tails takes all. *)
ByMaintainer(e) == profile.distro # "freebsd" /\ e.by \in profile.maintainers

Matches(e) ==
  \/ profile.distro = "tails"
  \/ /\ e.name \notin profile.excludes
     /\ \/ profile.maintainers = {} /\ profile.pkgs = {}
        \/ ByMaintainer(e)
        \/ e.name \in profile.pkgs

(* Debian combines packages of the architecture with those for all of them *)
(* in one index, and needs the source of each.                             *)
HasSource(x, e) ==
  [release |-> x.place.release, name |-> e.source, version |-> e.srcver] \in x.sources

IsImported(x, e) ==
  /\ Matches(e)
  /\ profile.distro = "debian" => e.arch \in ToSet(profile.archs) /\ HasSource(x, e)

ReportArch(x, e) == IF profile.distro = "debian" THEN e.arch ELSE x.place.arch

(* Fault: a binary-only rebuild is taken for the source's build.           *)
SourceVersionAlone(e) == <<e.srcver, 0>>

(* SourcePkgBucket::get: a binary-only rebuild is a version of its own.    *)
SourceVersion(e) == <<e.srcver, e.version[2]>>

GroupKey(e) ==
  CASE profile.distro = "debian" -> <<e.source, SourceVersion(e)>>
    [] profile.distro = "freebsd" -> <<e.source, e.version>>
    [] OTHER -> <<e.source, None>>

Artifact(x, e) == [name |-> e.name, version |-> e.version, url |-> <<x.place, e.name, e.version>>]

(* Fault: FreeBSD's packages are taken in the order of the index.          *)
AnyName(members) == members

(* FreeBSD sorts by name, so that the first package of a group is the same *)
(* whatever the order of the index.                                        *)
LeastName(members) ==
  IF profile.distro = "freebsd"
  THEN {m \in members : \A n \in members : m.entry.name <= n.entry.name}
  ELSE members

(* Which of Debian's comes first is of no account below.                   *)
First(members) ==
  CHOOSE m \in LeastName(members) : \A n \in LeastName(members) : m.at <= n.at

(* Debian's build input is the .buildinfo file of the source; the others   *)
(* take the first package of the group.                                    *)
Group(arch, members, commit) ==
  LET first == First(members)
      e == first.entry
  IN [source |-> e.source,
      version |-> IF profile.distro = "debian" THEN SourceVersion(e) ELSE e.version,
      url |-> IF profile.distro = "debian" THEN <<e.source, SourceVersion(e), arch>>
              ELSE Artifact(first.from, e).url,
      artifacts |-> {Artifact(m.from, m.entry) : m \in members},
      built |-> e.built,
      commit |-> IF e.hash \in DOMAIN commit THEN commit[e.hash] ELSE None]

Report(r, c, a, entries, commit) ==
  [release |-> r, component |-> c, arch |-> a,
   groups |-> {Group(a, {n \in entries : GroupKey(n.entry) = GroupKey(m.entry)}, commit)
                 : m \in entries}]

(* What is imported of an index, with its place in it.                     *)
ImportedFrom(x) ==
  {[from |-> x, at |-> k, entry |-> x.entries[k]]
     : k \in {j \in DOMAIN x.entries : IsImported(x, x.entries[j])}}

HashesOf(entries) == {e.hash : e \in {f \in ToSet(entries) : Matches(f)}} \ {None}

(* Fault: a commit is as old as GitHub says, or its first package.         *)
CommitTimesOfFirst(x) ==
  LET first(h) == CHOOSE k \in DOMAIN x.entries :
        /\ x.entries[k].hash = h
        /\ \A j \in 1 .. k - 1 : x.entries[j].hash # h
  IN [h \in HashesOf(x.entries) |->
        IF x.github[h] # None THEN x.github[h] ELSE x.entries[first(h)].built]

(* FreeBSD: a commit is as old as GitHub says, and no younger than the     *)
(* first build that has it.                                                *)
CommitTimes(x) ==
  LET own == {e \in ToSet(x.entries) : Matches(e)}
      times(h) == ({x.github[h]} \cup {e.built : e \in {f \in own : f.hash = h}}) \ {None}
  IN [h \in HashesOf(x.entries) |-> IF times(h) = {} THEN None ELSE Min(times(h))]

(* Fault: components that could not be read are reported as empty.         *)
ScopesOfProfile(read) ==
  {<<r, c>> : r \in ToSet(profile.releases), c \in ToSet(profile.components)}

(* create_all_release_groups: as soon as one index of a component is read, *)
(* there is a report for each architecture, be it empty.                   *)
DebianScopes(read) ==
  {<<x.place.release, x.place.component>> : x \in ToSet(read)}

DebianReport(read, r, c, a) ==
  Report(r, c, a,
         {m \in UNION {ImportedFrom(x) : x \in ToSet(read)} :
            m.from.place.release = r /\ m.from.place.component = c /\ m.entry.arch = a},
         <<>>)

(* Fedora's reports name no release. *)
ReportRelease(x) == IF profile.distro = "fedora" THEN None ELSE x.place.release

(* Debian's reports are the values of a hash map; the others are a list.   *)
Reports(read) ==
  IF profile.distro = "debian"
  THEN [s \in DebianScopes(read) \X ToSet(profile.archs) |->
          DebianReport(read, s[1][1], s[1][2], s[2])]
  ELSE [k \in DOMAIN read |->
          LET x == read[k]
          IN Report(ReportRelease(x), x.place.component, x.place.arch, ImportedFrom(x),
                    IF profile.distro = "freebsd" THEN CommitTimes(x) ELSE <<>>)]

-----------------------------------------------------------------------------
(* The run of rebuildctl *)

Become(state) == sync' = state /\ UNCHANGED <<profile, mirror>>

StartSync ==
  /\ sync.pc \in {"idle", "done"}
  /\ Become([IdleSync EXCEPT !.pc = "fetch"])
  /\ UNCHANGED catalog

(* Sources.xz.  The bucket of sources is that of one release.              *)
ReadSources ==
  /\ Fetching
  /\ WantsSources
  /\ LET p == Place(Wanted.release, SourceComponent[Wanted.component], "source")
     IN /\ p \in DOMAIN mirror.sources
        /\ Become([sync EXCEPT
             !.step = @ + 1,
             !.sources = @ \cup {[release |-> p.release, name |-> s.name, version |-> s.version]
                                   : s \in mirror.sources[p]}])
  /\ UNCHANGED catalog

(* Tails: the first version in the directory, with its two images.         *)
Images(versions) ==
  LET image(k) == [name |-> k, version |-> <<Head(versions), 0>>, arch |-> Wanted.arch,
                   source |-> "tails", srcver |-> Head(versions), by |-> "",
                   hash |-> None, built |-> None]
  IN <<image(1), image(2)>>

ReadIndex(github) ==
  /\ Fetching
  /\ ~WantsSources
  /\ Wanted \in DOMAIN mirror.index
  /\ LET index == mirror.index[Wanted]
         entries == IF profile.distro = "tails" THEN Images(index) ELSE index
     IN /\ profile.distro = "tails" => index # <<>>
        /\ Become([sync EXCEPT
             !.step = @ + 1,
             !.read = Append(@, [place |-> Wanted, entries |-> entries,
                                 sources |-> sync.sources,
                                 github |-> [h \in HashesOf(entries) |-> github[h]]])])
  /\ UNCHANGED catalog

SkipIndex ==
  /\ Fetching
  /\ MaySkip
  /\ Become([sync EXCEPT !.step = @ + 1])
  /\ UNCHANGED catalog

EndFetch ==
  /\ sync.pc = "fetch"
  /\ sync.step > Len(Steps)
  /\ LET reports == Reports(sync.read)
     IN Become([sync EXCEPT !.pc = IF DOMAIN reports = {} THEN "done" ELSE "submit",
                            !.reports = reports])
  /\ UNCHANGED catalog

(* A request fails, to the mirror or to the daemon, or rebuildctl stops.   *)
AbortSync ==
  /\ sync.pc \in {"fetch", "submit"}
  /\ Become(IdleSync)
  /\ UNCHANGED catalog

-----------------------------------------------------------------------------
(* The daemon takes over a report, in one transaction                      *)

(* Fault: a report hides the packages of other components.                 *)
InScopeOfRelease(row, report) == row.release = report.release /\ row.arch = report.arch

(* mark_scoped_packages_unseen *)
InScope(row, report) ==
  row.release = report.release /\ row.component = report.component /\ row.arch = report.arch

NewRow(report, g, b) ==
  [release |-> report.release, component |-> report.component, arch |-> report.arch,
   source |-> g.source, srcver |-> g.version, input |-> g.url,
   name |-> b.name, version |-> b.version, url |-> b.url, seen |-> TRUE]

Rows(report) == UNION {{NewRow(report, g, b) : b \in g.artifacts} : g \in report.groups}

(* The unique key of binary_packages: the rest of the row is replaced.     *)
SameRow(a, b) == [a EXCEPT !.url = b.url, !.seen = b.seen] = b

Import(report) ==
  catalog' = Rows(report) \cup
    {[row EXCEPT !.seen = @ /\ ~InScope(row, report)]
       : row \in {old \in catalog : ~\E new \in Rows(report) : SameRow(old, new)}}

(* Debian's reports go in any order, the others in that of the list.       *)
SubmitReport(k) ==
  /\ sync.pc = "submit"
  /\ k \in DOMAIN sync.reports
  /\ profile.distro # "debian" => \A j \in DOMAIN sync.reports : k <= j
  /\ Import(sync.reports[k])
  /\ LET rest == Restrict(sync.reports, DOMAIN sync.reports \ {k})
     IN Become([sync EXCEPT !.reports = rest, !.pc = IF DOMAIN rest = {} THEN "done" ELSE @])

(* The mirror gets and loses packages. *)
MirrorChange ==
  /\ mirror' \in Mirrors[profile.distro]
  /\ UNCHANGED <<profile, sync, catalog>>

SyncStep ==
  \/ StartSync
  \/ ReadSources
  \/ \E github \in GithubAnswers : ReadIndex(github)
  \/ SkipIndex
  \/ EndFetch
  \/ AbortSync
  \/ \E k \in DOMAIN sync.reports : SubmitReport(k)

SchedulersNext == SyncStep \/ MirrorChange

SchedulersSpec == SchedulersInit /\ [][SchedulersNext]_syncVars
=============================================================================
