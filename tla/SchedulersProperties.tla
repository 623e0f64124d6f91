------------------------ MODULE SchedulersProperties ------------------------
(***************************************************************************)
(* What rebuildctl pkgs sync promises of the daemon's tables.              *)
(***************************************************************************)
EXTENDS Schedulers

Package(row) ==
  [release |-> row.release, component |-> row.component, arch |-> row.arch,
   name |-> row.name, version |-> row.version]

SeenIn(rows) == {Package(row) : row \in {r \in rows : r.seen}}

(* The packages that an index brings. *)
Listed(x) ==
  {[release |-> ReportRelease(x),
    component |-> x.place.component, arch |-> ReportArch(x, e),
    name |-> e.name, version |-> e.version]
     : e \in {f \in ToSet(x.entries) : IsImported(x, f)}}

(* Does this index fill the report that the package would be in?           *)
Fills(x, p) ==
  /\ ReportRelease(x) = p.release
  /\ x.place.component = p.component
  /\ profile.distro = "debian" \/ x.place.arch = p.arch

(* Do two indexes fill one report?  Only Fedora's do, whose reports name   *)
(* no release, and those that a profile names twice.                       *)
SameReport(x, y) ==
  /\ profile.distro # "debian"
  /\ ReportRelease(x) = ReportRelease(y)
  /\ x.place.component = y.place.component
  /\ x.place.arch = y.place.arch

(* When a run ends, whatever it read is known as seen: no report of the    *)
(* run hides what another one brought, unless they are one report for the  *)
(* daemon, of which the last one wins.                                     *)
ListedIsSeen ==
  sync.pc = "done" =>
    \A k \in DOMAIN sync.read :
      \/ Listed(sync.read[k]) \subseteq SeenIn(catalog)
      \/ \E j \in DOMAIN sync.read : k < j /\ SameReport(sync.read[j], sync.read[k])

(* A package goes unseen, and loses its job, only when this run has read   *)
(* an index of its report and no longer found it; in none of them, if it   *)
(* is one of Debian's.  That an index could not be read hides nothing,     *)
(* with one exception: Debian reports an architecture as soon as it has    *)
(* the index of another one.                                               *)
UnseenOnlyIfUnlisted ==
  [][\A p \in SeenIn(catalog) \ SeenIn(catalog') :
       LET indexes == {x \in ToSet(sync.read) : Fills(x, p)}
           without == {x \in indexes : p \notin Listed(x)}
       IN without # {} /\ (profile.distro = "debian" => without = indexes)]_syncVars

(* A version of a source is built once for an architecture: it keeps its   *)
(* build input however often, and in whatever order, it is listed, so that *)
(* it keeps its job and its results.  Arch Linux and Fedora take the url   *)
(* of the package that is listed first, and do not promise this.           *)
PackagesOf(m, p) ==
  {<<e.source, e.version, e.name>> : e \in {f \in ToSet(m.index[p]) : Matches(f)}}

SamePackages ==
  \A m, n \in Mirrors[profile.distro] : \A p \in DOMAIN m.index \cap DOMAIN n.index :
    \A a \in PackagesOf(m, p), b \in PackagesOf(n, p) :
      <<a[1], a[2]>> = <<b[1], b[2]>> => a \in PackagesOf(n, p)

OneInput ==
  \/ profile.distro = "debian"
  \/ profile.distro = "freebsd" /\ SamePackages
  => \A a, b \in catalog :
       /\ <<a.release, a.component, a.arch>> = <<b.release, b.component, b.arch>>
       /\ <<a.source, a.srcver>> = <<b.source, b.srcver>>
       => a.input = b.input

(* A binary-only rebuild was built from inputs of its own: its packages    *)
(* are not verified against the recorded build of another one.             *)
BuildsAreNotMixed ==
  profile.distro = "debian" =>
    \A a, b \in catalog : a.input = b.input => a.version[2] = b.version[2]

(* No port is reported to be committed later than it was built, whatever   *)
(* GitHub says and in whatever order its packages are listed.              *)
CommitPrecedesBuild ==
  \A k \in DOMAIN sync.reports : \A g \in sync.reports[k].groups :
    g.commit # None /\ g.built # None => g.commit <= g.built
=============================================================================
