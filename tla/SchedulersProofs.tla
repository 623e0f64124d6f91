-------------------------- MODULE SchedulersProofs --------------------------
(***************************************************************************)
(* Proofs about rebuildctl pkgs sync, for all mirrors and profiles.        *)
(***************************************************************************)
EXTENDS SchedulersProperties, WellFoundedInduction, TLAPS

PackagesIn(report) == {Package(row) : row \in Rows(report)}

(* What has been read: entries of an index, or the two images of Tails.    *)
TailsEntries ==
  [name : Nat, version : Nat \X Nat, arch : STRING, source : {"tails"}, srcver : Nat,
   by : {""}, hash : {None}, built : {None}]

ReadEntries == Entries \cup TailsEntries

Index ==
  [place : Places, entries : Seq(ReadEntries),
   sources : SUBSET [release : STRING \cup {None}, name : STRING, version : Nat],
   github : UNION {[H -> Nat \cup {None}] : H \in SUBSET Hashes}]

SyncShape ==
  /\ sync = [pc |-> sync.pc, step |-> sync.step, sources |-> sync.sources,
             read |-> sync.read, reports |-> sync.reports]
  /\ sync.sources \subseteq [release : STRING \cup {None}, name : STRING, version : Nat]
  /\ sync.read \in Seq(Index)
  /\ sync.pc \in {"idle", "fetch", "done"} => DOMAIN sync.reports = {}

(* An index is one that a mirror had, with an answer for each commit in it. *)
IndexIsReal(x) ==
  /\ DOMAIN x.github = HashesOf(x.entries)
  /\ profile.distro = "freebsd" =>
       \E m \in Mirrors[profile.distro] : x.place \in DOMAIN m.index /\ x.entries = m.index[x.place]

-----------------------------------------------------------------------------
LEMMA LeastExists ==
  ASSUME NEW S \in SUBSET Nat, S # {}
  PROVE  \E n \in S : \A m \in S : n <= m
<1>1. PICK n \in S : \A m \in S : ~(<<m, n>> \in OpToRel(<, Nat))
  BY WFMin, NatLessThanWellFounded, Zenon
<1>2. \A m \in S : ~(m < n)
  BY <1>1, Zenon DEF OpToRel
<1>3. QED  BY <1>2

(* The first of a group is one of its members, and of FreeBSD's it has the *)
(* least name.                                                             *)
LEMMA FirstIsMember ==
  ASSUME NEW members, members # {},
         \A m \in members : m.at \in Nat /\ m.entry.name \in Nat
  PROVE  /\ First(members) \in members
         /\ profile.distro = "freebsd" =>
              \A n \in members : First(members).entry.name <= n.entry.name
<1>1. LeastName(members) \subseteq members /\ LeastName(members) # {}
  <2>1. CASE profile.distro = "freebsd"
    <3> DEFINE names == {m.entry.name : m \in members}
    <3>1. names \in SUBSET Nat /\ names # {}
      OBVIOUS
    <3>2. PICK n \in names : \A k \in names : n <= k
      BY <3>1, LeastExists
    <3>3. QED  BY <2>1, <3>2 DEF LeastName
  <2>2. QED  BY <2>1 DEF LeastName
<1> DEFINE places == {m.at : m \in LeastName(members)}
<1>2. places \in SUBSET Nat /\ places # {}
  BY <1>1
<1>3. PICK k \in places : \A j \in places : k <= j
  BY <1>2, LeastExists
<1>4. \E m \in LeastName(members) : \A n \in LeastName(members) : m.at <= n.at
  BY <1>3
<1>5. First(members) \in LeastName(members)
  BY <1>4 DEF First
<1>6. QED  BY <1>1, <1>5 DEF LeastName

(* The members of a group are imported, and of one source and version.     *)
LEMMA ImportsAreListed ==
  ASSUME NEW x \in Index, NEW m \in ImportedFrom(x)
  PROVE  /\ m.from = x /\ m.at \in Nat /\ m.entry \in ReadEntries
         /\ m.entry \in ToSet(x.entries) /\ IsImported(x, m.entry)
BY DEF ImportedFrom, Index, ToSet

LEMMA ListedAreImports ==
  ASSUME NEW x, NEW e \in ToSet(x.entries), IsImported(x, e)
  PROVE  \E m \in ImportedFrom(x) : m.entry = e /\ m.from = x
<1>1. PICK i \in DOMAIN x.entries : e = x.entries[i]
  BY DEF ToSet
<1>2. [from |-> x, at |-> i, entry |-> x.entries[i]] \in ImportedFrom(x)
  BY <1>1 DEF ImportedFrom
<1>3. QED  BY <1>1, <1>2

(* What the daemon makes of a report: a row for every package in it, with  *)
(* the build input of the first package of its group.                      *)
RowOf(r, c, a, first, m) ==
  [release |-> r, component |-> c, arch |-> a,
   source |-> first.entry.source,
   srcver |-> IF profile.distro = "debian" THEN SourceVersion(first.entry) ELSE first.entry.version,
   input |-> IF profile.distro = "debian"
             THEN <<first.entry.source, SourceVersion(first.entry), a>>
             ELSE <<first.from.place, first.entry.name, first.entry.version>>,
   name |-> m.entry.name, version |-> m.entry.version,
   url |-> <<m.from.place, m.entry.name, m.entry.version>>, seen |-> TRUE]

PackageOf(r, c, a, m) ==
  [release |-> r, component |-> c, arch |-> a, name |-> m.entry.name, version |-> m.entry.version]

LEMMA RowsOfReports ==
  ASSUME NEW r, NEW c, NEW a, NEW commit, NEW entries,
         \A m \in entries : m.at \in Nat /\ m.entry \in ReadEntries
  PROVE  /\ \A row \in Rows(Report(r, c, a, entries, commit)) : \E first, m \in entries :
              /\ row = RowOf(r, c, a, first, m)
              /\ GroupKey(first.entry) = GroupKey(m.entry)
              /\ profile.distro = "freebsd" =>
                   \A n \in entries : GroupKey(n.entry) = GroupKey(first.entry)
                                        => first.entry.name <= n.entry.name
         /\ PackagesIn(Report(r, c, a, entries, commit)) = {PackageOf(r, c, a, m) : m \in entries}
<1> DEFINE report == Report(r, c, a, entries, commit)
           Like(m) == {n \in entries : GroupKey(n.entry) = GroupKey(m.entry)}
<1>0. \A m \in entries : m.entry.name \in Nat
  BY DEF ReadEntries, Entries, TailsEntries
<1>1. ASSUME NEW m \in entries
      PROVE  /\ First(Like(m)) \in Like(m)
             /\ profile.distro = "freebsd" =>
                  \A n \in Like(m) : First(Like(m)).entry.name <= n.entry.name
  <2>1. Like(m) # {} /\ \A n \in Like(m) : n.at \in Nat /\ n.entry.name \in Nat
    BY <1>0
  <2> HIDE DEF Like
  <2>2. QED  BY <2>1, FirstIsMember
<1>2. /\ report.groups = {Group(a, Like(m), commit) : m \in entries}
      /\ report.release = r /\ report.component = c /\ report.arch = a
  BY DEF Report
<1>3. \A m \in entries :
        /\ Group(a, Like(m), commit).source = First(Like(m)).entry.source
        /\ Group(a, Like(m), commit).version =
             (IF profile.distro = "debian" THEN SourceVersion(First(Like(m)).entry)
              ELSE First(Like(m)).entry.version)
        /\ Group(a, Like(m), commit).url =
             (IF profile.distro = "debian"
              THEN <<First(Like(m)).entry.source, SourceVersion(First(Like(m)).entry), a>>
              ELSE <<First(Like(m)).from.place, First(Like(m)).entry.name, First(Like(m)).entry.version>>)
        /\ Group(a, Like(m), commit).artifacts = {Artifact(n.from, n.entry) : n \in Like(m)}
  BY DEF Group, Artifact
<1> HIDE DEF Like, report
<1>4. ASSUME NEW m \in entries, NEW n \in Like(m)
      PROVE  RowOf(r, c, a, First(Like(m)), n) \in Rows(report)
  <2>1. PICK g \in report.groups :
          /\ g = Group(a, Like(m), commit)
    BY <1>2
  <2>2. PICK b \in g.artifacts : b = Artifact(n.from, n.entry)
    BY <1>3, <2>1
  <2>3. NewRow(report, g, b) \in Rows(report)
    BY <2>1, <2>2 DEF Rows
  <2>4. NewRow(report, g, b) = RowOf(r, c, a, First(Like(m)), n)
    BY <1>2, <1>3, <2>1, <2>2 DEF NewRow, RowOf, Artifact
  <2>5. QED  BY <2>3, <2>4
<1>5. ASSUME NEW row \in Rows(report)
      PROVE  \E m \in entries : \E n \in Like(m) : row = RowOf(r, c, a, First(Like(m)), n)
  <2>1. PICK g \in report.groups : \E b \in g.artifacts : row = NewRow(report, g, b)
    BY DEF Rows
  <2>2. PICK b \in g.artifacts : row = NewRow(report, g, b)
    BY <2>1
  <2>3. PICK m \in entries : g = Group(a, Like(m), commit)
    BY <1>2
  <2>4. PICK n \in Like(m) : b = Artifact(n.from, n.entry)
    BY <1>3, <2>3
  <2>5. row = RowOf(r, c, a, First(Like(m)), n)
    BY <1>2, <1>3, <2>2, <2>3, <2>4 DEF NewRow, RowOf, Artifact
  <2>6. QED  BY <2>5
<1>6. ASSUME NEW row \in Rows(report)
      PROVE  \E first, m \in entries :
               /\ row = RowOf(r, c, a, first, m)
               /\ GroupKey(first.entry) = GroupKey(m.entry)
               /\ profile.distro = "freebsd" =>
                    \A n \in entries : GroupKey(n.entry) = GroupKey(first.entry)
                                         => first.entry.name <= n.entry.name
  <2>1. PICK l \in entries : \E n \in Like(l) : row = RowOf(r, c, a, First(Like(l)), n)
    BY <1>5
  <2> PICK m \in Like(l) : row = RowOf(r, c, a, First(Like(l)), m)
    BY <2>1
  <2>2. First(Like(l)) \in Like(l) /\ m \in Like(l)
    BY <1>1, <2>1
  <2>3. QED  BY <1>1, <2>1, <2>2 DEF Like
<1>7. PackagesIn(report) = {PackageOf(r, c, a, m) : m \in entries}
  <2>1. \A first, n : Package(RowOf(r, c, a, first, n)) = PackageOf(r, c, a, n)
    BY DEF Package, RowOf, PackageOf
  <2>2. ASSUME NEW row \in Rows(report) PROVE \E n \in entries : Package(row) = PackageOf(r, c, a, n)
    <3>1. PICK m \in entries : \E n \in Like(m) : row = RowOf(r, c, a, First(Like(m)), n)
      BY <1>5
    <3>2. PICK n \in Like(m) : row = RowOf(r, c, a, First(Like(m)), n)
      BY <3>1
    <3>3. n \in entries
      BY DEF Like
    <3>4. QED  BY <2>1, <3>2, <3>3
  <2>3. ASSUME NEW m \in entries PROVE \E row \in Rows(report) : Package(row) = PackageOf(r, c, a, m)
    BY <1>4, <2>1 DEF Like
  <2>4. QED  BY <2>2, <2>3 DEF PackagesIn
<1>8. QED  BY <1>6, <1>7 DEF report

-----------------------------------------------------------------------------
(* What the rows of table binary_packages are like.                        *)
RowShape(row) ==
  /\ row = [release |-> row.release, component |-> row.component, arch |-> row.arch,
            source |-> row.source, srcver |-> row.srcver, input |-> row.input,
            name |-> row.name, version |-> row.version, url |-> row.url, seen |-> row.seen]
  /\ row.seen \in BOOLEAN

(* Debian's build input is that of the version of the source; FreeBSD's    *)
(* was that of the package of least name, on some mirror.                  *)
InputOf(row) ==
  /\ profile.distro = "debian" =>
       /\ row.input = <<row.source, row.srcver, row.arch>>
       /\ row.srcver[2] = row.version[2]
  /\ profile.distro = "freebsd" =>
       \E m \in Mirrors[profile.distro], q \in Places, n \in Nat :
         /\ q = Place(row.release, row.component, row.arch)
         /\ q \in DOMAIN m.index
         /\ row.input = <<q, n, row.srcver>>
         /\ <<row.source, row.srcver, n>> \in PackagesOf(m, q)
         /\ \A k \in Nat : <<row.source, row.srcver, k>> \in PackagesOf(m, q) => n <= k

CommitsPrecede(report) ==
  \A g \in report.groups : g.commit # None /\ g.built # None => g.commit <= g.built

(* A report brings all that was listed of its architecture, be it of the   *)
(* indexes of one component, or of its own index.                          *)
Brings(report, k) ==
  IF profile.distro = "debian"
  THEN /\ \E x \in ToSet(sync.read) : x.place.release = report.release
                                        /\ x.place.component = report.component
       /\ \A x \in ToSet(sync.read) : \A p \in Listed(x) :
            InScope(p, report) => p \in PackagesIn(report)
  ELSE /\ k \in DOMAIN sync.read
       /\ report.release = ReportRelease(sync.read[k])
       /\ report.component = sync.read[k].place.component
       /\ report.arch = sync.read[k].place.arch
       /\ Listed(sync.read[k]) \subseteq PackagesIn(report)

ReportSound(report, k) ==
  /\ \A row \in Rows(report) : RowShape(row) /\ InputOf(row)
  /\ CommitsPrecede(report)
  /\ Brings(report, k)

-----------------------------------------------------------------------------
(* A commit is no younger than the first build of any package that has it. *)
LEMMA CommitTimesPrecede ==
  ASSUME NEW x \in Index, DOMAIN x.github = HashesOf(x.entries), NEW r, NEW c, NEW a
  PROVE  CommitsPrecede(Report(r, c, a, ImportedFrom(x), CommitTimes(x)))
<1> DEFINE Like(m) == {n \in ImportedFrom(x) : GroupKey(n.entry) = GroupKey(m.entry)}
<1> SUFFICES ASSUME NEW m \in ImportedFrom(x), NEW g, g = Group(a, Like(m), CommitTimes(x)),
                    g.commit # None, g.built # None
             PROVE  g.commit <= g.built
  BY DEF CommitsPrecede, Report
<1> DEFINE first == First(Like(m))
           h == first.entry.hash
           own == {e \in ToSet(x.entries) : Matches(e)}
           times == ({x.github[h]} \cup {e.built : e \in {f \in own : f.hash = h}}) \ {None}
<1>1. first \in ImportedFrom(x)
  <2>1. Like(m) # {} /\ \A n \in Like(m) : n.at \in Nat /\ n.entry.name \in Nat
    BY ImportsAreListed DEF ReadEntries, Entries, TailsEntries
  <2>2. First(Like(m)) \in Like(m)
    BY <2>1, FirstIsMember
  <2>3. QED  BY <2>2
<1>2. /\ first.entry \in own /\ first.entry \in ReadEntries
  BY <1>1, ImportsAreListed DEF IsImported
<1>3. /\ g.built = first.entry.built
      /\ g.commit = IF h \in DOMAIN CommitTimes(x) THEN CommitTimes(x)[h] ELSE None
  BY DEF Group
<1> HIDE DEF first, Like
<1>4. h \in HashesOf(x.entries) /\ g.commit = (IF times = {} THEN None ELSE Min(times))
  BY <1>3 DEF CommitTimes
<1>5. g.built \in times /\ g.built \in Nat
  BY <1>2, <1>3 DEF ReadEntries, Entries, TailsEntries
<1>6. times \in SUBSET Nat
  <2>1. x.github[h] \in Nat \cup {None}
    BY <1>4 DEF Index
  <2>2. own \subseteq ReadEntries
    BY DEF Index, ToSet
  <2>3. \A e \in own : e.built \in Nat \cup {None}
    BY <2>2 DEF ReadEntries, Entries, TailsEntries
  <2>4. QED  BY <2>1, <2>3
<1> HIDE DEF times
<1>7. \E n \in times : \A k \in times : n <= k
  BY <1>5, <1>6, LeastExists
<1>8. \A k \in times : Min(times) <= k
  BY <1>7 DEF Min
<1>9. QED  BY <1>4, <1>5, <1>8
-----------------------------------------------------------------------------
(* The reports that are made of what was read are sound.                   *)
LEMMA ReportsOfIndexes ==
  ASSUME profile.distro # "debian", sync.read \in Seq(Index),
         \A x \in ToSet(sync.read) : IndexIsReal(x),
         NEW k \in DOMAIN sync.read
  PROVE  ReportSound(Reports(sync.read)[k], k)
<1> DEFINE x == sync.read[k]
           commit == IF profile.distro = "freebsd" THEN CommitTimes(x) ELSE <<>>
           report == Report(ReportRelease(x), x.place.component, x.place.arch, ImportedFrom(x), commit)
<1>1. Reports(sync.read)[k] = report
  BY DEF Reports
<1>2. x \in Index /\ x \in ToSet(sync.read) /\ IndexIsReal(x)
  BY DEF ToSet
<1> HIDE DEF x, commit
<1>3. \A m \in ImportedFrom(x) :
        /\ m.from = x /\ m.at \in Nat /\ m.entry \in ReadEntries
        /\ m.entry \in ToSet(x.entries) /\ IsImported(x, m.entry)
  BY <1>2, ImportsAreListed
<1>4. \A e \in ToSet(x.entries) : IsImported(x, e) => \E m \in ImportedFrom(x) : m.entry = e
  BY ListedAreImports
<1>5. /\ \A row \in Rows(report) : \E first, m \in ImportedFrom(x) :
           /\ row = RowOf(ReportRelease(x), x.place.component, x.place.arch, first, m)
           /\ GroupKey(first.entry) = GroupKey(m.entry)
           /\ profile.distro = "freebsd" =>
                \A n \in ImportedFrom(x) : GroupKey(n.entry) = GroupKey(first.entry)
                                             => first.entry.name <= n.entry.name
      /\ PackagesIn(report) =
           {PackageOf(ReportRelease(x), x.place.component, x.place.arch, m) : m \in ImportedFrom(x)}
  BY <1>3, RowsOfReports
<1>6. report.release = ReportRelease(x) /\ report.component = x.place.component /\ report.arch = x.place.arch
  BY DEF Report
<1>7. CommitsPrecede(report)
  <2>1. CASE profile.distro = "freebsd"
    BY <2>1, <1>2, CommitTimesPrecede DEF IndexIsReal, commit
  <2>2. CASE profile.distro # "freebsd"
    <3>1. commit = <<>>
      BY <2>2 DEF commit
    <3>2. \A members : Group(x.place.arch, members, commit).commit = None
      BY <3>1 DEF Group
    <3>3. \A g \in report.groups : g.commit = None
      BY <3>2 DEF Report
    <3>4. QED  BY <3>3 DEF CommitsPrecede
  <2>3. QED  BY <2>1, <2>2
<1> HIDE DEF report
<1>8. Listed(x) \subseteq PackagesIn(report)
  <2> SUFFICES ASSUME NEW e \in ToSet(x.entries), IsImported(x, e)
               PROVE  [release |-> ReportRelease(x), component |-> x.place.component,
                       arch |-> ReportArch(x, e), name |-> e.name, version |-> e.version]
                        \in PackagesIn(report)
    BY DEF Listed
  <2>1. PICK m \in ImportedFrom(x) : m.entry = e
    BY <1>4
  <2>2. PackageOf(ReportRelease(x), x.place.component, x.place.arch, m) \in PackagesIn(report)
    BY <1>5
  <2>3. QED  BY <2>1, <2>2 DEF PackageOf, ReportArch
<1>9. Brings(report, k)
  BY <1>6, <1>8 DEF Brings, x
<1>10. ASSUME NEW row \in Rows(report) PROVE RowShape(row) /\ InputOf(row)
  <2>1. PICK first \in ImportedFrom(x), m \in ImportedFrom(x) :
          /\ row = RowOf(ReportRelease(x), x.place.component, x.place.arch, first, m)
          /\ GroupKey(first.entry) = GroupKey(m.entry)
          /\ profile.distro = "freebsd" =>
               \A n \in ImportedFrom(x) : GroupKey(n.entry) = GroupKey(first.entry)
                                            => first.entry.name <= n.entry.name
    BY <1>5
  <2>2. RowShape(row)
    BY <2>1 DEF RowShape, RowOf
  <2>3. ASSUME profile.distro = "freebsd" PROVE InputOf(row)
    <3> DEFINE q == x.place
               e == first.entry
    <3>1. PICK mir \in Mirrors[profile.distro] : q \in DOMAIN mir.index /\ x.entries = mir.index[q]
      BY <1>2, <2>3 DEF IndexIsReal
    <3>2. q \in Places /\ q = Place(row.release, row.component, row.arch)
      BY <1>2, <2>1, <2>3 DEF Index, Places, Place, RowOf, ReportRelease
    <3>3. /\ e \in ToSet(mir.index[q]) /\ Matches(e) /\ e.name \in Nat /\ first.from.place = q
      BY <1>3, <2>1, <3>1 DEF IsImported, ReadEntries, Entries, TailsEntries
    <3>4. /\ row.source = e.source /\ row.srcver = e.version /\ row.input = <<q, e.name, row.srcver>>
      BY <2>1, <2>3, <3>3 DEF RowOf
    <3>5. <<row.source, row.srcver, e.name>> \in PackagesOf(mir, q)
      BY <3>3, <3>4 DEF PackagesOf
    <3>6. ASSUME NEW i \in Nat, <<row.source, row.srcver, i>> \in PackagesOf(mir, q)
          PROVE  e.name <= i
      <4>1. PICK f \in ToSet(mir.index[q]) :
              Matches(f) /\ <<row.source, row.srcver, i>> = <<f.source, f.version, f.name>>
        BY <3>6 DEF PackagesOf
      <4>2. IsImported(x, f)
        BY <2>3, <4>1 DEF IsImported
      <4>3. PICK n \in ImportedFrom(x) : n.entry = f
        BY <1>4, <3>1, <4>2
      <4>4. GroupKey(f) = GroupKey(e)
        BY <2>3, <3>4, <4>1 DEF GroupKey
      <4>5. QED  BY <2>1, <2>3, <4>1, <4>3, <4>4
    <3> HIDE DEF q, e
    <3>7. QED  BY <2>3, <3>1, <3>2, <3>3, <3>4, <3>5, <3>6 DEF InputOf
  <2>4. profile.distro # "freebsd" => InputOf(row)
    BY DEF InputOf
  <2>5. QED  BY <2>2, <2>3, <2>4
<1>11. QED  BY <1>1, <1>7, <1>9, <1>10 DEF ReportSound, report, commit

LEMMA ReportsOfDebian ==
  ASSUME profile.distro = "debian", sync.read \in Seq(Index),
         NEW k \in DOMAIN Reports(sync.read)
  PROVE  ReportSound(Reports(sync.read)[k], k)
<1>1. PICK s \in DebianScopes(sync.read), a \in ToSet(profile.archs) : k = <<s, a>>
  BY DEF Reports
<1>2. PICK y \in ToSet(sync.read) : s = <<y.place.release, y.place.component>>
  BY DEF DebianScopes
<1> DEFINE r == y.place.release
           c == y.place.component
           entries == {m \in UNION {ImportedFrom(x) : x \in ToSet(sync.read)} :
                         m.from.place.release = r /\ m.from.place.component = c /\ m.entry.arch = a}
           report == Report(r, c, a, entries, <<>>)
<1>3. Reports(sync.read)[k] = report
  BY <1>1, <1>2 DEF Reports, DebianReport
<1>4. ToSet(sync.read) \subseteq Index
  BY DEF ToSet
<1>5. ASSUME NEW m \in entries
      PROVE  m.at \in Nat /\ m.entry \in ReadEntries
  BY <1>4, ImportsAreListed
<1> HIDE DEF entries
<1>6. /\ \A row \in Rows(report) : \E first, m \in entries :
           /\ row = RowOf(r, c, a, first, m)
           /\ GroupKey(first.entry) = GroupKey(m.entry)
      /\ PackagesIn(report) = {PackageOf(r, c, a, m) : m \in entries}
  <2> HIDE DEF r, c
  <2>1. \A m \in entries : m.at \in Nat /\ m.entry \in ReadEntries
    BY <1>5
  <2>2. QED  BY <2>1, RowsOfReports
<1>7. report.release = r /\ report.component = c /\ report.arch = a
  BY DEF Report
<1>8. CommitsPrecede(report)
  <2>1. \A members : Group(a, members, <<>>).commit = None
    BY DEF Group
  <2>2. \A g \in report.groups : g.commit = None
    BY <2>1 DEF Report
  <2>3. QED  BY <2>2 DEF CommitsPrecede
<1> HIDE DEF report
<1>9. ASSUME NEW x \in ToSet(sync.read), NEW p \in Listed(x), InScope(p, report)
      PROVE  p \in PackagesIn(report)
  <2>1. PICK e \in ToSet(x.entries) :
          /\ IsImported(x, e)
          /\ p = [release |-> ReportRelease(x), component |-> x.place.component,
                  arch |-> ReportArch(x, e), name |-> e.name, version |-> e.version]
    BY DEF Listed
  <2>2. x.place.release = r /\ x.place.component = c /\ e.arch = a
    BY <1>7, <1>9, <2>1 DEF InScope, ReportRelease, ReportArch
  <2>3. PICK m \in ImportedFrom(x) : m.entry = e /\ m.from = x
    BY <2>1, ListedAreImports
  <2>4. m \in entries
    BY <2>2, <2>3 DEF entries
  <2>5. p = PackageOf(r, c, a, m)
    BY <1>7, <1>9, <2>1, <2>3 DEF PackageOf, InScope
  <2>6. QED  BY <1>6, <2>4, <2>5
<1>10. Brings(report, k)
  BY <1>2, <1>7, <1>9 DEF Brings
<1>11. ASSUME NEW row \in Rows(report) PROVE RowShape(row) /\ InputOf(row)
  <2>1. PICK first \in entries, m \in entries :
          row = RowOf(r, c, a, first, m) /\ GroupKey(first.entry) = GroupKey(m.entry)
    BY <1>6
  <2>2. RowShape(row)
    BY <2>1 DEF RowShape, RowOf
  <2>3. row.srcver = SourceVersion(first.entry) /\ row.version = m.entry.version
        /\ row.input = <<row.source, row.srcver, row.arch>>
    BY <2>1 DEF RowOf
  <2>4. SourceVersion(first.entry) = SourceVersion(m.entry)
    BY <2>1 DEF GroupKey
  <2>5. row.srcver[2] = row.version[2]
    BY <2>3, <2>4 DEF SourceVersion
  <2>6. QED  BY <2>2, <2>3, <2>5 DEF InputOf
<1>12. QED  BY <1>3, <1>8, <1>10, <1>11 DEF ReportSound

(* Every package that Debian's indexes list is in the scope of a report.   *)
LEMMA DebianReportsCover ==
  ASSUME profile.distro = "debian", NEW x \in ToSet(sync.read), NEW p \in Listed(x)
  PROVE  \E k \in DOMAIN Reports(sync.read) : InScope(p, Reports(sync.read)[k])
<1>1. PICK e \in ToSet(x.entries) :
        /\ IsImported(x, e)
        /\ p = [release |-> ReportRelease(x), component |-> x.place.component,
                arch |-> ReportArch(x, e), name |-> e.name, version |-> e.version]
  BY DEF Listed
<1> DEFINE k == <<<<x.place.release, x.place.component>>, e.arch>>
<1>2. k \in DOMAIN Reports(sync.read)
  BY <1>1 DEF IsImported, Reports, DebianScopes
<1>3. Reports(sync.read)[k] = DebianReport(sync.read, x.place.release, x.place.component, e.arch)
  BY <1>2 DEF Reports
<1>4. InScope(p, Reports(sync.read)[k])
  BY <1>1, <1>3 DEF DebianReport, Report, InScope, ReportRelease, ReportArch
<1>5. QED  BY <1>2, <1>4
-----------------------------------------------------------------------------
(* The inductive invariant.  What a run has read is listed in reports that *)
(* are still to be submitted, or is seen by now, or was superseded.        *)
Delivered ==
  sync.pc \in {"submit", "done"} =>
    IF profile.distro = "debian"
    THEN \A x \in ToSet(sync.read) : \A p \in Listed(x) :
           \/ p \in SeenIn(catalog)
           \/ \E k \in DOMAIN sync.reports : p \in PackagesIn(sync.reports[k])
    ELSE \A k \in DOMAIN sync.read \ DOMAIN sync.reports :
           /\ \A j \in DOMAIN sync.reports : k < j
           /\ \/ Listed(sync.read[k]) \subseteq SeenIn(catalog)
              \/ \E j \in DOMAIN sync.read : k < j /\ SameReport(sync.read[j], sync.read[k])

SyncInv ==
  /\ profile \in Profiles /\ mirror \in Mirrors[profile.distro]
  /\ SyncShape
  /\ \A x \in ToSet(sync.read) : IndexIsReal(x)
  /\ \A k \in DOMAIN sync.reports : ReportSound(sync.reports[k], k)
  /\ \A row \in catalog : RowShape(row) /\ InputOf(row)
  /\ Delivered

(* A run leaves the profile alone, and with it what it makes of an index.  *)
LEMMA ProfileDecides ==
  ASSUME UNCHANGED profile
  PROVE  /\ \A x : IndexIsReal(x)' <=> IndexIsReal(x)
         /\ \A x : Listed(x)' = Listed(x)
         /\ \A x, y : SameReport(x, y)' <=> SameReport(x, y)
         /\ \A row : InputOf(row)' <=> InputOf(row)
<1>1. ASSUME NEW x PROVE IndexIsReal(x)' <=> IndexIsReal(x)
  BY DEF IndexIsReal, HashesOf, Matches, ByMaintainer
<1>2. ASSUME NEW x PROVE Listed(x)' = Listed(x)
  BY DEF Listed, IsImported, Matches, ByMaintainer, HasSource, ReportRelease, ReportArch
<1>3. ASSUME NEW x, NEW y PROVE SameReport(x, y)' <=> SameReport(x, y)
  BY DEF SameReport, ReportRelease
<1>4. ASSUME NEW row PROVE InputOf(row)' <=> InputOf(row)
  BY DEF InputOf, PackagesOf, Matches, ByMaintainer
<1>5. QED  BY <1>1, <1>2, <1>3, <1>4

LEMMA SoundnessStays ==
  ASSUME UNCHANGED profile, sync.read' = sync.read, NEW report, NEW k
  PROVE  ReportSound(report, k)' <=> ReportSound(report, k)
<1>1. \A row : InputOf(row)' <=> InputOf(row)
  BY ProfileDecides
<1>2. \A x : Listed(x)' = Listed(x)
  BY ProfileDecides
<1>3. Brings(report, k)' <=> Brings(report, k)
  BY <1>2 DEF Brings, ReportRelease
<1>4. QED  BY <1>1, <1>3 DEF ReportSound

-----------------------------------------------------------------------------
(* What the daemon does with a report: its packages are seen, and only     *)
(* those of its scope that it does not bring may go unseen.                *)
LEMMA ImportEffects ==
  ASSUME NEW report, Import(report),
         \A row \in catalog : RowShape(row),
         \A row \in Rows(report) : RowShape(row)
  PROVE  /\ PackagesIn(report) \subseteq SeenIn(catalog')
         /\ \A p \in SeenIn(catalog) :
              \/ p \in SeenIn(catalog')
              \/ InScope(p, report) /\ p \notin PackagesIn(report)
         /\ \A row \in catalog' :
              \/ row \in Rows(report)
              \/ \E old \in catalog : row = [old EXCEPT !.seen = row.seen] /\ row.seen \in BOOLEAN
<1> DEFINE kept == {old \in catalog : ~\E new \in Rows(report) : SameRow(old, new)}
           hidden(row) == [row EXCEPT !.seen = @ /\ ~InScope(row, report)]
<1>1. catalog' = Rows(report) \cup {hidden(row) : row \in kept}
  BY DEF Import
<1>2. \A row \in Rows(report) : row.seen
  BY DEF Rows, NewRow
<1>3. PackagesIn(report) \subseteq SeenIn(catalog')
  BY <1>1, <1>2 DEF PackagesIn, SeenIn
<1>4. ASSUME NEW row \in catalog
      PROVE  /\ hidden(row).seen = (row.seen /\ ~InScope(row, report))
             /\ hidden(row) = [row EXCEPT !.seen = hidden(row).seen]
             /\ Package(hidden(row)) = Package(row)
             /\ hidden(row).seen \in BOOLEAN
  <2>1. RowShape(row)
    OBVIOUS
  <2>2. QED  BY <2>1 DEF RowShape, Package
<1>5. ASSUME NEW row \in catalog, NEW new \in Rows(report), SameRow(row, new)
      PROVE  Package(row) = Package(new)
  <2>1. RowShape(row)
    OBVIOUS
  <2>2. [row EXCEPT !.url = new.url, !.seen = new.seen] = new
    BY <1>5 DEF SameRow
  <2>3. Package([row EXCEPT !.url = new.url, !.seen = new.seen]) = Package(row)
    BY <2>1 DEF RowShape, Package
  <2>4. QED  BY <2>2, <2>3
<1>6. ASSUME NEW p \in SeenIn(catalog), p \notin SeenIn(catalog')
      PROVE  InScope(p, report) /\ p \notin PackagesIn(report)
  <2>1. PICK row \in catalog : row.seen /\ p = Package(row)
    BY DEF SeenIn
  <2>2. p \notin PackagesIn(report)
    BY <1>3, <1>6
  <2>3. row \in kept
    BY <1>5, <2>1, <2>2 DEF PackagesIn
  <2>4. hidden(row) \in catalog'
    BY <1>1, <2>3
  <2>5. ~hidden(row).seen
    BY <1>4, <1>6, <2>1, <2>4 DEF SeenIn
  <2>6. InScope(row, report)
    BY <1>4, <2>1, <2>5
  <2>7. QED  BY <2>1, <2>2, <2>6 DEF InScope, Package
<1> HIDE DEF hidden
<1>7. QED  BY <1>1, <1>3, <1>4, <1>6

(* The rows of the catalog are like before, but for seen. *)
LEMMA RowsStay ==
  ASSUME NEW row, NEW old, RowShape(old), InputOf(old), row.seen \in BOOLEAN,
         row = [old EXCEPT !.seen = row.seen]
  PROVE  RowShape(row) /\ InputOf(row)
<1>1. RowShape(row)
  BY DEF RowShape
<1>2. /\ row.input = old.input /\ row.source = old.source /\ row.srcver = old.srcver
      /\ row.version = old.version /\ row.release = old.release
      /\ row.component = old.component /\ row.arch = old.arch
  BY DEF RowShape
<1>3. InputOf(row)
  BY <1>2 DEF InputOf
<1>4. QED  BY <1>1, <1>3
-----------------------------------------------------------------------------
LEMMA SyncInvInit == SchedulersInit => SyncInv
<1> SUFFICES ASSUME SchedulersInit PROVE SyncInv
  OBVIOUS
<1>1. profile \in Profiles /\ mirror \in Mirrors[profile.distro] /\ catalog = {}
  BY DEF SchedulersInit
<1>2. /\ sync.pc = "idle" /\ sync.read = <<>> /\ sync.reports = <<>> /\ sync.sources = {}
      /\ sync = [pc |-> sync.pc, step |-> sync.step, sources |-> sync.sources,
                 read |-> sync.read, reports |-> sync.reports]
  BY DEF SchedulersInit, IdleSync
<1>3. SyncShape
  BY <1>2 DEF SyncShape
<1>4. ToSet(sync.read) = {} /\ DOMAIN sync.reports = {}
  BY <1>2 DEF ToSet
<1>5. QED  BY <1>1, <1>2, <1>3, <1>4 DEF SyncInv, Delivered

(* Nothing that the invariant speaks of is changed but the state's shape.  *)
LEMMA SameReading ==
  ASSUME SyncInv, UNCHANGED <<profile, catalog>>, mirror' \in Mirrors[profile.distro],
         SyncShape', sync.read' = sync.read, sync.reports' = sync.reports, sync.pc' = sync.pc
  PROVE  SyncInv'
<1>1. /\ \A x : IndexIsReal(x)' <=> IndexIsReal(x)
      /\ \A x : Listed(x)' = Listed(x)
      /\ \A x, y : SameReport(x, y)' <=> SameReport(x, y)
      /\ \A row : InputOf(row)' <=> InputOf(row)
  BY ProfileDecides
<1>2. \A report, k : ReportSound(report, k)' <=> ReportSound(report, k)
  BY SoundnessStays
<1>3. Delivered'
  BY <1>1 DEF SyncInv, Delivered, SeenIn
<1>4. QED  BY <1>1, <1>2, <1>3 DEF SyncInv, RowShape

(* A run is begun, or given up: nothing is read, and nothing reported.     *)
LEMMA ResetKeepsInv ==
  ASSUME SyncInv, UNCHANGED <<profile, mirror, catalog>>, sync.pc' \in {"idle", "fetch"},
         sync' = [IdleSync EXCEPT !.pc = sync.pc']
  PROVE  SyncInv'
<1>1. \A row : InputOf(row)' <=> InputOf(row)
  BY ProfileDecides
<1>2. /\ sync.read' = <<>> /\ sync.reports' = <<>> /\ sync.sources' = {}
      /\ sync' = [pc |-> sync.pc', step |-> sync.step', sources |-> sync.sources',
                  read |-> sync.read', reports |-> sync.reports']
  BY DEF IdleSync
<1>3. SyncShape'
  BY <1>2 DEF SyncShape
<1>4. ToSet(sync.read') = {} /\ DOMAIN sync.reports' = {}
  BY <1>2 DEF ToSet
<1>5. QED  BY <1>1, <1>2, <1>3, <1>4 DEF SyncInv, Delivered, RowShape

LEMMA StartSyncKeepsInv == SyncInv /\ StartSync => SyncInv'
BY ResetKeepsInv DEF StartSync, Become, IdleSync

LEMMA AbortSyncKeepsInv == SyncInv /\ AbortSync => SyncInv'
<1> SUFFICES ASSUME SyncInv, AbortSync PROVE SyncInv'
  OBVIOUS
<1>1. sync' = IdleSync /\ UNCHANGED <<profile, mirror, catalog>>
  BY DEF AbortSync, Become
<1>2. sync.pc' = "idle" /\ sync' = [IdleSync EXCEPT !.pc = sync.pc']
  BY <1>1 DEF IdleSync
<1>3. QED  BY <1>1, <1>2, ResetKeepsInv

LEMMA SkipIndexKeepsInv == SyncInv /\ SkipIndex => SyncInv'
<1> SUFFICES ASSUME SyncInv, SkipIndex PROVE SyncInv'
  OBVIOUS
<1>1. SyncShape /\ mirror \in Mirrors[profile.distro]
  BY DEF SyncInv
<1>2. sync' = [sync EXCEPT !.step = @ + 1] /\ UNCHANGED <<profile, mirror, catalog>>
  BY DEF SkipIndex, Become
<1>3. SyncShape'
  BY <1>1, <1>2 DEF SyncShape
<1>4. sync.read' = sync.read /\ sync.reports' = sync.reports /\ sync.pc' = sync.pc
  BY <1>1, <1>2 DEF SyncShape
<1>5. QED  BY <1>1, <1>2, <1>3, <1>4, SameReading

LEMMA ReadSourcesKeepsInv == SyncInv /\ ReadSources => SyncInv'
<1> SUFFICES ASSUME SyncInv, ReadSources PROVE SyncInv'
  OBVIOUS
<1>1. SyncShape /\ mirror \in Mirrors[profile.distro] /\ profile \in Profiles
  BY DEF SyncInv
<1> DEFINE p == Place(Wanted.release, SourceComponent[Wanted.component], "source")
           new == {[release |-> p.release, name |-> s.name, version |-> s.version]
                     : s \in mirror.sources[p]}
<1>2. /\ p \in DOMAIN mirror.sources
      /\ sync' = [sync EXCEPT !.step = @ + 1, !.sources = @ \cup new]
      /\ UNCHANGED <<profile, mirror, catalog>>
  BY DEF ReadSources, Become
<1>3. p \in Places /\ mirror.sources[p] \subseteq SourceEntries
  BY <1>1, <1>2, SchedulersAssumption
<1>4. p.release \in STRING \cup {None}
  BY <1>3 DEF Places
<1> HIDE DEF p
<1>5. new \subseteq [release : STRING \cup {None}, name : STRING, version : Nat]
  BY <1>3, <1>4 DEF SourceEntries
<1> HIDE DEF new
<1>6. SyncShape'
  BY <1>1, <1>2, <1>5 DEF SyncShape
<1>7. sync.read' = sync.read /\ sync.reports' = sync.reports /\ sync.pc' = sync.pc
  BY <1>1, <1>2 DEF SyncShape
<1>8. QED  BY <1>1, <1>2, <1>6, <1>7, SameReading

LEMMA ImagesAreEntries ==
  ASSUME NEW versions, Head(versions) \in Nat, Wanted.arch \in STRING
  PROVE  Images(versions) \in Seq(ReadEntries)
<1> DEFINE t == Head(versions)
           w == Wanted.arch
           image(k) == [name |-> k, version |-> <<t, 0>>, arch |-> w, source |-> "tails",
                        srcver |-> t, by |-> "", hash |-> None, built |-> None]
<1>1. Images(versions) = <<image(1), image(2)>>
  BY DEF Images
<1>2. t \in Nat /\ w \in STRING
  OBVIOUS
<1> HIDE DEF t, w
<1>3. <<t, 0>> \in Nat \X Nat
  BY <1>2
<1>4. \A k \in Nat : image(k) \in ReadEntries
  BY <1>2, <1>3 DEF ReadEntries, Entries, TailsEntries
<1> HIDE DEF image
<1>5. image(1) \in ReadEntries /\ image(2) \in ReadEntries
  BY <1>4
<1>6. QED  BY <1>1, <1>5

LEMMA ReadIndexKeepsInv ==
  ASSUME SyncInv, NEW github \in GithubAnswers, ReadIndex(github)
  PROVE  SyncInv'
<1> DEFINE index == mirror.index[Wanted]
           entries == IF profile.distro = "tails" THEN Images(index) ELSE index
           x == [place |-> Wanted, entries |-> entries, sources |-> sync.sources,
                 github |-> [h \in HashesOf(entries) |-> github[h]]]
<1>1. /\ SyncShape /\ mirror \in Mirrors[profile.distro] /\ profile \in Profiles
      /\ sync.pc = "fetch"
  BY DEF SyncInv, ReadIndex, Fetching
<1>2. /\ Wanted \in DOMAIN mirror.index
      /\ profile.distro = "tails" => index # <<>>
      /\ sync' = [sync EXCEPT !.step = @ + 1, !.read = Append(@, x)]
      /\ UNCHANGED <<profile, mirror, catalog>>
  BY DEF ReadIndex, Become
<1>3. Wanted \in Places /\ index \in Seq(IF profile.distro = "tails" THEN Nat ELSE Entries)
  BY <1>1, <1>2, SchedulersAssumption
<1>4. entries \in Seq(ReadEntries)
  <2>1. CASE profile.distro = "tails"
    <3>1. Head(index) \in Nat
      BY <1>2, <1>3, <2>1
    <3>2. Wanted.arch \in STRING
      BY <1>3 DEF Places
    <3> HIDE DEF index
    <3>3. QED  BY <2>1, <3>1, <3>2, ImagesAreEntries
  <2>2. CASE profile.distro # "tails"
    BY <1>3, <2>2 DEF ReadEntries
  <2>3. QED  BY <2>1, <2>2
<1>5. profile.distro = "freebsd" => entries = mirror.index[Wanted]
  OBVIOUS
<1> HIDE DEF entries, index
<1>6. HashesOf(entries) \subseteq Hashes
  <2>1. ToSet(entries) \subseteq ReadEntries
    BY <1>4 DEF ToSet
  <2>2. \A e \in ReadEntries : e.hash \in Hashes \cup {None}
    BY DEF ReadEntries, Entries, TailsEntries
  <2>3. QED  BY <2>1, <2>2 DEF HashesOf
<1>7. x.github \in [HashesOf(entries) -> Nat \cup {None}]
  <2>1. github \in [Hashes -> Nat \cup {None}]
    BY SchedulersAssumption
  <2>2. QED  BY <1>6, <2>1
<1>8. x \in Index
  <2>1. sync.sources \subseteq [release : STRING \cup {None}, name : STRING, version : Nat]
    BY <1>1 DEF SyncShape
  <2>2. x.github \in UNION {[H -> Nat \cup {None}] : H \in SUBSET Hashes}
    BY <1>6, <1>7
  <2> DEFINE asked == x.github
  <2>3. x = [place |-> Wanted, entries |-> entries, sources |-> sync.sources, github |-> asked]
    OBVIOUS
  <2> HIDE DEF asked, x
  <2>4. asked \in UNION {[H -> Nat \cup {None}] : H \in SUBSET Hashes}
    BY <2>2 DEF asked
  <2>5. QED  BY <1>3, <1>4, <2>1, <2>3, <2>4 DEF Index
<1>9. x.place = Wanted /\ x.entries = entries /\ DOMAIN x.github = HashesOf(x.entries)
  OBVIOUS
<1> HIDE DEF x
<1>10. IndexIsReal(x)
  BY <1>1, <1>2, <1>5, <1>9 DEF IndexIsReal
<1>11. sync.read' = Append(sync.read, x) /\ sync.reports' = sync.reports /\ sync.pc' = "fetch"
       /\ DOMAIN sync.reports' = {}
  BY <1>1, <1>2 DEF SyncShape
<1>12. SyncShape'
  <2>1. sync.read' \in Seq(Index)
    BY <1>1, <1>8, <1>11 DEF SyncShape
  <2>2. sync.sources' = sync.sources
    BY <1>1, <1>2 DEF SyncShape
  <2>3. sync' = [pc |-> sync.pc', step |-> sync.step', sources |-> sync.sources',
                 read |-> sync.read', reports |-> sync.reports']
    BY <1>1, <1>2 DEF SyncShape
  <2>4. QED  BY <1>1, <1>11, <2>1, <2>2, <2>3 DEF SyncShape
<1>13. \A y \in ToSet(sync.read') : y \in ToSet(sync.read) \/ y = x
  BY <1>1, <1>8, <1>11 DEF SyncShape, ToSet
<1>14. /\ \A y : IndexIsReal(y)' <=> IndexIsReal(y)
       /\ \A row : InputOf(row)' <=> InputOf(row)
  BY <1>2, ProfileDecides
<1>15. QED  BY <1>1, <1>2, <1>10, <1>11, <1>12, <1>13, <1>14 DEF SyncInv, RowShape, Delivered
(* The run ends its reading: every package that it read is in a report.    *)
LEMMA EndFetchKeepsInv == SyncInv /\ EndFetch => SyncInv'
<1> SUFFICES ASSUME SyncInv, EndFetch PROVE SyncInv'
  OBVIOUS
<1> DEFINE reports == Reports(sync.read)
           pc == IF DOMAIN reports = {} THEN "done" ELSE "submit"
<1>1. /\ SyncShape /\ mirror \in Mirrors[profile.distro] /\ profile \in Profiles
      /\ sync.read \in Seq(Index)
      /\ \A x \in ToSet(sync.read) : IndexIsReal(x)
  BY DEF SyncInv, SyncShape
<1>2. sync' = [sync EXCEPT !.pc = pc, !.reports = reports] /\ UNCHANGED <<profile, mirror, catalog>>
  BY DEF EndFetch, Become
<1>3. \A k \in DOMAIN reports : ReportSound(reports[k], k)
  <2>1. CASE profile.distro = "debian"
    BY <1>1, <2>1, ReportsOfDebian
  <2>2. CASE profile.distro # "debian"
    <3>1. DOMAIN reports = DOMAIN sync.read
      BY <2>2 DEF Reports
    <3>2. QED  BY <1>1, <2>2, <3>1, ReportsOfIndexes
  <2>3. QED  BY <2>1, <2>2
<1>4. IF profile.distro = "debian"
      THEN \A x \in ToSet(sync.read) : \A p \in Listed(x) :
             \E k \in DOMAIN reports : p \in PackagesIn(reports[k])
      ELSE DOMAIN reports = DOMAIN sync.read
  <2>1. CASE profile.distro = "debian"
    <3> SUFFICES ASSUME NEW x \in ToSet(sync.read), NEW p \in Listed(x)
                 PROVE  \E k \in DOMAIN reports : p \in PackagesIn(reports[k])
      BY <2>1
    <3>1. PICK k \in DOMAIN reports : InScope(p, reports[k])
      BY <2>1, DebianReportsCover
    <3>2. Brings(reports[k], k)
      BY <1>3 DEF ReportSound
    <3>3. QED  BY <2>1, <3>1, <3>2 DEF Brings
  <2>2. CASE profile.distro # "debian"
    BY <2>2 DEF Reports
  <2>3. QED  BY <2>1, <2>2
<1> HIDE DEF reports
<1>5. /\ sync.read' = sync.read /\ sync.reports' = reports /\ sync.pc' = pc
      /\ sync.sources' = sync.sources
      /\ sync' = [pc |-> sync.pc', step |-> sync.step', sources |-> sync.sources',
                  read |-> sync.read', reports |-> sync.reports']
  BY <1>1, <1>2 DEF SyncShape
<1>6. SyncShape'
  BY <1>1, <1>5 DEF SyncShape
<1>7. /\ \A x : IndexIsReal(x)' <=> IndexIsReal(x)
      /\ \A x : Listed(x)' = Listed(x)
      /\ \A row : InputOf(row)' <=> InputOf(row)
  BY <1>2, ProfileDecides
<1>8. \A report, k : ReportSound(report, k)' <=> ReportSound(report, k)
  BY <1>2, <1>5, SoundnessStays
<1>9. Delivered'
  <2>1. CASE profile.distro = "debian"
    BY <1>2, <1>4, <1>5, <1>7, <2>1 DEF Delivered
  <2>2. CASE profile.distro # "debian"
    BY <1>2, <1>4, <1>5, <2>2 DEF Delivered
  <2>3. QED  BY <2>1, <2>2
<1>10. QED  BY <1>1, <1>2, <1>3, <1>5, <1>6, <1>7, <1>8, <1>9 DEF SyncInv, RowShape

(* What it takes for a report to be the next one.                          *)
LEMMA SubmitParts ==
  ASSUME SyncInv, NEW k \in DOMAIN sync.reports, SubmitReport(k)
  PROVE  /\ UNCHANGED <<profile, mirror>> /\ sync.read' = sync.read /\ sync.pc = "submit"
         /\ DOMAIN sync.reports' = DOMAIN sync.reports \ {k}
         /\ \A j \in DOMAIN sync.reports' : sync.reports'[j] = sync.reports[j]
         /\ sync.pc' = (IF DOMAIN sync.reports' = {} THEN "done" ELSE "submit")
         /\ SyncShape'
         /\ ReportSound(sync.reports[k], k)
         /\ profile.distro # "debian" => \A j \in DOMAIN sync.reports : k <= j
         /\ PackagesIn(sync.reports[k]) \subseteq SeenIn(catalog')
         /\ \A p \in SeenIn(catalog) :
              \/ p \in SeenIn(catalog')
              \/ InScope(p, sync.reports[k]) /\ p \notin PackagesIn(sync.reports[k])
         /\ \A row \in catalog' : RowShape(row) /\ InputOf(row)
<1> DEFINE rest == Restrict(sync.reports, DOMAIN sync.reports \ {k})
           report == sync.reports[k]
<1>1. /\ sync' = [sync EXCEPT !.reports = rest, !.pc = IF DOMAIN rest = {} THEN "done" ELSE @]
      /\ UNCHANGED <<profile, mirror>> /\ sync.pc = "submit" /\ Import(report)
      /\ profile.distro # "debian" => \A j \in DOMAIN sync.reports : k <= j
  BY DEF SubmitReport, Become
<1>2. /\ DOMAIN rest = DOMAIN sync.reports \ {k}
      /\ \A j \in DOMAIN rest : rest[j] = sync.reports[j]
  BY DEF Restrict
<1>3. /\ SyncShape /\ ReportSound(report, k)
      /\ \A row \in catalog : RowShape(row) /\ InputOf(row)
  BY DEF SyncInv
<1> HIDE DEF rest, report
<1>4. /\ sync.read' = sync.read /\ sync.reports' = rest /\ sync.sources' = sync.sources
      /\ sync.pc' = (IF DOMAIN rest = {} THEN "done" ELSE "submit")
      /\ sync' = [pc |-> sync.pc', step |-> sync.step', sources |-> sync.sources',
                  read |-> sync.read', reports |-> sync.reports']
  BY <1>1, <1>3 DEF SyncShape
<1>5. SyncShape'
  BY <1>3, <1>4 DEF SyncShape
<1>6. \A row \in Rows(report) : RowShape(row) /\ InputOf(row)
  BY <1>3 DEF ReportSound
<1>7. /\ PackagesIn(report) \subseteq SeenIn(catalog')
      /\ \A p \in SeenIn(catalog) :
           \/ p \in SeenIn(catalog')
           \/ InScope(p, report) /\ p \notin PackagesIn(report)
      /\ \A row \in catalog' :
           \/ row \in Rows(report)
           \/ \E old \in catalog : row = [old EXCEPT !.seen = row.seen] /\ row.seen \in BOOLEAN
  BY <1>1, <1>3, <1>6, ImportEffects
<1>8. \A row \in catalog' : RowShape(row) /\ InputOf(row)
  BY <1>3, <1>6, <1>7, RowsStay
<1>9. QED  BY <1>1, <1>2, <1>3, <1>4, <1>5, <1>7, <1>8 DEF report

LEMMA SubmitKeepsInv ==
  ASSUME SyncInv, NEW k \in DOMAIN sync.reports, SubmitReport(k)
  PROVE  SyncInv'
<1> DEFINE report == sync.reports[k]
<1>1. /\ UNCHANGED <<profile, mirror>> /\ sync.read' = sync.read /\ sync.pc = "submit"
      /\ DOMAIN sync.reports' = DOMAIN sync.reports \ {k}
      /\ \A j \in DOMAIN sync.reports' : sync.reports'[j] = sync.reports[j]
      /\ sync.pc' = (IF DOMAIN sync.reports' = {} THEN "done" ELSE "submit")
      /\ SyncShape'
      /\ ReportSound(report, k)
      /\ profile.distro # "debian" => \A j \in DOMAIN sync.reports : k <= j
      /\ PackagesIn(report) \subseteq SeenIn(catalog')
      /\ \A p \in SeenIn(catalog) :
           p \in SeenIn(catalog') \/ (InScope(p, report) /\ p \notin PackagesIn(report))
      /\ \A row \in catalog' : RowShape(row) /\ InputOf(row)
  BY SubmitParts
<1>2. /\ \A x : IndexIsReal(x)' <=> IndexIsReal(x)
      /\ \A x : Listed(x)' = Listed(x)
      /\ \A x, y : SameReport(x, y)' <=> SameReport(x, y)
      /\ \A row : InputOf(row)' <=> InputOf(row)
  BY <1>1, ProfileDecides
<1>3. \A r, j : ReportSound(r, j)' <=> ReportSound(r, j)
  BY <1>1, SoundnessStays
<1>4. Delivered
  BY DEF SyncInv
<1> Brings(report, k)
  BY <1>1 DEF ReportSound
<1>5. Delivered'
  <2>1. CASE profile.distro = "debian"
    <3> SUFFICES ASSUME NEW x \in ToSet(sync.read), NEW p \in Listed(x)
                 PROVE  \/ p \in SeenIn(catalog')
                        \/ \E j \in DOMAIN sync.reports' : p \in PackagesIn(sync.reports'[j])
      BY <1>1, <1>2, <2>1 DEF Delivered, SeenIn
    <3>1. InScope(p, report) => p \in PackagesIn(report)
      BY <1>1, <2>1 DEF Brings
    <3>2. CASE p \in SeenIn(catalog)
      BY <1>1, <3>1, <3>2
    <3>3. CASE \E j \in DOMAIN sync.reports : p \in PackagesIn(sync.reports[j])
      BY <1>1, <3>3
    <3>4. QED  BY <1>1, <1>4, <2>1, <3>2, <3>3 DEF Delivered
  <2>2. CASE profile.distro # "debian"
    <3> SUFFICES ASSUME NEW i \in DOMAIN sync.read \ DOMAIN sync.reports'
                 PROVE  /\ \A j \in DOMAIN sync.reports' : i < j
                        /\ \/ Listed(sync.read[i]) \subseteq SeenIn(catalog')
                           \/ \E j \in DOMAIN sync.read :
                                i < j /\ SameReport(sync.read[j], sync.read[i])
      BY <1>1, <1>2, <2>2 DEF Delivered, SeenIn
    <3>1. /\ k \in DOMAIN sync.read
          /\ report.release = ReportRelease(sync.read[k])
          /\ report.component = sync.read[k].place.component
          /\ report.arch = sync.read[k].place.arch
          /\ Listed(sync.read[k]) \subseteq PackagesIn(report)
      BY <1>1, <2>2 DEF Brings
    <3>2. DOMAIN sync.read \subseteq Nat
      BY DEF SyncInv, SyncShape
    <3>3. CASE i = k
      <4>1. \A j \in DOMAIN sync.reports : k <= j
        BY <1>1, <2>2
      <4>2. DOMAIN sync.reports \subseteq Nat
        BY <2>2, <3>2 DEF SyncInv, ReportSound, Brings
      <4>3. QED  BY <1>1, <3>1, <3>3, <4>1, <4>2
    <3>4. CASE i \in DOMAIN sync.read \ DOMAIN sync.reports
      <4>1. \A j \in DOMAIN sync.reports : i < j
        BY <1>1, <1>4, <2>2, <3>4 DEF Delivered
      <4>2. ASSUME NEW p \in Listed(sync.read[i]), p \in SeenIn(catalog), p \notin SeenIn(catalog')
            PROVE  SameReport(sync.read[k], sync.read[i])
        <5>1. InScope(p, report)
          BY <1>1, <4>2
        <5>2. /\ p.release = ReportRelease(sync.read[i])
              /\ p.component = sync.read[i].place.component
              /\ p.arch = sync.read[i].place.arch
          BY <2>2 DEF Listed, ReportArch
        <5>3. QED  BY <2>2, <3>1, <5>1, <5>2 DEF InScope, SameReport
      <4>3. QED  BY <1>1, <1>4, <2>2, <3>1, <3>4, <4>1, <4>2 DEF Delivered
    <3>5. QED  BY <1>1, <3>3, <3>4
  <2>3. QED  BY <2>1, <2>2
<1>6. \A x \in ToSet(sync.read) : IndexIsReal(x)
  BY DEF SyncInv
<1>7. \A j \in DOMAIN sync.reports' : ReportSound(sync.reports'[j], j)
  BY <1>1 DEF SyncInv
<1>8. profile \in Profiles /\ mirror \in Mirrors[profile.distro]
  BY DEF SyncInv
<1>9. QED  BY <1>1, <1>2, <1>3, <1>5, <1>6, <1>7, <1>8 DEF SyncInv, RowShape
-----------------------------------------------------------------------------
(* The mirror may change at any time: what was read does not change.       *)
LEMMA MirrorChangeKeepsInv == SyncInv /\ MirrorChange => SyncInv'
<1> SUFFICES ASSUME SyncInv, MirrorChange PROVE SyncInv'
  OBVIOUS
<1>1. UNCHANGED <<profile, sync, catalog>> /\ mirror' \in Mirrors[profile.distro]
  BY DEF MirrorChange
<1>2. SyncShape'
  BY <1>1 DEF SyncInv, SyncShape
<1>3. QED  BY <1>1, <1>2, SameReading

LEMMA SyncInvStep == SyncInv /\ [SchedulersNext]_syncVars => SyncInv'
<1> SUFFICES ASSUME SyncInv, [SchedulersNext]_syncVars PROVE SyncInv'
  OBVIOUS
<1>1. CASE StartSync
  BY <1>1, StartSyncKeepsInv
<1>2. CASE ReadSources
  BY <1>2, ReadSourcesKeepsInv
<1>3. CASE \E github \in GithubAnswers : ReadIndex(github)
  BY <1>3, ReadIndexKeepsInv
<1>4. CASE SkipIndex
  BY <1>4, SkipIndexKeepsInv
<1>5. CASE EndFetch
  BY <1>5, EndFetchKeepsInv
<1>6. CASE AbortSync
  BY <1>6, AbortSyncKeepsInv
<1>7. CASE \E k \in DOMAIN sync.reports : SubmitReport(k)
  BY <1>7, SubmitKeepsInv
<1>8. CASE MirrorChange
  BY <1>8, MirrorChangeKeepsInv
<1>9. CASE UNCHANGED syncVars
  <2>1. UNCHANGED <<profile, mirror, sync, catalog>>
    BY <1>9 DEF syncVars
  <2>2. mirror' \in Mirrors[profile.distro] /\ SyncShape'
    BY <2>1 DEF SyncInv, SyncShape
  <2>3. QED  BY <2>1, <2>2, SameReading
<1>10. QED
  BY <1>1, <1>2, <1>3, <1>4, <1>5, <1>6, <1>7, <1>8, <1>9 DEF SchedulersNext, SyncStep

LEMMA SyncInvHolds == SchedulersSpec => []SyncInv
BY SyncInvInit, SyncInvStep, PTL DEF SchedulersSpec

(* SyncInv is what the runs of rebuildctl promise.                         *)
LEMMA PromisesKept == SyncInv => ListedIsSeen /\ OneInput /\ BuildsAreNotMixed /\ CommitPrecedesBuild
<1> SUFFICES ASSUME SyncInv PROVE ListedIsSeen /\ OneInput /\ BuildsAreNotMixed /\ CommitPrecedesBuild
  OBVIOUS
<1>1. ListedIsSeen
  <2> SUFFICES ASSUME sync.pc = "done", NEW k \in DOMAIN sync.read
               PROVE  \/ Listed(sync.read[k]) \subseteq SeenIn(catalog)
                      \/ \E j \in DOMAIN sync.read : k < j /\ SameReport(sync.read[j], sync.read[k])
    BY DEF ListedIsSeen
  <2>1. DOMAIN sync.reports = {} /\ Delivered
    BY DEF SyncInv, SyncShape
  <2>2. sync.read[k] \in ToSet(sync.read)
    BY DEF ToSet
  <2>3. QED  BY <2>1, <2>2 DEF Delivered
<1>2. ASSUME profile.distro = "debian" \/ (profile.distro = "freebsd" /\ SamePackages),
             NEW a \in catalog, NEW b \in catalog,
             <<a.release, a.component, a.arch>> = <<b.release, b.component, b.arch>>,
             <<a.source, a.srcver>> = <<b.source, b.srcver>>
      PROVE  a.input = b.input
  <2>1. InputOf(a) /\ InputOf(b)
    BY DEF SyncInv
  <2>2. CASE profile.distro = "debian"
    BY <1>2, <2>1, <2>2 DEF InputOf
  <2>3. CASE profile.distro = "freebsd" /\ SamePackages
    <3> DEFINE q == Place(a.release, a.component, a.arch)
    <3>1. q = Place(b.release, b.component, b.arch)
      BY <1>2
    <3>2. PICK m \in Mirrors[profile.distro], i \in Nat :
            /\ q \in DOMAIN m.index
            /\ a.input = <<q, i, a.srcver>>
            /\ <<a.source, a.srcver, i>> \in PackagesOf(m, q)
            /\ \A l \in Nat : <<a.source, a.srcver, l>> \in PackagesOf(m, q) => i <= l
      BY <2>1, <2>3 DEF InputOf
    <3>3. PICK n \in Mirrors[profile.distro], j \in Nat :
            /\ q \in DOMAIN n.index
            /\ b.input = <<q, j, a.srcver>>
            /\ <<a.source, a.srcver, j>> \in PackagesOf(n, q)
            /\ \A l \in Nat : <<a.source, a.srcver, l>> \in PackagesOf(n, q) => j <= l
      BY <1>2, <2>1, <2>3, <3>1 DEF InputOf
    <3> HIDE DEF q
    <3>4. <<a.source, a.srcver, i>> \in PackagesOf(n, q)
      BY <2>3, <3>2, <3>3 DEF SamePackages
    <3>5. <<a.source, a.srcver, j>> \in PackagesOf(m, q)
      BY <2>3, <3>2, <3>3 DEF SamePackages
    <3>6. i = j
      BY <3>2, <3>3, <3>4, <3>5
    <3>7. QED  BY <3>2, <3>3, <3>6
  <2>4. QED  BY <1>2, <2>2, <2>3
<1>3. OneInput
  BY <1>2 DEF OneInput
<1>4. BuildsAreNotMixed
  BY DEF BuildsAreNotMixed, SyncInv, InputOf
<1>5. CommitPrecedesBuild
  BY DEF CommitPrecedesBuild, SyncInv, ReportSound, CommitsPrecede
<1>6. QED  BY <1>1, <1>3, <1>4, <1>5

(* When a run ends, all that it read is seen by the daemon, or was         *)
(* superseded by a later index of the same report.                         *)
THEOREM SyncsEndSeen == SchedulersSpec => []ListedIsSeen
BY SyncInvHolds, PromisesKept, PTL

(* The versions of a source keep their build input on Debian and FreeBSD.  *)
THEOREM InputsAreKept == SchedulersSpec => []OneInput
BY SyncInvHolds, PromisesKept, PTL

(* Binary-only rebuilds are not verified against the builds of others.     *)
THEOREM RebuildsAreApart == SchedulersSpec => []BuildsAreNotMixed
BY SyncInvHolds, PromisesKept, PTL

(* FreeBSD's commits are never reported to be younger than their packages. *)
THEOREM CommitsAreNoYounger == SchedulersSpec => []CommitPrecedesBuild
BY SyncInvHolds, PromisesKept, PTL

(* A package goes unseen only by a run that read its index without it.     *)
LEMMA HiddenIfUnlisted ==
  ASSUME SyncInv, [SchedulersNext]_syncVars, NEW p \in SeenIn(catalog) \ SeenIn(catalog')
  PROVE  LET indexes == {x \in ToSet(sync.read) : Fills(x, p)}
             without == {x \in indexes : p \notin Listed(x)}
         IN without # {} /\ (profile.distro = "debian" => without = indexes)
<1>1. catalog' # catalog
  BY DEF SeenIn
<1>2. PICK k \in DOMAIN sync.reports : SubmitReport(k)
  BY <1>1 DEF SchedulersNext, SyncStep, StartSync, ReadSources, ReadIndex, SkipIndex, EndFetch,
              AbortSync, MirrorChange, syncVars
<1> DEFINE report == sync.reports[k]
<1>3. InScope(p, report) /\ p \notin PackagesIn(report) /\ ReportSound(report, k)
  BY <1>2, SubmitParts
<1>4. Brings(report, k)
  BY <1>3 DEF ReportSound
<1>5. CASE profile.distro = "debian"
  <2>1. PICK x \in ToSet(sync.read) :
          x.place.release = report.release /\ x.place.component = report.component
    BY <1>4, <1>5 DEF Brings
  <2>2. \A y \in ToSet(sync.read) : p \notin Listed(y)
    BY <1>3, <1>4, <1>5 DEF Brings
  <2>3. Fills(x, p)
    BY <1>3, <1>5, <2>1 DEF Fills, InScope, ReportRelease
  <2>4. QED  BY <2>1, <2>2, <2>3
<1>6. CASE profile.distro # "debian"
  <2> DEFINE x == sync.read[k]
  <2>1. /\ x \in ToSet(sync.read) /\ Listed(x) \subseteq PackagesIn(report)
        /\ report.release = ReportRelease(x)
        /\ report.component = x.place.component /\ report.arch = x.place.arch
    BY <1>4, <1>6 DEF Brings, ToSet
  <2>2. Fills(x, p) /\ p \notin Listed(x)
    BY <1>3, <2>1 DEF Fills, InScope
  <2>3. QED  BY <1>6, <2>1, <2>2
<1>7. QED  BY <1>5, <1>6

(* That an index could not be read hides no package.                       *)
THEOREM OnlyUnlistedAreHidden == SchedulersSpec => UnseenOnlyIfUnlisted
<1>1. SyncInv /\ [SchedulersNext]_syncVars =>
        [\A p \in SeenIn(catalog) \ SeenIn(catalog') :
           LET indexes == {x \in ToSet(sync.read) : Fills(x, p)}
               without == {x \in indexes : p \notin Listed(x)}
           IN without # {} /\ (profile.distro = "debian" => without = indexes)]_syncVars
  BY HiddenIfUnlisted
<1>2. QED  BY <1>1, SyncInvHolds, PTL DEF SchedulersSpec, UnseenOnlyIfUnlisted
=============================================================================
