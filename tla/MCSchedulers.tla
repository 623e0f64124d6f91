---------------------------- MODULE MCSchedulers ----------------------------
(***************************************************************************)
(* A small mirror of every distribution, as it is before and after an      *)
(* update.                                                                 *)
(***************************************************************************)
EXTENDS SchedulersProperties

Profile(d, releases, components, archs, excludes) ==
  [distro |-> d, releases |-> releases, components |-> components, archs |-> archs,
   maintainers |-> {}, pkgs |-> {}, excludes |-> excludes]

MCProfiles ==
  {Profile("debian", <<"sid">>, <<"main", "main/debian-installer">>, <<"amd64", "all">>, {}),
   Profile("fedora", <<"40", "41">>, <<"Everything">>, <<"x86_64">>, {}),
   [Profile("archlinux", <<>>, <<"core", "extra">>, <<"x86_64">>, {3})
      EXCEPT !.maintainers = {"m"}, !.pkgs = {2}],
   Profile("freebsd", <<"15">>, <<>>, <<"amd64", "aarch64">>, {3}),
   Profile("tails", <<"stable", "alpha">>, <<>>, <<"amd64">>, {})}

MCSourceComponent == "main" :> "main" @@ "main/debian-installer" :> "main"

Entry(name, version, arch, source) ==
  [name |-> name, version |-> version, arch |-> arch, source |-> source, srcver |-> version[1],
   by |-> "n", hash |-> None, built |-> None]

Port(name, version, built) ==
  [Entry(name, version, "amd64", "port") EXCEPT !.hash = "h", !.built = built]

Src(name, version) == [name |-> name, version |-> version]

(* Debian: an arch:all package is in both indexes; a binary-only rebuild   *)
(* of one architecture; an installer package whose new source is not yet   *)
(* listed.                                                                 *)
DebianMirror(sources, nmu, lib, udeb) ==
  LET doc == Entry(2, <<1, 0>>, "all", "a")
  IN [sources |-> Place("sid", "main", "source") :> sources,
      index |->    Place("sid", "main", "amd64") :> <<Entry(1, <<1, nmu>>, "amd64", "a"), lib, doc>>
                @@ Place("sid", "main", "all") :> <<doc>>
                @@ Place("sid", "main/debian-installer", "amd64") :> <<udeb>>]

DebianMirrors ==
  LET lib(nmu) == Entry(4, <<1, nmu>>, "amd64", "a")
  IN {DebianMirror({Src("a", 1), Src("b", 1)}, 0, lib(0), Entry(3, <<1, 0>>, "amd64", "b")),
      DebianMirror({Src("a", 1), Src("b", 1)}, 1, lib(0), Entry(3, <<2, 0>>, "amd64", "b"))}

FedoraMirrors ==
  {[sources |-> <<>>,
    index |->    Place("40", "Everything", "x86_64") :> <<Entry(1, <<1, 0>>, "x86_64", "a-1")>>
              @@ Place("41", "Everything", "x86_64") :> <<Entry(1, <<v, 0>>, "x86_64", "a-2")>>]
     : v \in {2, 3}}

(* Arch Linux: a package moves from one repository to the other.           *)
ArchMirrors ==
  LET own == [Entry(1, <<1, 0>>, "x86_64", "a") EXCEPT !.by = "m"]
      rest == <<Entry(2, <<1, 0>>, "x86_64", "a"), [own EXCEPT !.name = 3], [own EXCEPT !.name = 4, !.by = "n"]>>
      snapshot(core, extra) ==
        [sources |-> <<>>,
         index |-> Place(None, "core", "x86_64") :> core @@ Place(None, "extra", "x86_64") :> extra]
  IN {snapshot(<<own>> \o rest, <<>>), snapshot(rest, <<own>>)}

(* FreeBSD: the index comes in any order; one build of the port is later.  *)
FreeBSDMirrors ==
  LET snapshot(index) ==
        [sources |-> <<>>,
         index |-> Place("15", None, "amd64") :> index @@ Place("15", None, "aarch64") :> <<>>]
      first == Port(1, <<1, 0>>, 3)
      second == Port(2, <<1, 0>>, 5)
      third == Port(3, <<1, 0>>, 1)
  IN {snapshot(<<first, third, second>>), snapshot(<<second, first>>),
      snapshot(<<Port(1, <<2, 0>>, 7), Port(4, <<2, 0>>, None)>>)}

TailsMirrors ==
  {[sources |-> <<>>,
    index |-> Place("stable", None, "amd64") :> stable @@ Place("alpha", None, "amd64") :> alpha]
     : stable \in {<<1>>, <<2, 1>>}, alpha \in {<<>>, <<2>>}}

MCMirrors ==
     "debian" :> DebianMirrors @@ "fedora" :> FedoraMirrors @@ "archlinux" :> ArchMirrors
  @@ "freebsd" :> FreeBSDMirrors @@ "tails" :> TailsMirrors

MCGithubAnswers == {[h \in Hashes |-> t] : t \in {None, 2, 6}}
=============================================================================
