---------------------------- MODULE MCStatistics ----------------------------
(***************************************************************************)
(* Two inputs, of which one has no release.                                *)
(***************************************************************************)
EXTENDS StatisticsProperties, TLC

InputOrigin(release, arch) ==
  [distribution |-> "debian", release |-> release, architecture |-> arch]

MCInputs == {1, 2}
MCOriginOf == 1 :> InputOrigin("sid", "amd64") @@ 2 :> InputOrigin(None, "amd64")

Category(kinds, excluded) == [kinds |-> kinds, excluded |-> excluded]

MCSpecific == "debian" :> <<Category({"timeout"}, {"amd64"}), Category({"path"}, {})>>
MCUniversal == <<Category({"path", "timeout"}, {})>>

MCBadSets == {{}, {<<1, "path">>}, {<<1, "path">>, <<2, "timeout">>}}
=============================================================================
