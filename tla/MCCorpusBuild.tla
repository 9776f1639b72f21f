---------------------------- MODULE MCCorpusBuild ----------------------------
(* One law in two versions, and one ruling. *)
EXTENDS CorpusBuild

Law(version, name) == [type |-> "law", id |-> "W", version |-> version, name |-> name]
Ruling == [type |-> "case", id |-> "E", version |-> "", name |-> "E"]

\* As tracked; two unnamed versions, which share a file; one without its version; none.
Plain == <<Law("1", "w"), Ruling>>
TwoVersions == <<Law("1", "W"), Law("2", "W")>>
NoVersion == <<Law("", "w"), Ruling>>
MCConfigs == {Plain, TwoVersions, NoVersion, <<>>}

MCTrackedLocks ==
  {Absent, [i \in DOMAIN Plain |-> ok_row(Plain[i], content(url(Plain[i]), 1))]}
MCRevisions == {1, 2}
=============================================================================
