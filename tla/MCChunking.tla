----------------------------- MODULE MCChunking -----------------------------
(* Small raw files of each kind, for TLC.  A piece of text is named after  *)
(* the place where it stands.                                              *)
EXTENDS Chunking

T(place) == <<place>>

\* The parts of a lid at a place: an introduction, a list of one item, with or without a text.
PartsAt(at) ==
  {[text |-> T(at \o "al"), items |-> <<>>]}
  \cup {[text |-> <<>>, items |-> <<[nr |-> n, text |-> T(at \o "li")]>>] : n \in {"", "a.", "A:"}}
  \cup {[text |-> <<>>, items |-> <<[nr |-> "b.", text |-> <<>>]>>]}

LidsAt(at, numbers) ==
  [nr: numbers, parts: {<<>>} \cup {<<p>> : p \in PartsAt(at \o "1")}
                       \cup {<<p, q>> : p \in PartsAt(at \o "1"), q \in PartsAt(at \o "2")}]

ShortLids(at) == {lid \in LidsAt(at, {"1", "2"}) : Len(lid.parts) = 1}

ArticlesAt(at, numbers, lids) ==
  [nr: numbers, id: {at}, loose: {<<>>, T(at \o "loose")}, lids: lids]

LidSeqs(at) ==
  {<<>>} \cup {<<l>> : l \in LidsAt(at \o "l1", {"", "1"})}
  \cup {<<l, m>> : l \in LidsAt(at \o "l1", {"1"}), m \in ShortLids(at \o "l2")}

ShortLidSeqs(at) == {<<>>} \cup {<<l>> : l \in ShortLids(at \o "l1")}

MCLawFiles ==
  {<<a>> : a \in ArticlesAt("x", {"", "1"}, LidSeqs("x"))}
  \cup {<<a, b>> : a \in ArticlesAt("x", {"", "1"}, ShortLidSeqs("x")),
                   b \in ArticlesAt("y", {"", "1", "2"}, ShortLidSeqs("y"))}
  \cup {<<b>> : b \in ArticlesAt("y", {"", "1", "2"}, ShortLidSeqs("y"))}

\* Paragroups under a section: one, two, or one that holds two.
GroupsAt(at) ==
  {<<>>}
  \cup {<<[path |-> <<1>>, nr |-> n, text |-> T(at \o "g")]>> : n \in {"", "1"}}
  \cup {<<[path |-> <<1>>, nr |-> "1", text |-> t],
          [path |-> <<2>>, nr |-> n, text |-> T(at \o "h")]>> : t \in {<<>>, T(at \o "g")}, n \in {"", "1"}}
  \cup {<<[path |-> <<1>>, nr |-> "1", text |-> t],
          [path |-> <<1, 1>>, nr |-> n, text |-> T(at \o "i")],
          [path |-> <<1, 2>>, nr |-> "2", text |-> T(at \o "j")]>> : t \in {<<>>, T(at \o "g")}, n \in {"", "1"}}

SectionsAt(at, titles, roles) ==
  [title: titles, role: roles, loose: {<<>>, T(at \o "loose")}, groups: GroupsAt(at)]

MCCaseFiles ==
  [summary: {<<>>, T("summary")}, info: {<<>>}, body: BOOLEAN,
   sections: {<<>>} \cup {<<s>> : s \in SectionsAt("s", {"", "feiten"}, {"", "beslissing", "overwegingen"})}
             \cup {<<s, t>> : s \in SectionsAt("s", {"", "kader"}, {"overwegingen"}),
                              t \in SectionsAt("t", {"kader"}, {""})}]

LineAt(at) == {[heading |-> FALSE, text |-> <<>>], [heading |-> FALSE, text |-> T(at)],
             [heading |-> TRUE, text |-> T("Title")]}

MCSupportFiles == {<<a, b, c, d>> : a \in LineAt("p"), b \in LineAt("q"), c \in LineAt("r"), d \in LineAt("s")}

MCFacts == {"feiten"}
MCReasoning == {"kader"}

MCSlug ==
  [n \in {"", "1", "2", "a.", "A:", "b.", "feiten", "kader", "facts", "reasoning", "holding", "section",
          "Title", "Paragraph 1", "Paragraph 2"} |->
    CASE n = "" -> "item" [] n \in {"a.", "A:"} -> "a" [] n = "b." -> "b" [] OTHER -> n]
=============================================================================
