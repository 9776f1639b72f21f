--------------------------- MODULE MCCachePolicy ---------------------------
(* The values of CachePolicy's constants that TLC checks both caches with. *)
EXTENDS CachePolicy

\* Three queries: two that the embedding does not tell apart, one of which
\* names an exact identifier, and one that carries an ISO date.
MCQueries == {"plain", "exact", "dated"}
MCExact == {"exact"}
MCSimilar == {<<q, q>> : q \in MCQueries} \cup
             {<<"plain", "exact">>, <<"exact", "plain">>,
              <<"plain", "dated">>, <<"dated", "plain">>}
MCDateIn == [q \in MCQueries |-> IF q = "dated" THEN "2024" ELSE "none"]

\* A chunk for everybody, a public one closed to the helpdesk, a restricted one.
MCClassOf == [c \in {"open", "closed", "secret"} |->
                IF c = "secret" THEN "restricted" ELSE "public"]
MCReadable == [role \in {"helpdesk", "inspector"} |->
                 IF role = "helpdesk" THEN {"open"} ELSE {"open", "closed", "secret"}]

\* One answer of each kind the policy tells apart: open or closed public source,
\* mixed sources, the unlabelled answer of a decomposed query, a refusal.
MCDrafts ==
  LET Made(outcome, grade, sources, labelled) ==
        [outcome |-> outcome, grade |-> grade, sources |-> sources, labelled |-> labelled]
  IN {Made("answered", "relevant", {"open"}, TRUE),
      Made("answered", "relevant", {"closed"}, TRUE),
      Made("answered", "relevant", {"open", "secret"}, TRUE),
      Made("answered", "relevant", {"open"}, FALSE),
      Made("refused", "ambiguous", {"open"}, TRUE)}

Req(query, role, as_of, corpus) ==
  [query |-> query, role |-> role, jurisdiction |-> "NL", method |-> "hybrid",
   source_types |-> {}, as_of |-> as_of, corpus |-> corpus]

\* Same key but for the role; same text but for the date; a text not to be stored.
NamespaceRequests ==
  {Req("plain", "helpdesk", "none", "demo"), Req("plain", "inspector", "none", "demo"),
   Req("dated", "helpdesk", "none", "demo"), Req("exact", "helpdesk", "none", "demo")}

CorpusRequests ==
  {Req("plain", "helpdesk", "none", "demo"), Req("plain", "helpdesk", "none", "other")}
=============================================================================
