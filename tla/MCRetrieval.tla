---------------------------- MODULE MCRetrieval ----------------------------
(* A small law library, for the instances that TLC checks.                 *)
EXTENDS Integers, FiniteSets, Functions

MCClearance == [role \in {"helpdesk", "inspector"} |-> IF role = "helpdesk" THEN 1 ELSE 3]

Everyone == {"helpdesk", "inspector"}

Law(article, paragraph, text) ==
  [roles |-> Everyone, class |-> 0, type |-> "legislation", jurisdiction |-> "NL",
   valid_from |-> 0, valid_to |-> 0, ecli |-> "-", article |-> article,
   paragraph |-> paragraph, subparagraph |-> "-", text |-> text]

Case(ecli, text) ==
  [Law("-", "-", text) EXCEPT !.type = "case_law", !.ecli = ecli, !.class = 3,
                              !.roles = {"inspector"}]

\* Days: 1 is in 2019, 2 in 2024.
MCCatalogue == <<
  [Law("1", "1", "old 1.1") EXCEPT !.valid_to = 1],
  [Law("1", "1", "new 1.1") EXCEPT !.valid_from = 2],
  Law("1", "2", "new 1.2"),
  [Law("1", "-", "policy on 1") EXCEPT !.type = "policy", !.class = 1, !.jurisdiction = "EU"],
  Case("X", "case X"),
  [Law("-", "-", "handbook") EXCEPT !.class = 2]>>

MCTexts == {MCCatalogue[c].text : c \in DOMAIN MCCatalogue}

\* art 1 lid 1; art 1; ECLI:X; ECLI:X on art 1; a citation copied from the first chunk; a question
\* whose words occur in several citations; and one of stopwords only.
MCQueries == {"art 1 lid 1", "art 1", "ecli X", "ecli X on art 1",
              "citation", "words", "stopwords"}

MCTerms == [q \in MCQueries |->
  [ecli |-> IF q \in {"ecli X", "ecli X on art 1"} THEN "X" ELSE "-",
   article |-> IF q \in {"art 1 lid 1", "art 1", "ecli X on art 1"} THEN "1" ELSE "-",
   paragraph |-> IF q = "art 1 lid 1" THEN "1" ELSE "-", subparagraph |-> "-"]]

MCNamesIdentifier == {"art 1 lid 1", "art 1", "ecli X", "ecli X on art 1"}
MCEmbeddable == MCQueries \ {"stopwords"}

MCCitationMatch == [q \in MCQueries |-> [t \in MCTexts |->
  CASE q = "citation" /\ t = "old 1.1" -> "equal"
    [] q = "words" /\ t \in {"new 1.1", "new 1.2", "policy on 1"} -> "contains"
    [] q = "art 1" /\ t \in {"policy on 1", "case X", "handbook"} -> "contains"
    [] OTHER -> "none"]]

\* The siblings are as similar as the paragraph asked for, the case more than all.
MCSimilarity == [q \in MCQueries |-> [t \in MCTexts |->
  CASE t \in {"old 1.1", "new 1.1", "new 1.2"} -> 60
    [] t = "case X" -> IF q \in {"ecli X", "ecli X on art 1"} THEN 30 ELSE 70
    [] t = "policy on 1" -> 50 [] OTHER -> 65]]

\* Weights are hundredths of those of common/config.py.
MCOverlap == [q \in MCQueries |-> [t \in MCTexts |->
  CASE t = "new 1.2" -> 4000 [] t = "handbook" -> 2600 [] t = "old 1.1" -> 2600 [] OTHER -> 0]]

\* legislation_bonus, for a query with the concept of the ruling.
MCBonus == [q \in MCQueries |-> IF q = "words" THEN 800 ELSE 0]

Asked(queries, roles, methods, top_ks, types, jurisdictions, dates) ==
  [query: queries, role: roles, method: methods, top_k: top_ks, types: types,
   jurisdiction: jurisdictions, as_of: dates]

MCDateIn == [q \in MCQueries |-> IF q = "citation" THEN 1 ELSE 0]
=============================================================================
