------------------------------ MODULE Chunking ------------------------------
(***************************************************************************)
(* The parsing and chunking of one raw file.  The documents are parsed by  *)
(* one script, and another script chunks them: it opens the raw file       *)
(* again, which may have been replaced in between.  A text is the sequence *)
(* of the pieces of text of the file, each of them found at one place; the *)
(* labels that are put before the text of a chunk are left out, but for a  *)
(* section of a policy, which may have no more than its title.             *)
(***************************************************************************)
EXTENDS Integers, FiniteSetsExt, SequencesExt

CONSTANTS
  LawFiles, CaseFiles, SupportFiles,   \* the raw files of the instance
  Slug,                                \* metadata_builder._slug on labels and numbers
  FactTitles, ReasoningTitles          \* the titles that name such a section

None == "None"

Numbers == DOMAIN Slug
Texts == Seq(STRING)

Items == [nr : Numbers, text : Texts]
Parts == [text : Texts, items : Seq(Items)]
Lids == [nr : Numbers, parts : Seq(Parts)]
Articles == [nr : Numbers, id : STRING, loose : Texts, lids : Seq(Lids)]

Groups == [path : Seq(Nat), nr : STRING, text : Texts]
Sections == [title : STRING, role : STRING, loose : Texts, groups : Seq(Groups)]
Rulings == [summary : Texts, info : Texts, body : BOOLEAN, sections : Seq(Sections)]

Lines == [heading : BOOLEAN, text : Texts]

\* A paragroup stands under its section, or under another paragroup of it.
Nested(section) ==
  \A h \in Range(section.groups) :
    /\ h.path # <<>>
    /\ Len(h.path) > 1 => \E g \in Range(section.groups) : g.path = Front(h.path)

\* Each piece of text is found at one place of the ruling.
Apart(sections) ==
  \A s, t \in Range(sections) :
    /\ Range(s.loose) \cap Range(t.loose) # {} => s = t
    /\ \A g \in Range(s.groups) : Range(g.text) \cap Range(t.loose) = {}
    /\ \A g \in Range(s.groups), h \in Range(t.groups) :
         Range(g.text) \cap Range(h.text) # {} => s = t /\ g = h

\* The identifier of an article without a number, if it has one, is no number; a heading has a title.
ASSUME ChunkingAssumption ==
  /\ Slug[""] = "item" /\ None \notin Numbers
  /\ FactTitles \cap ReasoningTitles = {}
  /\ LawFiles \subseteq Seq(Articles)
  /\ \A file \in LawFiles : \A a \in Range(file) : a.nr = "" => a.id \notin Numbers \ {""}
  /\ CaseFiles \subseteq Rulings
  /\ \A file \in CaseFiles : Apart(file.sections) /\ \A s \in Range(file.sections) : Nested(s)
  /\ SupportFiles \subseteq Seq(Lines)
  /\ \A file \in SupportFiles : \A l \in Range(file) : l.heading => l.text # <<>>

VARIABLES source_type, raw, documents, chunks, stage

vars == <<source_type, raw, documents, chunks, stage>>

Joined(texts) == FlattenSeq(texts)
Mapped(Op(_), s) == [i \in DOMAIN s |-> Op(s[i])]

\* What is left of a sequence without the elements of T, and without those that have no text.
Without(s, T) == Joined(Mapped(LAMBDA x : IF x \in T THEN <<>> ELSE <<x>>, s))
Filled(s) == Without(s, {x \in Range(s) : x.text = <<>>})

\* The numbers of S, of those to n, from the least to the greatest.
InOrder(S, n) == Without([i \in 1..n |-> i], (1..n) \ S)

record(id, text, citation) == [chunk_id |-> id, text |-> text, citation |-> citation]

(***************************************************************************)
(* Laws.  A law file is a sequence of articles [nr, id, loose, lids], with *)
(* nr = "" for none and loose the text beside the lids.  A lid is          *)
(* [nr, parts], and a part is [text, items]: a list has items [nr, text],  *)
(* any other element has its text.                                         *)
(***************************************************************************)
lid_text(lid) == Joined(Mapped(LAMBDA p :
  p.text \o Joined(Mapped(LAMBDA li : li.text, p.items)), lid.parts))

_article_body(article) == article.loose \o Joined(Mapped(lid_text, article.lids))

law_document(a) ==
  [doc_id |-> <<"law", IF a.nr = "" THEN a.id ELSE a.nr>>, article |-> a.nr,
   text |-> _article_body(a), citation |-> <<a.nr>>]

parse_law_file(file) == Filled(Mapped(law_document, file))

\* The identifier names the item alone when there is one.
IdOfItemAlone(doc, paragraph, subparagraph) ==
  doc.doc_id \o (CASE subparagraph # None -> <<"subparagraph", Slug[subparagraph]>>
                   [] subparagraph = None /\ paragraph # None -> <<"paragraph", Slug[paragraph]>>
                   [] OTHER -> <<"body">>)

build_law_chunk_id(doc, paragraph, subparagraph) ==
  doc.doc_id \o (IF paragraph = None THEN <<>> ELSE <<"paragraph", Slug[paragraph]>>)
             \o (IF subparagraph = None THEN <<>> ELSE <<"subparagraph", Slug[subparagraph]>>)
             \o (IF paragraph = None /\ subparagraph = None THEN <<"body">> ELSE <<>>)

NoneIfEmpty(nr) == IF nr = "" THEN None ELSE nr

\* The items without the text that introduces them.
ItemsWithoutIntro(doc, nr, intro, items) ==
  Mapped(LAMBDA li : record(build_law_chunk_id(doc, nr, NoneIfEmpty(li.nr)), li.text,
                            doc.citation \o (IF li.nr = "" THEN <<nr>> ELSE <<nr, li.nr>>)),
         Filled(items))

_build_subparagraph_chunks(doc, nr, intro, items) ==
  Mapped(LAMBDA li : record(build_law_chunk_id(doc, nr, NoneIfEmpty(li.nr)), intro \o li.text,
                            doc.citation \o (IF li.nr = "" THEN <<nr>> ELSE <<nr, li.nr>>)),
         Filled(items))

paragraph_chunk(doc, nr, text) ==
  IF text = <<>> THEN <<>>
  ELSE <<record(build_law_chunk_id(doc, NoneIfEmpty(nr), None), text,
                doc.citation \o (IF nr = "" THEN <<>> ELSE <<nr>>))>>

lid_chunks(doc, lid) ==
  LET items == Joined(Mapped(LAMBDA p : p.items, lid.parts))
      intro == Joined(Mapped(LAMBDA p : p.text, lid.parts))
  IN IF items # <<>> THEN _build_subparagraph_chunks(doc, lid.nr, intro, items)
     ELSE paragraph_chunk(doc, lid.nr, intro)

whole_article(doc) == <<record(build_law_chunk_id(doc, None, None), doc.text, doc.citation)>>

\* The lids of the first article, whatever its number.
FirstArticleLids(doc, file) == file[1].lids

\* The lids of the first article with the document's number, none when there is no such article.
_article_lids(doc, file) ==
  LET found == {i \in DOMAIN file : file[i].nr = doc.article}
  IN IF found = {} THEN <<>> ELSE file[Min(found)].lids

chunk_law_document(doc, file) ==
  LET found == Joined(Mapped(LAMBDA lid : lid_chunks(doc, lid), _article_lids(doc, file)))
  IN IF found = <<>> THEN whole_article(doc) ELSE found

(***************************************************************************)
(* Cases.  A case file is [summary, info, body, sections].  A section is   *)
(* [title, role, loose, groups]: the text outside its paragroups, and its  *)
(* paragroups [path, nr, text] at any depth in document order, where the   *)
(* path of a nested one extends that of the group that holds it.           *)
(***************************************************************************)
group_texts(section) == Joined(Mapped(LAMBDA g : g.text, section.groups))

_build_case_text(file) ==
  file.summary \o (IF file.body
    THEN file.info \o Joined(Mapped(LAMBDA s : s.loose \o group_texts(s), file.sections))
    ELSE <<>>)

_section_title(section) ==
  CASE section.title # "" -> section.title
    [] section.title = "" /\ section.role # "" -> section.role
    [] OTHER -> "section"

_canonical_section_type(section) ==
  LET title == _section_title(section)
  IN CASE section.role = "overwegingen" -> "reasoning"
       [] section.role = "beslissing" -> "holding"
       [] section.role = "procesverloop" \/ title \in FactTitles -> "facts"
       [] title \in ReasoningTitles -> "reasoning"
       [] OTHER -> title

_leaf_paragroups(section) ==
  Without(section.groups,
          {g \in Range(section.groups) :
             \E h \in Range(section.groups) : IsStrictPrefix(g.path, h.path)})

build_case_chunk_id(doc, section_type, ordinal) ==
  doc.doc_id \o <<"section", Slug[section_type], Slug[ordinal]>>

section_chunks(doc, section, index) ==
  LET title == _section_title(section)
      id(ordinal) == build_case_chunk_id(doc, _canonical_section_type(section), ordinal)
      number(g) == IF g.nr = "" THEN ToString(index) ELSE g.nr
      groups == _leaf_paragroups(section)
  IN IF groups # <<>>
     THEN Mapped(LAMBDA g : record(id(number(g)), g.text, doc.citation \o <<title, number(g)>>),
                 Filled(groups))
     ELSE IF section.loose = <<>> THEN <<>>
     ELSE <<record(id(ToString(index)), section.loose, doc.citation \o <<title>>)>>

whole_case(doc) ==
  <<record(doc.doc_id \o <<"section", "document", "body">>, doc.text, doc.citation)>>

chunk_case_document(doc, file) ==
  LET found == Joined([i \in DOMAIN file.sections |-> section_chunks(doc, file.sections[i], i)])
  IN IF ~file.body \/ found = <<>> THEN whole_case(doc) ELSE found

(***************************************************************************)
(* Policies and e-learning.  A file is its lines [heading, text]; a line   *)
(* that is not a heading may be blank.                                     *)
(***************************************************************************)
PieceFrom(lines, i, starts) ==
  LET later == {j \in starts : j > i}
      last == IF later = {} THEN Len(lines) ELSE Min(later) - 1
  IN SubSeq(lines, i, last)

LineTexts(lines) == Joined(Mapped(LAMBDA l : IF l.heading THEN <<>> ELSE l.text, lines))

NonBlank(lines) == {i \in DOMAIN lines : lines[i].text # <<>>}
Headings(lines) == {i \in DOMAIN lines : lines[i].heading}

_split_sections(lines) ==
  LET at == InOrder(Headings(lines), Len(lines))
  IN [k \in DOMAIN at |-> [title |-> lines[at[k]].text[1],
                           body |-> LineTexts(PieceFrom(lines, at[k], Headings(lines)))]]

_fallback_sections(lines) ==
  LET starts == {i \in NonBlank(lines) : i - 1 \notin NonBlank(lines)}
      at == InOrder(starts, Len(lines))
  IN [k \in DOMAIN at |-> [title |-> "Paragraph " \o ToString(k),
                           body |-> LineTexts(PieceFrom(lines, at[k], starts))]]

support_chunks(doc, sections) ==
  [k \in DOMAIN sections |->
    record(doc.doc_id \o <<"section", Slug[sections[k].title], k>>,
           <<sections[k].title>> \o sections[k].body, doc.citation \o <<sections[k].title>>)]

chunk_support_document(doc) ==
  LET split == _split_sections(doc.text)
  IN support_chunks(doc, IF split = <<>> THEN _fallback_sections(doc.text) ELSE split)

(***************************************************************************)
(* The two scripts.                                                        *)
(***************************************************************************)
parsed(file) ==
  CASE source_type = "legislation" -> parse_law_file(file)
    [] source_type = "case_law" -> <<[doc_id |-> <<"case">>, article |-> "",
                                text |-> _build_case_text(file), citation |-> <<"ECLI">>]>>
    [] source_type = "internal_policy" -> <<[doc_id |-> <<"policy">>, article |-> "",
                                   text |-> IF NonBlank(file) = {} THEN <<>> ELSE file,
                                   citation |-> <<"policy">>]>>

\* NormalizedDocument refuses an empty text: nothing is parsed.
Valid(docs) == \A d \in Range(docs) : d.text # <<>>

chunked(doc, file) ==
  CASE source_type = "legislation" -> chunk_law_document(doc, file)
    [] source_type = "case_law" -> chunk_case_document(doc, file)
    [] source_type = "internal_policy" -> chunk_support_document(doc)

Init ==
  /\ \/ source_type = "legislation" /\ raw \in LawFiles
     \/ source_type = "case_law" /\ raw \in CaseFiles
     \/ source_type = "internal_policy" /\ raw \in SupportFiles
  /\ documents = <<>> /\ chunks = <<>> /\ stage = "raw"

Parse ==
  /\ stage = "raw"
  /\ IF Valid(parsed(raw))
     THEN documents' = parsed(raw) /\ stage' = "parsed"
     ELSE stage' = "failed" /\ UNCHANGED documents
  /\ UNCHANGED <<source_type, raw, chunks>>

\* The law is downloaded anew, and now has one article fewer.
Replace ==
  /\ stage = "parsed"
  /\ source_type = "legislation" /\ Len(raw) > 1
  /\ raw' \in {Tail(raw), Front(raw)}
  /\ UNCHANGED <<source_type, documents, chunks, stage>>

build_chunks ==
  /\ stage = "parsed"
  /\ chunks' = Joined(Mapped(LAMBDA doc : chunked(doc, raw), documents))
  /\ stage' = "chunked"
  /\ UNCHANGED <<source_type, raw, documents>>

Next == Parse \/ Replace \/ build_chunks

Spec == Init /\ [][Next]_vars

-----------------------------------------------------------------------------
(***************************************************************************)
(* Properties.                                                             *)
(***************************************************************************)
TokensOf(texts) == UNION {Range(t) : t \in texts}
Chunked == stage = "chunked"
ChunkedTokens == TokensOf({c.text : c \in Range(chunks)})

\* What the law file holds at a citation: an article, a lid of it, an item of the lid with what
\* introduces it.
ArticlesCited(file, citation) == {a \in Range(file) : a.nr = citation[1]}

LidsCited(file, citation) ==
  {lid \in UNION {Range(a.lids) : a \in ArticlesCited(file, citation)} : lid.nr = citation[2]}

PartsCited(file, citation) == UNION {Range(lid.parts) : lid \in LidsCited(file, citation)}

ItemsCited(file, citation) ==
  {li \in UNION {Range(p.items) : p \in PartsCited(file, citation)} : li.nr = citation[3]}

TextCited(file, citation) ==
  CASE Len(citation) = 1 -> TokensOf({_article_body(a) : a \in ArticlesCited(file, citation)})
    [] Len(citation) = 2 -> TokensOf({lid_text(lid) : lid \in LidsCited(file, citation)})
    [] Len(citation) = 3 -> TokensOf({p.text : p \in PartsCited(file, citation)}
                                     \cup {li.text : li \in ItemsCited(file, citation)})

\* A chunk of a law holds no text but that of the place it cites, in the file as it is when it is
\* chunked; a chunk for a whole article may hold the text it had when it was parsed.
CitationCoversText ==
  (Chunked /\ source_type = "legislation") =>
    \A c \in Range(chunks) :
      \/ Range(c.text) \subseteq TextCited(raw, c.citation)
      \/ \E d \in Range(documents) : c.text = d.text /\ c.citation = d.citation

\* Laws whose text is unchanged lose no text in chunks but that which stands beside the lids of an
\* article, that of an article whose number an earlier one has, and introductions to empty lists.
LawTextKept ==
  (Chunked /\ source_type = "legislation" /\ documents = parse_law_file(raw)) =>
    \A i \in DOMAIN raw : Range(_article_body(raw[i])) \subseteq
      UNION {ChunkedTokens,
             IF raw[i].lids = <<>> THEN {} ELSE Range(raw[i].loose),
             IF \E j \in 1..(i - 1) : raw[j].nr = raw[i].nr THEN Range(_article_body(raw[i])) ELSE {},
             TokensOf({lid_text(lid) : lid \in {lid \in Range(raw[i].lids) :
               \E p \in Range(lid.parts) : \E li \in Range(p.items) : li.text = <<>>}})}

\* The identifier of a law chunk stands for one citation, but for the spelling of the numbers.
IdNamesPlace ==
  (Chunked /\ source_type = "legislation") =>
    \A c, d \in Range(chunks) : c.chunk_id = d.chunk_id =>
      Mapped(LAMBDA n : Slug[n], c.citation) = Mapped(LAMBDA n : Slug[n], d.citation)

\* A ruling loses no text in chunks but its summary and head note, and text beside the paragroups of
\* the section or paragroup that holds them; what is kept is kept once and in order.
CaseTextKept ==
  (Chunked /\ source_type = "case_law" /\ raw.body) =>
    LET kept == Joined(Mapped(LAMBDA c : c.text, chunks))
        inner(s) == {g \in Range(s.groups) : \E h \in Range(s.groups) : Front(h.path) = g.path}
        beside == UNION {TokensOf({IF s.groups = <<>> THEN <<>> ELSE s.loose} \cup {g.text : g \in inner(s)})
                         : s \in Range(raw.sections)}
        told == Joined(Mapped(LAMBDA s : s.loose \o group_texts(s), raw.sections))
    IN \/ kept = documents[1].text
       \/ kept = Without(told, beside)

\* The sections of a policy are its text from the first heading on, in order; without a heading they
\* are all of it.  No two of them have one identifier.
SupportTextKept ==
  (Chunked /\ source_type = "internal_policy") =>
    LET first == IF Headings(raw) = {} THEN 1 ELSE Min(Headings(raw))
    IN /\ Joined(Mapped(LAMBDA c : Tail(c.text), chunks)) = LineTexts(SubSeq(raw, first, Len(raw)))
       /\ IsInjective(Mapped(LAMBDA c : c.chunk_id, chunks))

\* No text of a document is lost on the way to its chunks, but for what LawTextKept and
\* CaseTextKept name, and no document is without a chunk (legal_chunker.py:123,
\* case_chunker.py:102, support_chunker.py:34).
TextAccountedFor ==
  /\ LawTextKept /\ CaseTextKept /\ SupportTextKept
  /\ Chunked => \A d \in Range(documents) : \E c \in Range(chunks) : IsPrefix(d.doc_id, c.chunk_id)

\* A chunk identifier, by which a citation is traced to its source, has one text.
ChunkIdsResolve ==
  Chunked => \A c, d \in Range(chunks) : c.chunk_id = d.chunk_id => c.text = d.text
=============================================================================
