SPECIFICATION Spec
CONSTANTS
  LawFiles <- MCLawFiles
  CaseFiles <- MCCaseFiles
  SupportFiles <- MCSupportFiles
  Slug <- MCSlug
  FactTitles <- MCFacts
  ReasoningTitles <- MCReasoning
INVARIANTS CitationCoversText TextAccountedFor IdNamesPlace
CHECK_DEADLOCK FALSE
