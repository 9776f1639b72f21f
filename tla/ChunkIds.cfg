SPECIFICATION Spec
CONSTANTS
  LawFiles <- MCLawFiles
  CaseFiles <- MCCaseFiles
  SupportFiles <- MCSupportFiles
  Slug <- MCSlug
  FactTitles <- MCFacts
  ReasoningTitles <- MCReasoning
INVARIANTS ChunkIdsResolve
CHECK_DEADLOCK FALSE
