SPECIFICATION SystemSpec
CONSTANTS
  Queries <- MCAgentQueries
  Texts <- MCTexts
  NoTerm = "-"
  Clearance <- MCClearance
  Terms <- MCAgentTerms
  CitationMatch <- MCAgentMatch
  NamesIdentifier <- MCAgentIdentifiers
  Embeddable <- MCAgentEmbeddable
  Similarity <- MCAgentSimilarity
  Overlap <- MCAgentOverlap
  Bonus <- MCAgentBonus
  Boost = 3
  RrfK = 60
  RrfScale = 495593280
  LexicalTopK = 2
  DenseTopK = 3
  RerankTopK = 3
  FinalTopK = 3
  DenseWeight = 16
  LexicalWeight = 12
  LexicalNorm = 100
  RrfWeight = 8
  RrfNorm = 14867798
  Catalogue <- MCCatalogue
  Calls <- MCCalls
  NoMethod = "default"
  DefaultMethod = "hybrid"
  DateIn <- MCAgentDateIn
  NoCall = NoCall
  DocOf <- MCDocOf
  DecisionYear <- MCDecisionYear
  YearIn <- MCYearIn
  AsksEligibility = {}
  Terse = {}
  Relevant <- MCRelevant
  Floor <- MCFloor
  Margin = 100
  Clauses <- MCClauses
  Identifiers <- MCIdentifiers
  Rewrites <- MCRewrites
  Dates = {1, 2}
  MaxRetries = 1
  MaxCitations = 2
  NoRetrieval = NoRetrieval
  NoAnswer = NoAnswer
INVARIANTS DeniedHasNoInfluence ExactEvidenceAlone CitesWithinScope ExactEvidenceIsAnswered NoSiblingLeads
PROPERTY ImplementsAgent
