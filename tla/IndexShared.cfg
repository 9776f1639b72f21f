SPECIFICATION Spec
CONSTANTS
  Queries <- MCQueries
  Texts <- MCTexts
  NoTerm = "-"
  Clearance <- MCClearance
  Terms <- MCTerms
  CitationMatch <- MCCitationMatch
  NamesIdentifier <- MCNamesIdentifier
  Embeddable <- MCEmbeddable
  Similarity <- MCSimilarity
  Overlap <- MCOverlap
  Bonus <- MCBonus
  Boost = 3
  RrfK = 60
  RrfScale = 495593280
  LexicalTopK = 2
  DenseTopK = 3
  RerankTopK = 3
  FinalTopK = 3
  DenseWeight = 16
  LexicalWeight = 12
  LexicalNorm = 100
  RrfWeight = 8
  RrfNorm = 14867798
  Threads = {t1, t2}
  Builder = builder
  Requests <- IndexRequests
  Corpora <- MCCorpora
  NoCollection = NoCollection
  MaxBuilds = 2
  MaxKills = 1
INVARIANTS TypeOK IndexIsOneUpload RebuildStands LoneRequestSucceeds
PROPERTY RebuiltAgreesWithMemory
SYMMETRY ThreadSymmetry
CHECK_DEADLOCK FALSE
