SPECIFICATION Spec
CONSTANTS
  t1 = t1
  t2 = t2
  t3 = t3
  Threads = {t1, t2}
  Lists = {1, 2, 3, 4, 5}
  NoList = NoList
  NoRequest = NoRequest
  NoResponse = NoResponse
  NoEntry = NoEntry
  NoJurisdiction = "none"
  Unspecified = "unspecified"
  NoDate = "none"
  Queries <- MCQueries
  Roles = {"helpdesk", "inspector"}
  Jurisdictions = {"NL"}
  Methods = {"hybrid"}
  SourceTypes = {}
  Dates = {"2024"}
  Corpora = {"demo", "other"}
  Chunks = {"open", "closed", "secret"}
  Similar <- MCSimilar
  Exact <- MCExact
  DateIn <- MCDateIn
  ClassOf <- MCClassOf
  Readable <- MCReadable
  Drafts <- MCDrafts
  Requests <- NamespaceRequests
  TTL = 2
  MaxTime = 2
  MaxRequests = 3
SYMMETRY Symmetry
INVARIANTS TypeOK ReuseWithinNamespace ReuseIsPublicAndFresh NoForeignSource QuietStoreSurvives
PROPERTY ImplementsAnswerCache
