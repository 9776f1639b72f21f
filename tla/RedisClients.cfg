SPECIFICATION Spec
CONSTANTS
  c1 = c1
  c2 = c2
  c3 = c3
  Clients = {c1, c2}
  NoRequest = NoRequest
  NoResponse = NoResponse
  NoEntry = NoEntry
  NoJurisdiction = "none"
  Unspecified = "unspecified"
  NoDate = "none"
  Queries <- MCQueries
  Roles = {"helpdesk", "inspector"}
  Jurisdictions = {"NL"}
  Methods = {"hybrid"}
  SourceTypes = {}
  Dates = {"2024"}
  Corpora = {"demo", "other"}
  Chunks = {"open", "closed", "secret"}
  Similar <- MCSimilar
  Exact <- MCExact
  DateIn <- MCDateIn
  ClassOf <- MCClassOf
  Readable <- MCReadable
  Drafts <- MCDrafts
  Requests <- NamespaceRequests
  TTL = 2
  MaxTime = 2
  MaxRequests = 3
  MaxClears = 1
  MaxFailures = 1
SYMMETRY Symmetry
INVARIANTS TypeOK ServerHoldsCacheable QuietStoreSurvives QuietClearIsFinal
PROPERTY ImplementsAnswerCache
