SPECIFICATION Spec
CONSTANTS
  Queries <- MCQueries
  Sources <- MCSources
  Dates = {"2024-01-01", "2019-01-01", "2024-13-01"}
  NoDate = "none"
  DocOf <- MCDocOf
  TypeOf <- MCTypeOf
  DecisionYear <- MCDecisionYear
  YearIn <- MCYearIn
  NamesIdentifier <- MCNamesIdentifier
  AsksEligibility <- MCAsksEligibility
  Terse <- MCTerse
  Relevant <- MCRelevant
  Floor <- MCFloor
  Margin = 100
  Roles = {"helpdesk"}
  Scopes = {"NL", "blank"}
  NoMethod = "none"
  DefaultMethod = "hybrid"
  Clauses <- MCClauses
  Identifiers <- MCIdentifiers
  Rewrites <- MCRewrites
  DateIn <- MCDateIn
  Invalid <- MCInvalid
  MaxRetries = 1
  MaxCitations = 2
  NoRetrieval = NoRetrieval
  NoAnswer = NoAnswer
  Requests <- MCRequests
  Profiles <- MCProfiles
INVARIANTS TypeOK AnswersRestOnEvidence OneScopePerAnswer BestAttemptDecides HonestReason StrongerNeverWorse NoObjectionOverlooked
PROPERTY Terminates
