SPECIFICATION Spec
CONSTANTS
  Configs <- MCConfigs
  TrackedLocks <- MCTrackedLocks
  Revisions <- MCRevisions
  Unreachable = Unreachable
  Unusable = Unusable
  Hangs = Hangs
  Absent = Absent
  Broken = Broken
  MaxRuns = 4
  MaxKills = 1
  MaxChanges = 1
INVARIANTS SuccessIsVerified ManifestTellsDisk RelockVerifies BuildMatchesDisk
CHECK_DEADLOCK FALSE
