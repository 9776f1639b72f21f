SPECIFICATION Spec
CONSTANTS
  Gold <- MCGold
  Candidates <- MCCandidates
  Thresholds <- MCThresholds
  Whole = 12
  Labels = {l1, l2}
  NoBaseline = NoBaseline
  Absent = Absent
  Broken = Broken
  MaxRuns = 1
  MaxKills = 0
INVARIANT NoLeakIsPromoted
CHECK_DEADLOCK FALSE
