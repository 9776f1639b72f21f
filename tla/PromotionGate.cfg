SPECIFICATION Spec
CONSTANTS
  Gold <- MCGold
  Candidates <- MCCandidates
  Thresholds <- MCThresholds
  Whole = 12
  Labels = {l1, l2}
  NoBaseline = NoBaseline
  Absent = Absent
  Broken = Broken
  MaxRuns = 2
  MaxKills = 1
INVARIANTS ExitTellsDecision DecisionIsReproducible StrongerIsPromoted
CHECK_DEADLOCK FALSE
