SPECIFICATION Spec
CONSTANTS
  MaxRuns = 2
  MaxScore = 1
  p1 = p1
  p2 = p2
  Slots <- MCSlots
SYMMETRY Symmetry
INVARIANTS
  RecordsWhatItPlays
  HandlersEndTheirRun
  ReplaysLeaveNothingBehind
PROPERTIES
  BestRunIsSent
