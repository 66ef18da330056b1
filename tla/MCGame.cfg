SPECIFICATION Spec
CONSTANTS
  NoMeta = NoMeta
  Cooldown <- MCCooldown
  Duration <- MCDuration
  MaxBounces <- MCMaxBounces
  ImpactIFrames = 2
  Configs <- MCConfigs
  Settings <- MCSettings
  Intervals = {2}
  FirstSpecial = 2
  Cadences = {3}
  Lead = 1
  Loose <- MCLoose
  OrbIntervals = {1}
  MaxOrbs = 2
  ComboBase = 2
  ComboMin = 1
  ComboDecay = 2
  OrbBase = 1
  OrbBonus = 1
  PerfectBonus = 2
  PipeDodge = 1
  MaxPipes = 3
  MaxTime = 3
  MaxGaps = 2
INVARIANTS ScoreIsAccountedFor FrameBooks
PROPERTIES StreakFollowsGaps NeverHitWhileSafe
