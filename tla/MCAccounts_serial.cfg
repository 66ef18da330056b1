SPECIFICATION Spec
CONSTANTS
  u1 = u1
  u2 = u2
  r1 = r1
  r2 = r2
  x1 = x1
  feat = feat
  none = none
  Nobody = Nobody
  NoTxn = NoTxn
  Users = {u1, u2}
  Reqs = {r1}
  Txns = {x1}
  Reward <- Reward1
  Items = {"classic", "orange", "basic", "disco", "supporter", "ember", "record"}
  Catalog <- MCCatalog
  Fallback <- MCFallback
  Feats = {feat}
  NoFeat = none
  Scores = {2}
  Earnings = {1}
  Opening <- Veteran
  Removable = {u2}
  StoreMayFail = TRUE
  MaxRuns = 1
  MaxRecords = 1
  Worth <- MCWorth
INVARIANTS CoinsAreConserved
PROPERTIES NothingForgotten ExactLedger
