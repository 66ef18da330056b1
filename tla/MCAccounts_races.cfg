SPECIFICATION Spec
CONSTANTS
  u1 = u1
  r1 = r1
  r2 = r2
  x1 = x1
  feat = feat
  none = none
  Nobody = Nobody
  NoTxn = NoTxn
  Users = {u1}
  Reqs = {r1, r2}
  Txns = {x1}
  Reward <- Reward1
  Items = {"classic", "orange", "basic", "disco", "supporter"}
  Catalog <- MCCatalog
  Fallback <- MCFallback
  Feats = {}
  NoFeat = none
  Scores = {1, 2}
  Earnings = {1}
  Opening <- MCOpening
  Removable = {}
  StoreMayFail = TRUE
  MaxRuns = 2
  MaxRecords = 2
  Worth <- MCWorth
INVARIANTS CoinsInSync SoldIsPaid OffersAreAccountedFor RunsAreCounted
