SPECIFICATION FairSpec
CONSTANTS
  alice = alice
  Alice = Alice
  bob = bob
  h1 = h1
  h2 = h2
  h3 = h3
  p1 = p1
  r1 = r1
  r2 = r2
  NoRun = NoRun
  NoEntry = NoEntry
  Nothing = Nothing
  Players = {alice}
  Ids = {alice, Alice}
  KeyOf <- OneKey
  Hashes = {h1, h2}
  Renderable = {h1, h2}
  Profiles = {p1}
  Reqs = {r1, r2}
  MayStop = TRUE
  MayRestart = TRUE
INVARIANTS QueueIsServed StoreIsSound ServedIsWhole
PROPERTY QueuedSettles
