SPECIFICATION ServicesSpec
CONSTANTS
  alice = alice
  r1 = r1
  r2 = r2
  r3 = r3
  NoDoc = NoDoc
  Nobody = Nobody
  NoReplay = NoReplay
  Users = {alice}
  Reqs = {r1, r2, r3}
  Replays = {"crashed", "low", "high", "tie"}
  Score <- MCScore
  ServerKeys = {"s"}
  ClientKeys = {"c"}
  Configs <- MCConfigs
  MinWindow = 3
  MaxLimit = 2
  SweepEvery = 1
  LastTime = 4
  NoWindow = NoWindow
  Callers = {"c1", "c2", "c3"}
  Clients = {"m1", "m2", "m3", "m4"}
  NoClient = NoClient
  Icons = {"a", "b"}
  Styles = {1, 2}
  Absent = Absent
  Builtin <- MCBuiltin
  Legacy <- MCLegacy
  Editors = {"e1", "e2"}
  Names = {"u", "v"}
  NoName = NoName
  NoToken = NoToken
  Keep = Keep
  Slots = {"p", "q"}
  TTL = 2
  RefreshWindow = 1
  LastSecond = 2
  MaxRestarts = 1
  Pages = {"p1", "p2"}
  Tools = {"trails", "icons", "achievements", "menus", "whole"}
  NewSlot = NewSlot
  Nothing = Nothing
  NoId = NoId
  Undefined = Undefined
  Null = Null
  BuiltIns <- MCBuiltIns
  Opening <- MCOpening
  Typed <- MCTyped
  MaxEdits = 1
  MaxSaves = 1
  Icons0 <- MCCardIcons
  Presets <- MCPresets
  Texts <- MCTexts
  NotJSON = NotJSON
  Unsaid = Unsaid
  MaxRows <- MCMaxRows
  MaxChanges = 5
  Collections = {1, 2}
  DocIds = {1, 2}
  FirstDocs <- MCFirstDocs
  MaxCalls = 3
  Unselected = Unselected
  FieldKeys = {"x", "y", "z"}
  NoKey = NoKey
  Loaded <- MCLoaded
  LoadedList <- MCLoadedList
  MaxRowsEver = 4
  Recorded = {"a", "b"}
  Taped = {"a"}
  Snapshot = {"b"}
  TotalTicks <- MCTotalTicks
  LastVersion <- MCLastVersion
  MaxAsked = 2
  MaxFrames = 2
  MaxLate = 1
  NoRun = NoRun
  Own = Own
  NotYet = NotYet
INVARIANTS
  ScoreIsTheReplays
  AtMostTwiceTheLimit
  HandedOutIsOpen
  RestartServesTheSame
  SignedInAsShown
  CardReadsAsShown
  QuietDeskSavesWhatItShows
  PageIsSaved
  BrowserPlaysWhatItSays
PROPERTIES
  WorsensOnlyIfStale
  UntouchedStaysAsSeen
  PresetsKeepTheRest
CHECK_DEADLOCK FALSE
