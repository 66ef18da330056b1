SPECIFICATION ScreensSpec
CONSTANTS
  flowA = flowA
  flowB = flowB
  Selectable <- MCChoices
  Default <- MCDefault
  Paid = {"gem"}
  Flows = {flowA, flowB}
  MaxKinds = 1
  Handlers = 3
  NoAccount = NoAccount
  Nothing = Nothing
  Catalog <- MCCatalog
  Edits <- MCEdits
  Counted = {"orbs", "perfects"}
  MaxCount = 1
  Runs = 2
  MaxEdits = 1
  Cap = 3
  Scale = 12
  Unknown = Unknown
  Bad = Bad
  None = None
  NeededCombo = 2
  Tastes = {"ricochet", "destroy"}
  NoBackup = NoBackup
  Clicks = 2
  World <- MCWorld
  Triggers = {"t"}
  MaxSteps = 2
  Capacity = 2
  LastTick = 3
  Times = {1, 2, 3}
  Arrivals = 4
  MaxQueued = 2
  NoTrigger = NoTrigger
  ActionList <- MCActionList
  DefaultBinds <- MCDefaultBinds
  Codes = {"KeyE", "Escape"}
  Buttons = {"m0", "m2", "m4"}
  ServersOnly = {"m4"}
  Loadable <- MCLoadable
  Saves = {1, 2}
  MaxEvents = 4
  Missing = Missing
  NoAction = NoAction
  tab1 = tab1
  tab2 = tab2
  Tabs = {tab1, tab2}
  Fields = {"bg", "alpha"}
  Colors = {"bg"}
  Toggles = {}
  Library <- MCLibrary
  DefaultTheme = "aurora"
  DefaultValues <- MCDefaultValues
  Palettes <- MCPalettes
  Found <- MCFound
  Texts <- MCTexts
  MaxChanges = 2
  Custom = Custom
  BadValue = BadValue
  NothingStored = NothingStored
  Garbled = Garbled
INVARIANTS
  
  AchievementsAreTrue
  TutorialLetsGo
  ReportsAreTrue
  ControlsStayUsable
PROPERTIES
  ThemesAreKept
SYMMETRY Flowing
CHECK_DEADLOCK FALSE
