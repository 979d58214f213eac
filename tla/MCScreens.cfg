SPECIFICATION ScreensSpec
CONSTANTS
  h1 = h1
  h2 = h2
  r1 = r1
  r2 = r2
  q1 = q1
  q2 = q2
  HOSTS <- MCHosts
  ROWS <- MCRows
  REQS <- MCReqs
  KINDS = {"group", "identity", "tag", "key"}
  NoHost = NoHost
  ASKS = 3
  p4 = p4
  p5 = p5
  c1 = c1
  c2 = c2
  c3 = c3
  PINS <- MCPins
  PinLen <- MCPinLen
  CALLS <- MCCalls
  NoPin = NoPin
  STEPS = 3
  place = place
  PLACES <- MCPlaces
  LocalTab = LocalTab
  VERSIONS <- MCVersions
  NEWS <- MCNews
  OpenTabs = 1
  MOVES = 2
  tabA = tabA
  tabB = tabB
  hostA = hostA
  Anywhere = Anywhere
  s1 = s1
  s2 = s2
  j1 = j1
  j2 = j2
  None = None
  KEY = KEY
  Blank = Blank
  PANES <- MCPanes
  TabOf <- MCTabOf
  HostOf <- MCHostOf
  SNIPPETS <- MCSnippets
  Custom <- MCCustom
  JOBS <- MCJobs
  TURNS = 3
INVARIANTS
  ScreensTypeOK
  StoresFollow
  StartsLocked
  
  SettingsSurvive
  ChoicesKept
  NewsNotSkipped
  HistoryIsWhatRan
PROPERTIES
  OnlyToggledChange
  UnlockIsAnswered
CHECK_DEADLOCK FALSE
