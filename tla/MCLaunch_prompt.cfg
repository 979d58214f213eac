SPECIFICATION LaunchSpec
CONSTANTS
  h1 = h1
  PLACES <- MCHosts
  LocalTab = LocalTab
  VERSIONS <- MCVersions
  NEWS <- MCNews
  OpenTabs = 1
  MOVES = 1
INVARIANTS
  PromptShowsSnapshot
CHECK_DEADLOCK FALSE
