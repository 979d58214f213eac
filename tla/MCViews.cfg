SPECIFICATION ViewsSpec
CONSTANTS
  NAMES = {"d", "f"}
  DIRNAMES = {"d"}
  PLACES <- MCPlaces
  TOP <- MCTop
  DISK <- MCDisk
  SCENES = {"edits", "moves"}
  EDITED = {"remote"}
  c1 = c1
  c2 = c2
  CALLS <- MCCalls
  XFERS = {t1}
  SPLITS = 3
  CLICKS = 4
SYMMETRY Symmetry
INVARIANTS
  ViewsTypeOK
  FreshUnlessInDoubt
PROPERTIES
  ActsOnPicked
  PanesKeepPlaces
  DividersStay
CHECK_DEADLOCK FALSE
