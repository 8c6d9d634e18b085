SPECIFICATION Spec
CONSTANTS
  WIN_MAX = 3
  DECOR_TITLEBAR_H = 1
  SNAP_EDGE = 0
  BootMode <- FocusBoot
  Modes <- FocusScreens
  ClientRoles = {"NORMAL", "DESKTOP", "MENU"}
  ClientRects <- FocusRects
  DefaultSize <- UnitSize
  ContentSizes <- FocusSizes
  Cascade <- AtOrigin
  HalfDeltas <- NoHalves
  MaxWindowId = 4
  Garbage = 1
INVARIANTS StackSound StackingOrder AltTabReachesAll
PROPERTIES StableOrder
VIEW LiveState
