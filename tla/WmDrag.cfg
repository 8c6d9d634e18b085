SPECIFICATION Spec
CONSTANTS
  WIN_MAX = 2
  DECOR_TITLEBAR_H = 1
  SNAP_EDGE = 1
  BootMode <- DragBoot
  Modes <- DragScreen
  ClientRoles = {"TASKBAR"}
  ClientRects <- DragBars
  DefaultSize <- UnitSize
  ContentSizes <- DragSizes
  Cascade <- AtOrigin
  HalfDeltas <- Halves
  MaxWindowId = 2
  Garbage = 0
INVARIANTS TypeOK DragAnchored SnappedIsRestorable
PROPERTIES SnapClearsTaskbar
VIEW LiveState
