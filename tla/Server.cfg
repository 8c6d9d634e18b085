SPECIFICATION ServerSpec
CONSTANTS
  WIN_MAX = 2
  DECOR_TITLEBAR_H = 1
  SNAP_EDGE = 0
  BootMode <- Boot
  Modes <- Screens
  ClientRoles = {"NORMAL", "DESKTOP"}
  ClientRects <- Rects
  DefaultSize <- Unit
  ContentSizes <- Sizes
  Cascade <- Origin
  HalfDeltas <- NoHalves
  MaxWindowId = 2
  Garbage = 0
  CommitSizes <- Commits
  NoSize = NoSize
  LatticeClients = {c1, c2}
  NoClient = NoClient
  CL_MAX_CLIENTS = 1
INVARIANTS RoutingOK SeenIsHit KeysReachFocused
PROPERTIES PressReachesHit ClientsPlaceThemselves
VIEW View
