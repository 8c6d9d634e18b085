CONSTANTS
  WIN_MAX = 3
  DECOR_TITLEBAR_H = 1
  c1 = c1
  c2 = c2
  NoConn = NoConn
  w1 = w1
  ZeroWid = ZeroWid
  Conn = {c1, c2}
  Wid = {w1}
  CL_MAX_CLIENTS = 1
  CL_VERSION = 2
  CL_MIN_VERSION = 1
  Kinds = {"CREATE", "COMMIT", "DESTROY", "SHORT", "QUIT", "GEOMETRY"}
  CreateWids = {w1}
  CreateRoles = {"DESKTOP", "NORMAL"}
  Hellos <- Current
  Tokens <- Token1
  Commits <- LegalForms
  Rects <- At1
  Screens <- Screen2
  InboxCap = 1
  MaxWindowId = 3
SPECIFICATION Spec
SYMMETRY Symmetry
INVARIANTS BuffersOwned CleanStop ScreenKnown WallpaperBelowAll
