CONSTANTS
  WIN_MAX = 1
  DECOR_TITLEBAR_H = 1
  c1 = c1
  c2 = c2
  NoConn = NoConn
  w1 = w1
  ZeroWid = ZeroWid
  Conn = {c1, c2}
  Wid = {w1}
  CL_MAX_CLIENTS = 1
  CL_VERSION = 2
  CL_MIN_VERSION = 1
  Kinds = {"CREATE", "CURSOR", "OTHER"}
  CreateWids = {w1}
  CreateRoles = {"TASKBAR", "MENU"}
  Hellos <- GoodAndBad
  Tokens <- Token1
  Commits <- NoForm
  Rects <- At1
  Screens <- Screen
  InboxCap = 1
  MaxWindowId = 2
SPECIFICATION FairSpec
PROPERTIES DeadDropped HeldReapedByTraffic
