CONSTANTS
  WIN_MAX = 3
  DECOR_TITLEBAR_H = 1
  c1 = c1
  c2 = c2
  c3 = c3
  NoConn = NoConn
  w1 = w1
  ZeroWid = ZeroWid
  Conn = {c1, c2, c3}
  Wid = {w1}
  CL_MAX_CLIENTS = 2
  CL_VERSION = 2
  CL_MIN_VERSION = 1
  Kinds = {"CREATE", "QUIT"}
  CreateWids = {w1}
  CreateRoles = {"TASKBAR", "NORMAL"}
  Hellos <- Current
  Tokens <- Token1
  Commits <- NoForm
  Rects <- At1
  Screens <- Screen
  InboxCap = 1
  MaxWindowId = 2
SPECIFICATION Spec
SYMMETRY Symmetry
INVARIANTS TokensUnique SingleOwner ReconnectFindsOrphan
PROPERTIES ResilientToOthers ImplementsSessions
