CONSTANTS
  WIN_MAX = 3
  DECOR_TITLEBAR_H = 1
  c1 = c1
  c2 = c2
  NoConn = NoConn
  w1 = w1
  ZeroWid = ZeroWid
  Conn = {c1, c2}
  Wid = {w1}
  CL_MAX_CLIENTS = 2
  CL_VERSION = 2
  CL_MIN_VERSION = 1
  Kinds = {"CREATE", "DESTROY", "FOCUS"}
  CreateWids = {w1}
  CreateRoles = {"TASKBAR"}
  Hellos <- Current
  Tokens <- Token1
  Commits <- NoForm
  Rects <- Unset
  Screens <- Screen
  InboxCap = 1
  MaxWindowId = 2
SPECIFICATION Spec
INVARIANT FocusedOwnerTold
