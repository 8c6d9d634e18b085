CONSTANTS
  WIN_MAX = 2
  DECOR_TITLEBAR_H = 1
  s1 = s1
  s2 = s2
  c1 = c1
  c2 = c2
  Surfaces = {s1, s2}
  Clients = {c1, c2}
  Owner <- OneEach
  Offers <- AllAndOne
  Cascade <- Corner
  WmRects <- Beside
  Points <- Pixel
  SeatFirst = TRUE
  MaxWindowId = 2
SPECIFICATION Spec
VIEW View
INVARIANTS TypeOK WindowPerToplevel PixelsLive SceneRepainted EventsAreAnnounced
