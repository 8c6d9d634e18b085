-------------------------- MODULE MCWindowManager --------------------------
(***************************************************************************)
(* Small screens, windows and requests for TLC.                            *)
(***************************************************************************)
EXTENDS WindowManager

Screen(w, h) == [w |-> w, h |-> h]
Box(x, y, w, h) == [x |-> x, y |-> y, w |-> w, h |-> h]

\* Drags and snaps: a 4x3 screen whose pixels all but (2, 2) are within the
\* snap margin of an edge, and a taskbar along its bottom or left edge.
DragBoot   == Screen(4, 3)
DragScreen == {DragBoot}
DragBars   == {Box(0, 2, 4, 1), Box(0, 0, 1, 3)}
DragSizes  == {Screen(2, 1), Screen(1, 1)}
AtOrigin   == [x |-> 0, y |-> 0]

\* Focus and z-order: two screen sizes, rectangles that overlap, one request of
\* which leaves the size alone.
FocusBoot    == Screen(2, 1)
FocusScreens == {FocusBoot, Screen(1, 1)}
FocusRects   == {Box(0, 0, 1, 1), Box(1, 0, 0, 1)}
UnitSize     == Screen(1, 1)
FocusSizes   == {UnitSize}

\* A pixel and a half to the left or up, one pixel to the right or down.
Halves == {-3, 2}
NoHalves == {}

\* States that differ only in words no later step reads are explored once: the
\* grab offset outside a drag, the saved rectangle of a window not snapped, and
\* reconfigured_id, which only its own reset reads.
LiveState ==
  <<[stack EXCEPT !.windows = [i \in DOMAIN @ |->
       IF @[i].snapped THEN @[i] ELSE [@[i] EXCEPT !.saved = 0]]],
    screen, cursor, move_id, IF moving THEN grab ELSE 0>>
============================================================================
