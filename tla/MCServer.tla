------------------------------- MODULE MCServer -------------------------------
(***************************************************************************)
(* Two windows on a screen of a few pixels.                                *)
(***************************************************************************)
EXTENDS Server

Area(w, h)      == [w |-> w, h |-> h]
Box(x, y, w, h) == [x |-> x, y |-> y, w |-> w, h |-> h]

Boot    == Area(2, 2)
Screens == {Boot}
Rects   == {Box(0, 0, 1, 1), Box(1, 0, 1, 2)}
Unit    == Area(1, 1)
Sizes   == {Unit, Area(2, 1)}
Commits == {Area(2, 1)}
Origin  == [x |-> 0, y |-> 0]
NoHalves == {}

\* See MCWindowManager!LiveState; ids of windows that are gone are told apart
\* from no window, but not from each other; kbd_focus is set anew before the
\* only phase in which a property reads it.
Gone(id) == IF id = 0 \/ Exists(stack, id) THEN id ELSE -1

View ==
  <<[stack EXCEPT !.windows = [i \in DOMAIN @ |->
       IF @[i].snapped THEN @[i] ELSE [@[i] EXCEPT !.saved = 0]]],
    screen, cursor, move_id, IF moving THEN grab ELSE 0, reconfigured_id,
    content, owner, orphaned, dying, Gone(pointer_focus), IF pc = "flush" THEN Gone(kbd_focus) ELSE 0, pc>>
============================================================================
