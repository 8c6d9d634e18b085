---------------------------- MODULE WindowStack ----------------------------
(***************************************************************************)
(* The server-owned window model of src/src/window.c as pure operators.    *)
(* A stack is a record:                                                    *)
(*   windows   the z-ordered array, bottom first (windows[1] is bottom)    *)
(*   focus_id  the focused window's id, 0 for none                         *)
(*   next_id   the monotonic id allocator                                  *)
(* `count' is Len(windows).  No operation ever clears a window's `mapped'  *)
(* flag, so it is left out, as are the title and the placeholder colour.   *)
(***************************************************************************)
EXTENDS Integers, SequencesExt

CONSTANTS WIN_MAX,           \* capacity of the window array
          DECOR_TITLEBAR_H   \* height of the server-drawn title bar

ASSUME WinMaxAssumption == WIN_MAX \in Nat \ {0}
ASSUME TitlebarAssumption == DECOR_TITLEBAR_H \in Nat \ {0}

Role == {"NORMAL", "DESKTOP", "TASKBAR", "TRAY", "MENU", "TOOLTIP"}

Rect == [x : Int, y : Int, w : Int, h : Int]

\* `buf' names the pixel mapping the compositor reads, 0 for NULL.
Window == [id : Nat \ {0}, role : Role, x : Int, y : Int, w : Int, h : Int,
           buf : Nat, snapped : BOOLEAN, saved : Rect, app_decorated : BOOLEAN]

Stack == [windows : Seq(Window), focus_id : Nat, next_id : Nat \ {0}]

\* Fault: the allocator starts at the id that means none.
window_stack_init_Zero == [windows |-> << >>, focus_id |-> 0, next_id |-> 0]

window_stack_init == [windows |-> << >>, focus_id |-> 0, next_id |-> 1]

\* A window as memset and window_create leave it.
NewWindow(id, role, r) ==
  [id |-> id, role |-> role, x |-> r.x, y |-> r.y, w |-> r.w, h |-> r.h,
   buf |-> 0, snapped |-> FALSE, saved |-> [x |-> 0, y |-> 0, w |-> 0, h |-> 0],
   app_decorated |-> FALSE]

RectOf(w) == [x |-> w.x, y |-> w.y, w |-> w.w, h |-> w.h]

----------------------------------------------------------------------------
(* Look-up.                                                                *)

\* Position of a window in the array, 0 (the code's -1) when there is none.
window_index(s, id) ==
  IF \E i \in DOMAIN s.windows : s.windows[i].id = id
  THEN CHOOSE i \in DOMAIN s.windows : s.windows[i].id = id
  ELSE 0

Exists(s, id) == \E i \in DOMAIN s.windows : s.windows[i].id = id

window_by_id(s, id) == s.windows[window_index(s, id)]

window_has_ssd(w) == w.role = "NORMAL" /\ ~w.app_decorated

InRect(r, gx, gy) == /\ gx >= r.x /\ gx < r.x + r.w
                     /\ gy >= r.y /\ gy < r.y + r.h

\* Id of the topmost window under a point, 0 when there is none.
window_at(s, gx, gy) ==
  LET hits == {i \in DOMAIN s.windows : InRect(s.windows[i], gx, gy)}
  IN  IF hits = {} THEN 0 ELSE s.windows[Max(hits)].id

----------------------------------------------------------------------------
(* Operations.  Each maps a stack to the stack the C function leaves.      *)

IsFull(s) == Len(s.windows) >= WIN_MAX

window_create(s, role, r) ==
  IF IsFull(s) THEN s
  ELSE [windows  |-> Append(s.windows, NewWindow(s.next_id, role, r)),
        focus_id |-> s.focus_id,
        next_id  |-> s.next_id + 1]

\* Fault: closing the focused window leaves its id behind.
window_destroy_Dangles(s, id) ==
  IF ~Exists(s, id) THEN s
  ELSE [s EXCEPT !.windows = RemoveAt(@, window_index(s, id))]

window_destroy(s, id) ==
  IF ~Exists(s, id) THEN s
  ELSE LET rest == RemoveAt(s.windows, window_index(s, id))
           top  == IF rest = << >> THEN 0 ELSE rest[Len(rest)].id
       IN  [windows  |-> rest,
            focus_id |-> IF s.focus_id = id THEN top ELSE s.focus_id,
            next_id  |-> s.next_id]

\* Fault: swap with the top instead of rotating.
move_to_top_Swap(ws, i) == [ws EXCEPT ![i] = ws[Len(ws)], ![Len(ws)] = ws[i]]

\* Rotations of the array that keep the order of the others.
move_to_top(ws, i)    == Append(RemoveAt(ws, i), ws[i])
move_to_bottom(ws, i) == << ws[i] >> \o RemoveAt(ws, i)

window_raise(s, id) ==
  IF Exists(s, id)
  THEN [s EXCEPT !.windows = move_to_top(@, window_index(s, id))]
  ELSE s

window_lower(s, id) ==
  IF Exists(s, id)
  THEN [s EXCEPT !.windows = move_to_bottom(@, window_index(s, id))]
  ELSE s

\* Replace the one window named id by w.
Update(s, id, w) == [s EXCEPT !.windows[window_index(s, id)] = w]

window_move(s, id, nx, ny) ==
  IF Exists(s, id)
  THEN Update(s, id, [window_by_id(s, id) EXCEPT !.x = nx, !.y = ny])
  ELSE s

\* A width or height that is not positive leaves the old one in place.
window_set_geometry(s, id, r) ==
  IF Exists(s, id)
  THEN Update(s, id, [window_by_id(s, id) EXCEPT
                        !.x = r.x, !.y = r.y,
                        !.w = IF r.w > 0 THEN r.w ELSE @,
                        !.h = IF r.h > 0 THEN r.h ELSE @])
  ELSE s

\* Fault: focusing raises the wallpaper too.
window_focus_RaisesAll(s, id) ==
  IF Exists(s, id) THEN window_raise([s EXCEPT !.focus_id = id], id) ELSE s

window_focus(s, id) ==
  IF ~Exists(s, id) THEN s
  ELSE LET f == [s EXCEPT !.focus_id = id]
       IN  IF window_by_id(s, id).role = "DESKTOP" THEN f ELSE window_raise(f, id)

\* Fault: Alt-Tab walks down the stack, which only ever swaps the top two.
window_focus_cycle_Down(s, dir) ==
  LET n        == Len(s.windows)
      start    == window_index(s, s.focus_id)
      probe(k) == ((start - 1 - dir * k) % n) + 1
      hits     == {k \in 1..n : s.windows[probe(k)].role = "NORMAL"}
  IN  IF hits = {} THEN s ELSE window_focus(s, s.windows[probe(Min(hits))].id)

\* Focus the next NORMAL window in direction dir, wrapping around the array and
\* ending at the window the search started from.
window_focus_cycle(s, dir) ==
  LET n        == Len(s.windows)
      start    == window_index(s, s.focus_id)
      probe(k) == ((start - 1 + dir * k) % n) + 1
      hits     == {k \in 1..n : s.windows[probe(k)].role = "NORMAL"}
  IN  IF hits = {} THEN s ELSE window_focus(s, s.windows[probe(Min(hits))].id)

----------------------------------------------------------------------------
(* What every user of a stack may rely on.                                 *)

\* Ids are unique, never 0 and all already issued: an id is never reused.
UniqueIds(s) ==
  /\ \A i \in DOMAIN s.windows : s.windows[i].id < s.next_id
  /\ \A i, j \in DOMAIN s.windows : s.windows[i].id = s.windows[j].id => i = j

\* The focus never dangles.
FocusLive(s) == s.focus_id = 0 \/ Exists(s, s.focus_id)

\* Wallpapers form the bottom of the stack.
DesktopsBelow(s) ==
  \A i, j \in DOMAIN s.windows :
     s.windows[j].role = "DESKTOP" /\ s.windows[i].role # "DESKTOP" => j < i

\* The focused application window is above every other application window.
FocusedAppOnTop(s) ==
  \A i, j \in DOMAIN s.windows :
     /\ s.windows[i].id = s.focus_id
     /\ s.windows[i].role = "NORMAL"
     /\ s.windows[j].role = "NORMAL"
     => j <= i

\* While an application window exists, some window has the focus.
AppsHaveFocus(s) ==
  s.focus_id = 0 => \A i \in DOMAIN s.windows : s.windows[i].role # "NORMAL"

CountBounded(s) == Len(s.windows) <= WIN_MAX
============================================================================
