--------------------------- MODULE WindowManager ---------------------------
(***************************************************************************)
(* The window-manager policy of src/src/wm.c: cursor, focus by click,      *)
(* title-bar drags, Aero Snap and Alt-Tab over the window stack.  The      *)
(* window requests both transports make of the same stack run between the  *)
(* input events, as does a resolution change from the control socket.      *)
(***************************************************************************)
EXTENDS WindowStack

CONSTANTS SNAP_EDGE,      \* distance from a screen edge that triggers a snap
          Modes,          \* the screen sizes a resolution change may select
          BootMode,       \* the one server_run starts in
          ClientRoles,    \* roles CrystallineLattice clients ask for
          ClientRects,    \* rectangles CrystallineLattice clients ask for
          DefaultSize,    \* size of a client window that asks for none
          ContentSizes,   \* buffer sizes Wayland clients commit
          Cascade,        \* where the Wayland frontend places a new toplevel
          HalfDeltas,     \* relative motion per event, in half pixels
          MaxWindowId,    \* bound: windows created over a behaviour
          Garbage         \* what an uninitialised word may hold

Size == [w : Nat \ {0}, h : Nat \ {0}]

ASSUME SnapAssumption == SNAP_EDGE \in Nat
ASSUME ModesAssumption == BootMode \in Modes /\ Modes \subseteq Size
ASSUME RequestsAssumption ==
  /\ ClientRoles \subseteq Role
  /\ ClientRects \subseteq Rect
  /\ DefaultSize \in Size
  /\ ContentSizes \subseteq Size
  /\ Cascade \in [x : Int, y : Int]
  /\ HalfDeltas \subseteq Int
  /\ MaxWindowId \in Nat
  /\ Garbage \in Nat

VARIABLES stack,            \* wm->stack
          screen,           \* wm->screen_w, screen_h
          cursor,           \* wm->cursor_x, cursor_y
          moving, move_id,  \* the interactive move in progress
          grab,             \* wm->grab_dx, grab_dy
          reconfigured_id   \* window whose new size its client must be told

vars == <<stack, screen, cursor, moving, move_id, grab, reconfigured_id>>

drag == <<moving, move_id, grab>>

\* wm_init sets every field but reconfigured_id, and server_run's struct wm is
\* an automatic variable.
Init ==
  /\ stack = window_stack_init
  /\ screen = BootMode
  /\ cursor = [x |-> screen.w \div 2, y |-> screen.h \div 2]
  /\ moving = FALSE
  /\ move_id = 0
  /\ grab = [dx |-> 0, dy |-> 0]
  /\ reconfigured_id \in {0, Garbage}

----------------------------------------------------------------------------
(* Pointer motion.                                                         *)

clampi(v, lo, hi) == IF v < lo THEN lo ELSE IF v > hi THEN hi ELSE v

\* C's conversion of a double, here a number of halves, to int.
Truncate(half) == IF half >= 0 THEN half \div 2 ELSE -((-half) \div 2)

\* Fault: the window's corner jumps to the cursor.
drag_grabbed_Corner(s, c) == IF moving THEN window_move(s, move_id, c.x, c.y) ELSE s

drag_grabbed(s, c) ==
  IF moving THEN window_move(s, move_id, c.x - grab.dx, c.y - grab.dy) ELSE s

MoveCursor(nx, ny) ==
  LET c == [x |-> clampi(nx, 0, screen.w - 1), y |-> clampi(ny, 0, screen.h - 1)]
  IN  /\ cursor' = c
      /\ stack' = drag_grabbed(stack, c)
      /\ UNCHANGED <<screen, drag, reconfigured_id>>

wm_pointer_motion(dx, dy) ==
  MoveCursor(cursor.x + Truncate(dx), cursor.y + Truncate(dy))

wm_pointer_motion_abs(ax, ay) == MoveCursor(Truncate(ax), Truncate(ay))

----------------------------------------------------------------------------
(* Left press: focus, then perhaps start a drag.                           *)

\* Fault: any window can be dragged by its first rows.
OnHandle_AnyWindow(w) == cursor.y - w.y < DECOR_TITLEBAR_H

\* The press lands on a window's title bar and that bar is a drag handle.
OnHandle(w) == window_has_ssd(w) /\ cursor.y - w.y < DECOR_TITLEBAR_H

StartDrag(id, x, y) ==
  /\ moving' = TRUE
  /\ move_id' = id
  /\ grab' = [dx |-> cursor.x - x, dy |-> cursor.y - y]

\* The floating rectangle a snapped window gets back under the cursor.
Unsnapped(w) ==
  LET nw == IF w.saved.w > 0 THEN w.saved.w ELSE w.w
      nh == IF w.saved.h > 0 THEN w.saved.h ELSE w.h
      wx == cursor.x - nw \div 2
      wy == cursor.y - DECOR_TITLEBAR_H \div 2
  IN  [x |-> IF wx < 0 THEN 0 ELSE wx, y |-> IF wy < 0 THEN 0 ELSE wy,
       w |-> nw, h |-> nh]

PressLeft ==
  LET id == window_at(stack, cursor.x, cursor.y)
      s1 == window_focus(stack, id)
      w  == window_by_id(s1, id)
  IN  /\ id # 0
      /\ UNCHANGED <<screen, cursor>>
      /\ \/ /\ ~OnHandle(w)                     \* passes through to the client
            /\ stack' = s1
            /\ UNCHANGED <<drag, reconfigured_id>>
         \/ /\ OnHandle(w) /\ ~w.snapped
            /\ stack' = s1
            /\ StartDrag(id, w.x, w.y)
            /\ UNCHANGED reconfigured_id
         \/ /\ OnHandle(w) /\ w.snapped
            /\ LET r  == Unsnapped(w)
                   s2 == window_set_geometry(s1, id, r)
               IN  /\ stack' = Update(s2, id,
                                 [window_by_id(s2, id) EXCEPT !.snapped = FALSE])
                   /\ StartDrag(id, r.x, r.y)
            /\ reconfigured_id' = id

----------------------------------------------------------------------------
(* Left release: end the drag, perhaps snap.                               *)

\* Fault: the taskbar is forgotten.
wm_work_area_Full == [x |-> 0, y |-> 0, w |-> screen.w, h |-> screen.h]

\* Only the bottommost taskbar counts, wherever it is docked.
wm_work_area ==
  LET bars   == {i \in DOMAIN stack.windows : stack.windows[i].role = "TASKBAR"}
      t      == stack.windows[Min(bars)]
      wide   == bars # {} /\ t.w >= (screen.w * 3) \div 4
      tall   == bars # {} /\ ~wide /\ t.h >= (screen.h * 3) \div 4
      top    == wide /\ t.y <= 0 /\ t.y + t.h > 0
      bottom == wide /\ t.y > 0 /\ t.y < screen.h
      left   == tall /\ t.x <= 0 /\ t.x + t.w > 0
      right  == tall /\ t.x > 0 /\ t.x < screen.w
      ax == IF left THEN t.x + t.w ELSE 0
      ay == IF top THEN t.y + t.h ELSE 0
      aw == IF right THEN t.x ELSE screen.w - ax
      ah == IF bottom THEN t.y ELSE screen.h - ay
  IN  [x |-> ax, y |-> ay, w |-> IF aw < 1 THEN screen.w ELSE aw,
       h |-> IF ah < 1 THEN screen.h ELSE ah]

AtTop   == cursor.y <= SNAP_EDGE
AtLeft  == cursor.x <= SNAP_EDGE
AtRight == cursor.x >= screen.w - SNAP_EDGE

\* The top edge maximises; of the other two the left one wins.
SnapTarget ==
  LET a    == wm_work_area
      half == a.w \div 2
  IN  [x |-> IF AtTop \/ AtLeft THEN a.x ELSE a.x + a.w - half, y |-> a.y,
       w |-> IF AtTop THEN a.w ELSE half, h |-> a.h]

Snaps(id) == /\ Exists(stack, id)
             /\ window_has_ssd(window_by_id(stack, id))
             /\ AtTop \/ AtLeft \/ AtRight

\* Fault: the floating rectangle is not saved.
wm_snap_on_release_NoSave(id) ==
  /\ stack' = window_set_geometry(
                Update(stack, id, [window_by_id(stack, id) EXCEPT !.snapped = TRUE]),
                id, SnapTarget)
  /\ reconfigured_id' = id

wm_snap_on_release(id) ==
  LET w  == window_by_id(stack, id)
      s1 == Update(stack, id, [w EXCEPT
              !.saved = IF w.snapped THEN @ ELSE RectOf(w), !.snapped = TRUE])
  IN  /\ stack' = window_set_geometry(s1, id, SnapTarget)
      /\ reconfigured_id' = id

ReleaseLeft ==
  /\ moving
  /\ moving' = FALSE
  /\ move_id' = 0
  /\ UNCHANGED <<screen, cursor, grab>>
  /\ \/ Snaps(move_id) /\ wm_snap_on_release(move_id)
     \/ ~Snaps(move_id) /\ UNCHANGED <<stack, reconfigured_id>>

----------------------------------------------------------------------------
(* Alt-Tab (wm_key) and the end of a server_run iteration.                 *)

wm_key ==
  /\ stack' = window_focus_cycle(stack, 1)
  /\ UNCHANGED <<screen, cursor, drag, reconfigured_id>>

\* server_run tells the owning client (Transport.tla) and clears the field.
NotifyReconfigured ==
  /\ reconfigured_id # 0
  /\ reconfigured_id' = 0
  /\ UNCHANGED <<stack, screen, cursor, drag>>

----------------------------------------------------------------------------
(* What the two transports and the control socket do to the same stack.    *)

\* The stack part of on_create_window, for a CrystallineLattice client.
CreateClientWindow(role, r) ==
  LET id == stack.next_id
      s1 == window_create(stack, role, [r EXCEPT
              !.w = IF @ = 0 THEN DefaultSize.w ELSE @,
              !.h = IF @ = 0 THEN DefaultSize.h ELSE @])
      s2 == Update(s1, id, [window_by_id(s1, id) EXCEPT !.app_decorated = TRUE])
  IN  /\ ~IsFull(stack)
      /\ id <= MaxWindowId
      /\ stack' = CASE role = "NORMAL"  -> window_focus(s2, id)
                    [] role = "DESKTOP" ->
                         window_lower(window_set_geometry(s2, id,
                           [x |-> 0, y |-> 0, w |-> screen.w, h |-> screen.h]), id)
                    [] OTHER -> s2
      /\ UNCHANGED <<screen, cursor, drag, reconfigured_id>>

\* on_set_geometry: a client moves or resizes any window but a wallpaper.
SetClientGeometry(id, r) ==
  /\ Exists(stack, id)
  /\ window_by_id(stack, id).app_decorated
  /\ window_by_id(stack, id).role # "DESKTOP"
  /\ stack' = window_set_geometry(stack, id, r)
  /\ UNCHANGED <<screen, cursor, drag, reconfigured_id>>

\* surface_map_or_update, first content: a Wayland toplevel joins the scene.
MapToplevel(sz) ==
  LET id == stack.next_id
      r  == [x |-> Cascade.x, y |-> Cascade.y, w |-> sz.w, h |-> sz.h + DECOR_TITLEBAR_H]
  IN  /\ ~IsFull(stack)
      /\ id <= MaxWindowId
      /\ stack' = window_focus(window_create(stack, "NORMAL", r), id)
      /\ UNCHANGED <<screen, cursor, drag, reconfigured_id>>

\* surface_map_or_update, later content: the window takes the buffer's size,
\* dragged or snapped as it may be.
ResizeToplevel(id, sz) ==
  /\ Exists(stack, id)
  /\ window_has_ssd(window_by_id(stack, id))
  /\ stack' = Update(stack, id, [window_by_id(stack, id) EXCEPT
                !.w = sz.w, !.h = sz.h + DECOR_TITLEBAR_H])
  /\ UNCHANGED <<screen, cursor, drag, reconfigured_id>>

\* Either transport takes a window away, the dragged or focused one included.
DestroyWindow(id) ==
  /\ Exists(stack, id)
  /\ stack' = window_destroy(stack, id)
  /\ UNCHANGED <<screen, cursor, drag, reconfigured_id>>

Refit(w, m) == IF w.role = "DESKTOP"
               THEN [w EXCEPT !.x = 0, !.y = 0, !.w = m.w, !.h = m.h]
               ELSE w

\* apply_mode_cb: clamp the cursor, refit the wallpapers.
SetMode(m) ==
  /\ screen' = m
  /\ cursor' = [x |-> IF cursor.x >= m.w THEN m.w - 1 ELSE cursor.x,
                y |-> IF cursor.y >= m.h THEN m.h - 1 ELSE cursor.y]
  /\ stack' = [stack EXCEPT !.windows = [i \in DOMAIN @ |-> Refit(@[i], m)]]
  /\ UNCHANGED <<drag, reconfigured_id>>

----------------------------------------------------------------------------
\* Absolute devices are scaled to the size input_create was given, which no mode
\* change updates.  Twice the coordinates, one pixel past the edge included.
AbsInput == [x : {2 * i + 1 : i \in 0 .. BootMode.w}, y : {2 * i + 1 : i \in 0 .. BootMode.h}]

Pointer == \/ \E dx, dy \in HalfDeltas : wm_pointer_motion(dx, dy)
           \/ \E a \in AbsInput : wm_pointer_motion_abs(a.x, a.y)

Requests == \/ \E role \in ClientRoles, r \in ClientRects : CreateClientWindow(role, r)
            \/ \E id \in 1..MaxWindowId, r \in ClientRects : SetClientGeometry(id, r)
            \/ \E sz \in ContentSizes : MapToplevel(sz)
            \/ \E id \in 1..MaxWindowId, sz \in ContentSizes : ResizeToplevel(id, sz)
            \/ \E id \in 1..MaxWindowId : DestroyWindow(id)
            \/ \E m \in Modes : SetMode(m)

Next == Pointer \/ PressLeft \/ ReleaseLeft \/ wm_key \/ NotifyReconfigured \/ Requests

Spec == Init /\ [][Next]_vars
----------------------------------------------------------------------------
(* Properties.                                                             *)

\* Every variable has its type (struct wm and struct window_stack).
TypeOK ==
  /\ stack \in Stack
  /\ screen \in Modes
  /\ cursor \in [x : Int, y : Int]
  /\ moving \in BOOLEAN
  /\ move_id \in Nat
  /\ grab \in [dx : Int, dy : Int]
  /\ reconfigured_id \in Nat

\* window.c: ids stay unique, the focus never dangles and the array never
\* overflows, whichever actor creates, destroys or raises.
StackSound == UniqueIds(stack) /\ FocusLive(stack) /\ CountBounded(stack)

\* window.c "stays at the bottom" and window.h "focus implies raise": no click,
\* Alt-Tab, drag or creation puts a window below a wallpaper, the focused
\* application is above all the others, also after focus fell back from a window
\* that went away, and while an application is open the keyboard has somewhere to go.
StackingOrder == DesktopsBelow(stack) /\ FocusedAppOnTop(stack) /\ AppsHaveFocus(stack)

\* wm.c "Wine windows drag their own title bar; shell surfaces never drag" and
\* drag_grabbed "so its grabbed point stays under the pointer": what is being
\* dragged, as long as it exists, is a window glacier decorates, not snapped, held
\* by its title bar, and keeps its offset from the cursor through focus changes,
\* resizes and restacking.
DragAnchored ==
  /\ moving <=> move_id # 0
  /\ moving => grab.dx >= 0 /\ grab.dy \in 0 .. DECOR_TITLEBAR_H - 1
  /\ moving /\ Exists(stack, move_id) =>
       LET w == window_by_id(stack, move_id)
       IN  /\ window_has_ssd(w) /\ ~w.snapped
           /\ w.x = cursor.x - grab.dx /\ w.y = cursor.y - grab.dy

\* Aero Snap: a snapped window is one glacier decorates and holds a usable
\* floating size to restore, however often its client resized it meanwhile.
SnappedIsRestorable ==
  \A i \in DOMAIN stack.windows :
    LET w == stack.windows[i]
    IN  /\ window_has_ssd(w) => w.w > 0 /\ w.h > 0
        /\ w.snapped => window_has_ssd(w) /\ w.saved.w > 0 /\ w.saved.h > 0

\* window_focus_cycle: from every state the system reaches, pressing Alt-Tab as
\* often as there are applications gives each of them the focus.
AltTabReachesAll ==
  LET apps == {i \in DOMAIN stack.windows : stack.windows[i].role = "NORMAL"}
      n    == Cardinality(apps)
      after[k \in 0..n] == IF k = 0 THEN stack ELSE window_focus_cycle(after[k - 1], 1)
  IN  \A i \in apps : \E k \in 1..n : after[k].focus_id = stack.windows[i].id

Below(s, a, b) == window_index(s, a) < window_index(s, b)

\* One step moves at most one window in the z-order: raising, sinking and
\* removing keep the order of all the others.
StableOrder ==
  [][stack'.windows # stack.windows =>
     \E moved \in 0..MaxWindowId : \A a, b \in (1..MaxWindowId) \ {moved} :
       /\ Exists(stack, a) /\ Exists(stack, b)
       /\ Exists(stack', a) /\ Exists(stack', b)
       => (Below(stack, a, b) <=> Below(stack', a, b))]_vars

Overlap(r, q) == /\ r.x < q.x + q.w /\ q.x < r.x + r.w
                 /\ r.y < q.y + q.h /\ q.y < r.y + r.h

\* A taskbar along one whole edge, thinner than three quarters of the screen, which
\* wm_work_area rounds down.
Docked(t) == \/ /\ t.x = 0 /\ t.w = screen.w /\ t.h > 0
                /\ t.y = 0 \/ t.y + t.h = screen.h
                /\ t.h < (3 * screen.h) \div 4
             \/ /\ t.y = 0 /\ t.h = screen.h /\ t.w > 0
                /\ t.x = 0 \/ t.x + t.w = screen.w
                /\ t.w < (3 * screen.w) \div 4

\* wm_work_area "so a maximized window doesn't bury the taskbar": a release that
\* snaps a window leaves the one docked taskbar uncovered by it.
SnapClearsTaskbar ==
  [][moving /\ ~moving' /\ stack' # stack =>
       LET w    == window_by_id(stack', move_id)
           bars == {i \in DOMAIN stack.windows : stack.windows[i].role = "TASKBAR"}
       IN  \A i \in bars : bars = {i} /\ Docked(stack.windows[i]) =>
             ~Overlap(RectOf(w), RectOf(stack.windows[i]))]_vars
============================================================================
