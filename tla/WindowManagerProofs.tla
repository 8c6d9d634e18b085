------------------------ MODULE WindowManagerProofs ------------------------
(***************************************************************************)
(* Theorems about the window manager, for every screen, capacity, snap     *)
(* margin and set of requests.                                             *)
(***************************************************************************)
EXTENDS WindowManager, WindowStackProofs, FiniteSetTheorems

\* The inductive invariant: the words of struct wm have their types, and the
\* stack is sound.  Soundness needs no help from the drag state: every call that
\* wm.c makes with a stale id is a call window.c ignores.
Inv == TypeOK /\ StackSound

\* The part of the invariant that is not about the stack.
WordsOK ==
  /\ screen \in Modes
  /\ cursor \in [x : Int, y : Int]
  /\ moving \in BOOLEAN
  /\ move_id \in Nat
  /\ grab \in [dx : Int, dy : Int]
  /\ reconfigured_id \in Nat

LEMMA InvSplits == Inv <=> WordsOK /\ Sound(stack)
  BY DEF Inv, TypeOK, StackSound, WordsOK, Sound

\* The same of the next state.
LEMMA InvSplitsNext == Inv' <=> WordsOK' /\ Sound(stack')
  BY DEF Inv, TypeOK, StackSound, WordsOK, Sound

\* A mode has a positive width and height.
LEMMA ScreenIsSize ==
  ASSUME NEW m \in Modes
  PROVE  m \in Size /\ m.w \in Nat /\ m.h \in Nat /\ m.w > 0 /\ m.h > 0
  BY ModesAssumption DEF Size

\* Truncation gives an integer.
LEMMA TruncateIsInt ==
  ASSUME NEW v \in Int
  PROVE  Truncate(v) \in Int
  BY DEF Truncate

----------------------------------------------------------------------------
(* Rectangles the policy computes.                                         *)

\* The work area is a rectangle, whatever taskbar there is.
LEMMA WorkAreaIsRect ==
  ASSUME WordsOK, Sound(stack)
  PROVE  wm_work_area \in Rect
<1> DEFINE bars   == {i \in DOMAIN stack.windows : stack.windows[i].role = "TASKBAR"}
           t      == stack.windows[Min(bars)]
           wide   == bars # {} /\ t.w >= (screen.w * 3) \div 4
           tall   == bars # {} /\ ~wide /\ t.h >= (screen.h * 3) \div 4
           top    == wide /\ t.y <= 0 /\ t.y + t.h > 0
           bottom == wide /\ t.y > 0 /\ t.y < screen.h
           left   == tall /\ t.x <= 0 /\ t.x + t.w > 0
           right  == tall /\ t.x > 0 /\ t.x < screen.w
           ax == IF left THEN t.x + t.w ELSE 0
           ay == IF top THEN t.y + t.h ELSE 0
           aw == IF right THEN t.x ELSE screen.w - ax
           ah == IF bottom THEN t.y ELSE screen.h - ay
<1>1. screen.w \in Int /\ screen.h \in Int
  BY ScreenIsSize DEF WordsOK
<1>2. bars # {} => t \in Window
  <2>1. /\ DOMAIN stack.windows = 1 .. Len(stack.windows)
        /\ \A i \in DOMAIN stack.windows : stack.windows[i] \in Window
    BY DEF Sound, Stack
  <2>2. bars \subseteq Nat /\ bars \subseteq DOMAIN stack.windows
    BY <2>1
  <2> HIDE DEF bars
  <2> QED
    BY <2>1, <2>2, MinOfNats
<1> HIDE DEF t
<1>3. bars # {} => t.x \in Int /\ t.y \in Int /\ t.w \in Int /\ t.h \in Int
  BY <1>2 DEF Window
<1>4. wm_work_area = [x |-> ax, y |-> ay, w |-> IF aw < 1 THEN screen.w ELSE aw,
                      h |-> IF ah < 1 THEN screen.h ELSE ah]
  BY DEF wm_work_area, t
<1> HIDE DEF bars, wide, tall
<1>5. (top \/ bottom \/ left \/ right) => bars # {}
  BY DEF wide, tall
<1>6. ax \in Int /\ ay \in Int
  BY <1>3, <1>5
<1> HIDE DEF ax, ay
<1>7. aw \in Int /\ ah \in Int
  BY <1>1, <1>3, <1>5, <1>6
<1> HIDE DEF aw, ah
<1> QED
  BY <1>1, <1>4, <1>6, <1>7 DEF Rect

\* A snap target is a rectangle.
LEMMA SnapTargetIsRect ==
  ASSUME WordsOK, Sound(stack)
  PROVE  SnapTarget \in Rect
<1> DEFINE a == wm_work_area
<1>1. a.x \in Int /\ a.y \in Int /\ a.w \in Int /\ a.h \in Int
  BY WorkAreaIsRect DEF Rect
<1> HIDE DEF a
<1>2. a.w \div 2 \in Int
  BY <1>1
<1> QED
  BY <1>1, <1>2 DEF SnapTarget, Rect, a

\* The rectangle of a window dragged out of a snap is a rectangle.
LEMMA UnsnappedIsRect ==
  ASSUME WordsOK, NEW w \in Window
  PROVE  Unsnapped(w) \in Rect
<1>1. /\ w.w \in Int /\ w.h \in Int /\ w.saved \in Rect
      /\ cursor.x \in Int /\ cursor.y \in Int
  BY DEF Window, WordsOK
<1>2. w.saved.w \in Int /\ w.saved.h \in Int
  BY <1>1 DEF Rect
<1>3. DECOR_TITLEBAR_H \div 2 \in Int
  BY TitlebarAssumption
<1> DEFINE nw == IF w.saved.w > 0 THEN w.saved.w ELSE w.w
           nh == IF w.saved.h > 0 THEN w.saved.h ELSE w.h
<1>4. nw \in Int /\ nh \in Int
  BY <1>1, <1>2
<1> HIDE DEF nw, nh
<1>5. nw \div 2 \in Int
  BY <1>4
<1> QED
  BY <1>1, <1>3, <1>4, <1>5 DEF Unsnapped, Rect, nw, nh

----------------------------------------------------------------------------
(* Each action keeps the invariant.                                        *)

\* Both kinds of pointer motion.
LEMMA MoveCursorKeeps ==
  ASSUME Inv, NEW nx \in Int, NEW ny \in Int, MoveCursor(nx, ny)
  PROVE  Inv'
<1>1. WordsOK /\ Sound(stack)
  BY InvSplits
<1>2. screen.w \in Int /\ screen.h \in Int
  BY <1>1, ScreenIsSize DEF WordsOK
<1>3. cursor' \in [x : Int, y : Int]
  <2>1. clampi(nx, 0, screen.w - 1) \in Int /\ clampi(ny, 0, screen.h - 1) \in Int
    BY <1>2 DEF clampi
  <2> QED
    BY <2>1 DEF MoveCursor
<1>4. WordsOK'
  BY <1>1, <1>3 DEF WordsOK, MoveCursor, drag
<1>5. Sound(stack')
  <2>1. stack' = drag_grabbed(stack, cursor')
    BY DEF MoveCursor
  <2>2. cursor'.x - grab.dx \in Int /\ cursor'.y - grab.dy \in Int
    BY <1>1, <1>3 DEF WordsOK
  <2> DEFINE gx == cursor'.x - grab.dx
             gy == cursor'.y - grab.dy
  <2>3. stack' = IF moving THEN window_move(stack, move_id, gx, gy) ELSE stack
    BY <2>1 DEF drag_grabbed
  <2> HIDE DEF gx, gy
  <2>4. Sound(window_move(stack, move_id, gx, gy))
    BY <1>1, <2>2, MoveSound DEF gx, gy
  <2> QED
    BY <1>1, <2>3, <2>4
<1> QED
  BY <1>4, <1>5, InvSplitsNext

\* A pointer event of either kind names an integer position.
LEMMA PointerKeeps ==
  ASSUME Inv, Pointer
  PROVE  Inv'
<1>1. WordsOK
  BY InvSplits
<1>2. screen.w \in Nat /\ screen.h \in Nat /\ cursor.x \in Int /\ cursor.y \in Int
  BY <1>1, ScreenIsSize DEF WordsOK
<1>3. ASSUME NEW dx \in HalfDeltas, NEW dy \in HalfDeltas, wm_pointer_motion(dx, dy)
      PROVE  Inv'
  <2>1. Truncate(dx) \in Int /\ Truncate(dy) \in Int
    BY RequestsAssumption, TruncateIsInt
  <2>2. cursor.x + Truncate(dx) \in Int /\ cursor.y + Truncate(dy) \in Int
    BY <1>2, <2>1
  <2> QED
    BY <1>3, <2>2, MoveCursorKeeps DEF wm_pointer_motion
<1>4. ASSUME NEW a \in AbsInput, wm_pointer_motion_abs(a.x, a.y)
      PROVE  Inv'
  <2>1. a.x \in Int /\ a.y \in Int
    BY <1>2 DEF AbsInput
  <2>2. Truncate(a.x) \in Int /\ Truncate(a.y) \in Int
    BY <2>1, TruncateIsInt
  <2> QED
    BY <1>4, <2>2, MoveCursorKeeps DEF wm_pointer_motion_abs
<1> QED
  BY <1>3, <1>4 DEF Pointer

\* A press focuses a window, and perhaps restores its floating rectangle.
LEMMA PressLeftKeeps ==
  ASSUME Inv, PressLeft
  PROVE  Inv'
<1> DEFINE id == window_at(stack, cursor.x, cursor.y)
           s1 == window_focus(stack, id)
           w  == window_by_id(s1, id)
           r  == Unsnapped(w)
           s2 == window_set_geometry(s1, id, r)
           v  == [window_by_id(s2, id) EXCEPT !.snapped = FALSE]
<1>1. WordsOK /\ Sound(stack) /\ stack \in Stack
  BY InvSplits DEF Sound
<1>2. cursor.x \in Int /\ cursor.y \in Int
  BY <1>1 DEF WordsOK
<1>3. id # 0 /\ Exists(stack, id) /\ id \in Nat
  <2>1. id # 0
    BY DEF PressLeft
  <2>2. Exists(stack, id)
    BY <1>1, <1>2, <2>1, WindowAtFinds
  <2> QED
    BY <1>1, <2>1, <2>2, WindowIndexFinds
<1>4. Sound(s1) /\ Exists(s1, id)
  BY <1>1, <1>3, FocusSound DEF SameIds
<1>5. w \in Window /\ w.x \in Int /\ w.y \in Int
  <2>1. w \in Window
    BY <1>4, WindowIndexFinds DEF Sound
  <2> QED
    BY <2>1 DEF Window
<1>6. r \in Rect /\ r.x \in Int /\ r.y \in Int
  BY <1>1, <1>5, UnsnappedIsRect DEF Rect
<1>7. \/ stack' = s1 /\ UNCHANGED <<moving, move_id, grab, reconfigured_id>>
      \/ stack' = s1 /\ StartDrag(id, w.x, w.y) /\ UNCHANGED reconfigured_id
      \/ stack' = Update(s2, id, v) /\ StartDrag(id, r.x, r.y) /\ reconfigured_id' = id
  BY DEF PressLeft, drag
<1>8. UNCHANGED <<screen, cursor>>
  BY DEF PressLeft
<1> HIDE DEF id, s1, w, r
<1>9. Sound(s2) /\ Exists(s2, id)
  BY <1>3, <1>4, <1>6, SetGeometrySound DEF SameIds
<1> HIDE DEF s2
<1>10. v \in Window /\ v.id = id
  <2>1. window_by_id(s2, id) \in Window /\ window_by_id(s2, id).id = id
    BY <1>9, WindowIndexFinds DEF Sound
  <2> QED
    BY <2>1 DEF Window
<1> HIDE DEF v
<1>11. Sound(Update(s2, id, v))
  BY <1>9, <1>10, UpdateSound
<1>12. Sound(stack')
  BY <1>4, <1>7, <1>11
<1>13. WordsOK'
  <2>1. \A x, y \in Int : StartDrag(id, x, y) =>
          /\ moving' \in BOOLEAN /\ move_id' \in Nat /\ grab' \in [dx : Int, dy : Int]
    BY <1>2, <1>3 DEF StartDrag
  <2> QED
    BY <1>1, <1>3, <1>5, <1>6, <1>7, <1>8, <2>1 DEF WordsOK
<1> QED
  BY <1>12, <1>13, InvSplitsNext

\* A release ends the drag and perhaps snaps the window.
LEMMA ReleaseLeftKeeps ==
  ASSUME Inv, ReleaseLeft
  PROVE  Inv'
<1>1. WordsOK /\ Sound(stack)
  BY InvSplits
<1>2. CASE ~Snaps(move_id)
  <2>1. UNCHANGED <<stack, screen, cursor, grab, reconfigured_id>> /\ ~moving' /\ move_id' = 0
    BY <1>2 DEF ReleaseLeft
  <2>2. moving' \in BOOLEAN
    BY DEF ReleaseLeft
  <2>3. WordsOK'
    BY <1>1, <2>1, <2>2 DEF WordsOK
  <2> QED
    BY <1>1, <2>1, <2>3, InvSplitsNext
<1>3. CASE Snaps(move_id)
  <2> DEFINE w  == window_by_id(stack, move_id)
             sv == IF w.snapped THEN w.saved ELSE RectOf(w)
             v  == [w EXCEPT !.saved = sv, !.snapped = TRUE]
             s1 == Update(stack, move_id, v)
             r  == SnapTarget
  <2>1. /\ stack' = window_set_geometry(s1, move_id, r)
        /\ reconfigured_id' = move_id
        /\ UNCHANGED <<screen, cursor, grab>> /\ moving' = FALSE /\ move_id' = 0
    BY <1>3 DEF ReleaseLeft, wm_snap_on_release
  <2>2. Exists(stack, move_id)
    BY <1>3 DEF Snaps
  <2>3. w \in Window /\ w.id = move_id
    BY <1>1, <2>2, WindowIndexFinds DEF Sound
  <2> HIDE DEF w
  <2>4. sv \in Rect
    BY <2>3 DEF Window, RectOf, Rect
  <2> HIDE DEF sv
  <2>5. v \in Window /\ v.id = move_id
    BY <2>3, <2>4 DEF Window
  <2> HIDE DEF v
  <2>6. Sound(s1)
    BY <1>1, <2>2, <2>5, UpdateSound
  <2>7. r \in Rect
    BY <1>1, SnapTargetIsRect
  <2> HIDE DEF s1, r
  <2>8. Sound(stack')
    BY <2>1, <2>6, <2>7, SetGeometrySound
  <2>9. WordsOK'
    BY <1>1, <2>1 DEF WordsOK
  <2> QED
    BY <2>8, <2>9, InvSplitsNext
<1> QED
  BY <1>2, <1>3

\* A step that changes the stack and no word.
LEMMA StackStepKeeps ==
  ASSUME Inv, Sound(stack'), UNCHANGED <<screen, cursor, drag, reconfigured_id>>
  PROVE  Inv'
<1>1. WordsOK'
  BY InvSplits DEF WordsOK, drag
<1> QED
  BY <1>1, InvSplitsNext

\* A new client window: decorated by its application, focused, at the bottom
\* across the screen, or wherever it asked to be.
LEMMA CreateClientWindowKeeps ==
  ASSUME Inv, NEW role \in ClientRoles, NEW rc \in ClientRects,
         CreateClientWindow(role, rc)
  PROVE  Inv'
<1> DEFINE id == stack.next_id
           r  == [rc EXCEPT !.w = IF @ = 0 THEN DefaultSize.w ELSE @,
                            !.h = IF @ = 0 THEN DefaultSize.h ELSE @]
           s1 == window_create(stack, role, r)
           v  == [window_by_id(s1, id) EXCEPT !.app_decorated = TRUE]
           s2 == Update(s1, id, v)
           full == [x |-> 0, y |-> 0, w |-> screen.w, h |-> screen.h]
           s3 == window_set_geometry(s2, id, full)
<1>1. WordsOK /\ Sound(stack)
  BY InvSplits
<1>2. role \in Role /\ rc \in Rect /\ DefaultSize.w \in Int /\ DefaultSize.h \in Int
  BY RequestsAssumption DEF Size
<1>3. r \in Rect
  BY <1>2 DEF Rect
<1>4. ~IsFull(stack)
  BY DEF CreateClientWindow
<1>5. /\ stack' = CASE role = "NORMAL"  -> window_focus(s2, id)
                    [] role = "DESKTOP" -> window_lower(s3, id)
                    [] OTHER -> s2
      /\ UNCHANGED <<screen, cursor, drag, reconfigured_id>>
  BY DEF CreateClientWindow
<1> HIDE DEF r
<1>6. Sound(s1) /\ s1.windows = Append(stack.windows, NewWindow(id, role, r))
      /\ NewWindow(id, role, r) \in Window
  BY <1>1, <1>2, <1>3, <1>4, CreateSound
<1>7. Exists(s1, id)
  <2>1. stack.windows \in Seq(Window) /\ NewWindow(id, role, r).id = id
    BY <1>1 DEF Sound, Stack, NewWindow
  <2> DEFINE nw == NewWindow(id, role, r)
  <2> HIDE DEF nw
  <2>2. /\ Len(stack.windows) + 1 \in DOMAIN s1.windows
        /\ s1.windows[Len(stack.windows) + 1] = nw
    BY <1>6, <2>1 DEF nw
  <2> QED
    BY <2>1, <2>2 DEF Exists, nw
<1> HIDE DEF s1, id
<1>8. window_by_id(s1, id) \in Window /\ window_by_id(s1, id).id = id
  BY <1>6, <1>7, WindowIndexFinds DEF Sound
<1>9. v \in Window /\ v.id = id
  BY <1>8 DEF Window
<1> HIDE DEF v
<1>10. Sound(s2)
  BY <1>6, <1>7, <1>9, UpdateSound
<1> HIDE DEF s2
<1>11. full \in Rect
  BY <1>1, ScreenIsSize DEF WordsOK, Rect
<1> HIDE DEF full
<1>12. Sound(s3)
  BY <1>10, <1>11, SetGeometrySound
<1> HIDE DEF s3
<1>13. Sound(window_focus(s2, id)) /\ Sound(window_lower(s3, id))
  BY <1>10, <1>12, FocusSound, LowerSound
<1>14. Sound(stack')
  BY <1>5, <1>10, <1>13
<1> QED
  BY <1>5, <1>14, StackStepKeeps

\* A client moves or resizes one of its windows.
LEMMA SetClientGeometryKeeps ==
  ASSUME Inv, NEW id, NEW r \in ClientRects, SetClientGeometry(id, r)
  PROVE  Inv'
<1>1. Sound(stack) /\ r \in Rect
  BY InvSplits, RequestsAssumption
<1>2. Sound(window_set_geometry(stack, id, r))
  BY <1>1, SetGeometrySound
<1> QED
  BY <1>2, StackStepKeeps DEF SetClientGeometry

\* A Wayland toplevel appears and is focused.
LEMMA MapToplevelKeeps ==
  ASSUME Inv, NEW sz \in ContentSizes, MapToplevel(sz)
  PROVE  Inv'
<1> DEFINE id == stack.next_id
           r  == [x |-> Cascade.x, y |-> Cascade.y, w |-> sz.w, h |-> sz.h + DECOR_TITLEBAR_H]
           s1 == window_create(stack, "NORMAL", r)
<1>1. Sound(stack)
  BY InvSplits
<1>2. r \in Rect /\ "NORMAL" \in Role
  BY RequestsAssumption, TitlebarAssumption DEF Rect, Size, Role
<1>3. stack' = window_focus(s1, id) /\ UNCHANGED <<screen, cursor, drag, reconfigured_id>>
  BY DEF MapToplevel
<1> HIDE DEF r
<1>4. Sound(s1)
  BY <1>1, <1>2, CreateSound
<1> HIDE DEF s1
<1>5. Sound(stack')
  BY <1>3, <1>4, FocusSound
<1> QED
  BY <1>3, <1>5, StackStepKeeps

\* A Wayland toplevel takes the size of its new buffer.
LEMMA ResizeToplevelKeeps ==
  ASSUME Inv, NEW id, NEW sz \in ContentSizes, ResizeToplevel(id, sz)
  PROVE  Inv'
<1> DEFINE w == window_by_id(stack, id)
           v == [w EXCEPT !.w = sz.w, !.h = sz.h + DECOR_TITLEBAR_H]
<1>1. Sound(stack) /\ Exists(stack, id)
  BY InvSplits DEF ResizeToplevel
<1>2. w \in Window /\ w.id = id
  BY <1>1, WindowIndexFinds DEF Sound
<1>3. stack' = Update(stack, id, v) /\ UNCHANGED <<screen, cursor, drag, reconfigured_id>>
  BY DEF ResizeToplevel
<1> HIDE DEF w
<1>4. sz.w \in Int /\ sz.h + DECOR_TITLEBAR_H \in Int
  BY RequestsAssumption, TitlebarAssumption DEF Size
<1>5. v \in Window /\ v.id = id
  BY <1>2, <1>4 DEF Window
<1> HIDE DEF v
<1>6. Sound(Update(stack, id, v))
  BY <1>1, <1>5, UpdateSound
<1> QED
  BY <1>3, <1>6, StackStepKeeps

\* A window given the screen's rectangle, or left alone, keeps its id.
LEMMA RefitIsWindow ==
  ASSUME NEW w \in Window, NEW m \in Modes
  PROVE  Refit(w, m) \in Window /\ Refit(w, m).id = w.id
<1> DEFINE a == [w EXCEPT !.x = 0]
           b == [a EXCEPT !.y = 0]
           c == [b EXCEPT !.w = m.w]
           d == [c EXCEPT !.h = m.h]
<1>1. m.w \in Int /\ m.h \in Int
  BY ScreenIsSize
<1>2. Refit(w, m) = IF w.role = "DESKTOP" THEN d ELSE w
  BY Zenon DEF Refit
<1>3. a \in Window /\ a.id = w.id
  BY DEF Window
<1> HIDE DEF a
<1>4. b \in Window /\ b.id = w.id
  BY <1>3 DEF Window
<1> HIDE DEF b
<1>5. c \in Window /\ c.id = w.id
  BY <1>1, <1>4 DEF Window
<1> HIDE DEF c
<1>6. d \in Window /\ d.id = w.id
  BY <1>1, <1>5 DEF Window
<1> HIDE DEF d
<1> QED
  BY <1>2, <1>6

\* A resolution change refits the wallpapers in place.
LEMMA SetModeKeeps ==
  ASSUME Inv, NEW m \in Modes, SetMode(m)
  PROVE  Inv'
<1> DEFINE n == Len(stack.windows)
           ws == [i \in 1 .. n |-> Refit(stack.windows[i], m)]
<1>1. WordsOK /\ Sound(stack)
  BY InvSplits
<1>2. m.w \in Int /\ m.h \in Int
  BY ScreenIsSize
<1>3. /\ stack \in Stack /\ n \in Nat /\ DOMAIN stack.windows = 1 .. n
      /\ \A i \in 1 .. n : stack.windows[i] \in Window
  BY <1>1 DEF Sound, Stack
<1>4. stack' = [stack EXCEPT !.windows = ws]
  BY <1>3 DEF SetMode
<1>5. ASSUME NEW i \in 1 .. n
      PROVE  ws[i] \in Window /\ ws[i].id = stack.windows[i].id
  <2>1. ws[i] = Refit(stack.windows[i], m) /\ stack.windows[i] \in Window
    BY <1>3
  <2> QED
    BY <2>1, RefitIsWindow
<1>6. DOMAIN ws = 1 .. n
  OBVIOUS
<1>7. ws \in Seq(Window) /\ Len(ws) = n
  <2>1. ws \in [1 .. n -> Window]
    BY <1>5
  <2> HIDE DEF ws
  <2>2. ws \in Seq(Window)
    BY <1>3, <2>1
  <2> QED
    BY <1>3, <2>1, <2>2
<1> HIDE DEF ws
<1>8. /\ stack' \in Stack /\ stack'.windows = ws
      /\ stack'.focus_id = stack.focus_id /\ stack'.next_id = stack.next_id
  BY <1>3, <1>4, <1>7 DEF Stack
<1>9. Sound(stack')
  BY <1>1, <1>3, <1>5, <1>6, <1>7, <1>8
     DEF Sound, UniqueIds, FocusLive, CountBounded, Exists
<1>10. WordsOK'
  <2>1. /\ cursor' = [x |-> IF cursor.x >= m.w THEN m.w - 1 ELSE cursor.x,
                      y |-> IF cursor.y >= m.h THEN m.h - 1 ELSE cursor.y]
        /\ screen' = m
        /\ UNCHANGED <<moving, move_id, grab, reconfigured_id>>
    BY DEF SetMode, drag
  <2>2. cursor.x \in Int /\ cursor.y \in Int
    BY <1>1 DEF WordsOK
  <2>3. cursor' \in [x : Int, y : Int]
    BY <1>2, <2>1, <2>2
  <2> QED
    BY <1>1, <2>1, <2>3 DEF WordsOK
<1> QED
  BY <1>9, <1>10, InvSplitsNext

\* Every step of the specification.
LEMMA NextKeeps == Inv /\ [Next]_vars => Inv'
<1> SUFFICES ASSUME Inv, [Next]_vars
             PROVE  Inv'
  OBVIOUS
<1>1. CASE Pointer
  BY <1>1, PointerKeeps
<1>2. CASE PressLeft
  BY <1>2, PressLeftKeeps
<1>3. CASE ReleaseLeft
  BY <1>3, ReleaseLeftKeeps
<1>4. CASE wm_key
  <2>1. Sound(stack')
    BY <1>4, InvSplits, CycleSound DEF wm_key
  <2> QED
    BY <1>4, <2>1, StackStepKeeps DEF wm_key
<1>5. CASE NotifyReconfigured
  <2>1. WordsOK'
    BY <1>5, InvSplits DEF NotifyReconfigured, WordsOK, drag
  <2>2. Sound(stack')
    BY <1>5, InvSplits DEF NotifyReconfigured
  <2> QED
    BY <2>1, <2>2, InvSplitsNext
<1>6. CASE Requests
  <2>1. ASSUME NEW id, DestroyWindow(id)
        PROVE  Inv'
    BY <2>1, InvSplits, DestroySound, StackStepKeeps DEF DestroyWindow
  <2> QED
    BY <1>6, <2>1, CreateClientWindowKeeps, SetClientGeometryKeeps, MapToplevelKeeps,
       ResizeToplevelKeeps, SetModeKeeps DEF Requests
<1>7. CASE UNCHANGED vars
  <2>1. WordsOK' /\ Sound(stack')
    BY <1>7, InvSplits DEF vars, WordsOK
  <2> QED
    BY <2>1, InvSplitsNext
<1> QED
  BY <1>1, <1>2, <1>3, <1>4, <1>5, <1>6, <1>7 DEF Next

\* The initial states.
LEMMA InitKeeps == Init => Inv
<1> SUFFICES ASSUME Init
             PROVE  Inv
  OBVIOUS
<1>1. screen.w \div 2 \in Int /\ screen.h \div 2 \in Int
  BY ScreenIsSize, ModesAssumption DEF Init
<1>2. WordsOK
  <2>1. screen \in Modes /\ moving \in BOOLEAN /\ move_id \in Nat
    BY ModesAssumption DEF Init
  <2>2. cursor \in [x : Int, y : Int] /\ grab \in [dx : Int, dy : Int]
    BY <1>1 DEF Init
  <2>3. reconfigured_id \in Nat
    BY RequestsAssumption DEF Init
  <2> QED
    BY <2>1, <2>2, <2>3 DEF WordsOK
<1>3. Sound(stack)
  <2>1. /\ stack.windows = << >> /\ stack.focus_id = 0 /\ stack.next_id = 1
        /\ stack \in Stack
    BY DEF Init, window_stack_init, Stack
  <2> QED
    BY <2>1, WinMaxAssumption DEF Sound, UniqueIds, FocusLive, CountBounded
<1> QED
  BY <1>2, <1>3, InvSplits

----------------------------------------------------------------------------
(* The theorems.                                                           *)

\* wm.c and window.c: the words of struct wm keep their types, whatever order
\* input, the two transports and the control socket act in.
THEOREM TypeCorrect == Spec => []TypeOK
<1>1. Inv => TypeOK
  BY DEF Inv
<1> QED
  BY <1>1, InitKeeps, NextKeeps, PTL DEF Spec

\* window.c: ids are never reused, the focus never dangles and the array never
\* overflows, for every capacity.
THEOREM StackAlwaysSound == Spec => []StackSound
<1>1. Inv => StackSound
  BY DEF Inv
<1> QED
  BY <1>1, InitKeeps, NextKeeps, PTL DEF Spec

----------------------------------------------------------------------------
(* The z-order: every action of wm.c and of the transports keeps wallpapers *)
(* at the bottom, the focused application above the others, and a focus    *)
(* while an application is open.                                           *)

----------------------------------------------------------------------------
(* Each action keeps the order.                                            *)

LEMMA OrderSplits == StackingOrder <=> Ordered(stack)
  BY DEF StackingOrder, Ordered

\* The same of the next state.
LEMMA OrderSplitsNext == StackingOrder' <=> Ordered(stack')
  BY DEF StackingOrder, Ordered

\* Pointer motion moves the window being dragged, if there is one.
LEMMA PointerShape ==
  ASSUME Inv, Pointer
  PROVE  SameShape(stack, stack')
<1>1. Sound(stack) /\ WordsOK
  BY InvSplits
<1>2. cursor' \in [x : Int, y : Int]
  BY PointerKeeps, InvSplitsNext DEF WordsOK
<1> DEFINE gx == cursor'.x - grab.dx
           gy == cursor'.y - grab.dy
<1>3. stack' = IF moving THEN window_move(stack, move_id, gx, gy) ELSE stack
  BY DEF Pointer, wm_pointer_motion, wm_pointer_motion_abs, MoveCursor, drag_grabbed
<1>4. gx \in Int /\ gy \in Int
  BY <1>1, <1>2 DEF WordsOK
<1> HIDE DEF gx, gy
<1> QED
  BY <1>1, <1>3, <1>4, MoveShape DEF SameShape

\* A press focuses the window under the cursor, and may give it back its size.
LEMMA PressLeftShape ==
  ASSUME Inv, PressLeft
  PROVE  LET id == window_at(stack, cursor.x, cursor.y)
         IN  Exists(stack, id) /\ SameShape(window_focus(stack, id), stack')
<1> DEFINE id == window_at(stack, cursor.x, cursor.y)
           s1 == window_focus(stack, id)
           w  == window_by_id(s1, id)
           r  == Unsnapped(w)
           s2 == window_set_geometry(s1, id, r)
           v  == [window_by_id(s2, id) EXCEPT !.snapped = FALSE]
<1>1. WordsOK /\ Sound(stack) /\ stack \in Stack
  BY InvSplits DEF Sound
<1>2. cursor.x \in Int /\ cursor.y \in Int
  BY <1>1 DEF WordsOK
<1>3. Exists(stack, id) /\ id \in Nat
  BY <1>1, <1>2, WindowAtFinds, WindowIndexFinds DEF PressLeft
<1>4. stack' = s1 \/ stack' = Update(s2, id, v)
  BY DEF PressLeft
<1> HIDE DEF id
<1>5. Sound(s1) /\ Exists(s1, id)
  BY <1>1, <1>3, FocusSound DEF SameIds
<1> HIDE DEF s1
<1>6. r \in Rect
  <2>1. w \in Window
    BY <1>5, WindowIndexFinds DEF Sound
  <2> QED
    BY <1>1, <2>1, UnsnappedIsRect
<1> HIDE DEF r
<1>7. Sound(s2) /\ Exists(s2, id) /\ SameShape(s1, s2)
  BY <1>3, <1>5, <1>6, SetGeometrySound, SetGeometryShape DEF SameIds
<1> HIDE DEF s2
<1>8. v \in Window /\ v.id = id /\ v.role = window_by_id(s2, id).role
  <2>1. window_by_id(s2, id) \in Window /\ window_by_id(s2, id).id = id
    BY <1>7, WindowIndexFinds DEF Sound
  <2> QED
    BY <2>1 DEF Window
<1> HIDE DEF v
<1>9. SameShape(s2, Update(s2, id, v))
  BY <1>7, <1>8, UpdateShape
<1>10. SameShape(s1, stack')
  BY <1>4, <1>7, <1>9 DEF SameShape
<1> QED
  BY <1>3, <1>10 DEF s1, id

\* A release may resize one window.
LEMMA ReleaseLeftShape ==
  ASSUME Inv, ReleaseLeft
  PROVE  SameShape(stack, stack')
<1>1. WordsOK /\ Sound(stack)
  BY InvSplits
<1>2. CASE ~Snaps(move_id)
  BY <1>2 DEF ReleaseLeft, SameShape
<1>3. CASE Snaps(move_id)
  <2> DEFINE w  == window_by_id(stack, move_id)
             sv == IF w.snapped THEN w.saved ELSE RectOf(w)
             v  == [w EXCEPT !.saved = sv, !.snapped = TRUE]
             s1 == Update(stack, move_id, v)
             r  == SnapTarget
  <2>1. stack' = window_set_geometry(s1, move_id, r)
    BY <1>3 DEF ReleaseLeft, wm_snap_on_release
  <2>2. Exists(stack, move_id)
    BY <1>3 DEF Snaps
  <2>3. w \in Window /\ w.id = move_id
    BY <1>1, <2>2, WindowIndexFinds DEF Sound
  <2>4. sv \in Rect
    BY <2>3 DEF Window, RectOf, Rect
  <2> HIDE DEF sv, w
  <2>5. v \in Window /\ v.id = move_id /\ v.role = w.role
    BY <2>3, <2>4 DEF Window
  <2> HIDE DEF v
  <2>6. Sound(s1) /\ SameShape(stack, s1)
    BY <1>1, <2>2, <2>5, UpdateSound, UpdateShape DEF w
  <2>7. r \in Rect
    BY <1>1, SnapTargetIsRect
  <2> HIDE DEF s1, r
  <2>8. SameShape(s1, stack')
    BY <2>1, <2>6, <2>7, SetGeometryShape
  <2> QED
    BY <2>6, <2>8 DEF SameShape
<1> QED
  BY <1>2, <1>3

\* A new client window: an application is focused, a wallpaper goes to the bottom,
\* anything else stays on top.
LEMMA CreateClientWindowOrders ==
  ASSUME Inv, Ordered(stack), NEW role \in ClientRoles, NEW rc \in ClientRects,
         CreateClientWindow(role, rc)
  PROVE  Ordered(stack')
<1> DEFINE id == stack.next_id
           r  == [rc EXCEPT !.w = IF @ = 0 THEN DefaultSize.w ELSE @,
                            !.h = IF @ = 0 THEN DefaultSize.h ELSE @]
           t  == ClientWindow(stack, role, r)
           full == [x |-> 0, y |-> 0, w |-> screen.w, h |-> screen.h]
<1>1. WordsOK /\ Sound(stack)
  BY InvSplits
<1>2. role \in Role /\ rc \in Rect /\ DefaultSize.w \in Int /\ DefaultSize.h \in Int
  BY RequestsAssumption DEF Size
<1>3. r \in Rect
  BY <1>2 DEF Rect
<1>4. ~IsFull(stack)
  BY DEF CreateClientWindow
<1>5. stack' = CASE role = "NORMAL"  -> window_focus(t, id)
                 [] role = "DESKTOP" -> window_lower(window_set_geometry(t, id, full), id)
                 [] OTHER -> t
  BY DEF CreateClientWindow, ClientWindow
<1> HIDE DEF r
<1>6. full \in Rect
  BY <1>1, ScreenIsSize DEF WordsOK, Rect
<1> HIDE DEF full
<1>7. /\ role = "NORMAL" => Ordered(window_focus(t, id))
      /\ role = "DESKTOP" => Ordered(window_lower(window_set_geometry(t, id, full), id))
      /\ role \notin {"NORMAL", "DESKTOP"} => Ordered(t)
  BY <1>1, <1>2, <1>3, <1>4, <1>6, ClientWindowOrders
<1> HIDE DEF t, id
<1> QED
  BY <1>5, <1>7

\* A Wayland toplevel appears on top and is focused.
LEMMA MapToplevelOrders ==
  ASSUME Inv, Ordered(stack), NEW sz \in ContentSizes, MapToplevel(sz)
  PROVE  Ordered(stack')
<1> DEFINE id == stack.next_id
           n  == Len(stack.windows) + 1
           r  == [x |-> Cascade.x, y |-> Cascade.y, w |-> sz.w, h |-> sz.h + DECOR_TITLEBAR_H]
           s1 == window_create(stack, "NORMAL", r)
<1>1. Sound(stack) /\ ~IsFull(stack)
  BY InvSplits DEF MapToplevel
<1>2. r \in Rect /\ "NORMAL" \in Role
  BY RequestsAssumption, TitlebarAssumption DEF Rect, Size, Role
<1>3. stack' = window_focus(s1, id)
  BY DEF MapToplevel
<1> HIDE DEF r
<1>4. /\ Sound(s1) /\ DesktopsBelow(s1)
      /\ DOMAIN s1.windows = 1 .. n /\ s1.windows[n].id = id
  BY <1>1, <1>2, CreateSound, CreateOrders
<1>5. Exists(s1, id)
  <2>1. n \in 1 .. n
    BY <1>1 DEF Sound, Stack
  <2> QED
    BY <1>4, <2>1 DEF Exists
<1> HIDE DEF s1
<1> QED
  BY <1>3, <1>4, <1>5, FocusOrders

\* A client moves or resizes its window; a toplevel takes its buffer's size.
LEMMA GeometryRequestShape ==
  ASSUME Inv, NEW id
  PROVE  /\ \A r \in ClientRects : SetClientGeometry(id, r) => SameShape(stack, stack')
         /\ \A sz \in ContentSizes : ResizeToplevel(id, sz) => SameShape(stack, stack')
<1>1. Sound(stack)
  BY InvSplits
<1>2. ASSUME NEW r \in ClientRects, SetClientGeometry(id, r)
      PROVE  SameShape(stack, stack')
  <2>1. r \in Rect /\ stack' = window_set_geometry(stack, id, r)
    BY <1>2, RequestsAssumption DEF SetClientGeometry
  <2> QED
    BY <1>1, <2>1, SetGeometryShape
<1>3. ASSUME NEW sz \in ContentSizes, ResizeToplevel(id, sz)
      PROVE  SameShape(stack, stack')
  <2> DEFINE w == window_by_id(stack, id)
             v == [w EXCEPT !.w = sz.w, !.h = sz.h + DECOR_TITLEBAR_H]
  <2>1. stack' = Update(stack, id, v) /\ Exists(stack, id)
    BY <1>3 DEF ResizeToplevel
  <2>2. w \in Window /\ w.id = id
    BY <1>1, <2>1, WindowIndexFinds DEF Sound
  <2>3. sz.w \in Int /\ sz.h + DECOR_TITLEBAR_H \in Int
    BY RequestsAssumption, TitlebarAssumption DEF Size
  <2> HIDE DEF w
  <2>4. v \in Window /\ v.id = id /\ v.role = w.role
    BY <2>2, <2>3 DEF Window
  <2> HIDE DEF v
  <2> QED
    BY <1>1, <2>1, <2>4, UpdateShape DEF w
<1> QED
  BY <1>2, <1>3

\* A resolution change refits the wallpapers where they are.
LEMMA SetModeShape ==
  ASSUME Inv, NEW m \in Modes, SetMode(m)
  PROVE  SameShape(stack, stack')
<1> DEFINE n  == Len(stack.windows)
           ws == [i \in 1 .. n |-> Refit(stack.windows[i], m)]
<1>1. /\ stack \in Stack /\ n \in Nat /\ DOMAIN stack.windows = 1 .. n
      /\ \A i \in 1 .. n : stack.windows[i] \in Window
  BY InvSplits DEF Sound, Stack
<1>2. stack' = [stack EXCEPT !.windows = ws]
  BY <1>1 DEF SetMode
<1>3. stack'.windows = ws /\ stack'.focus_id = stack.focus_id
  BY <1>1, <1>2 DEF Stack
<1>4. Len(ws) = n
  BY <1>1
<1>5. ASSUME NEW i \in 1 .. n
      PROVE  ws[i].id = stack.windows[i].id /\ ws[i].role = stack.windows[i].role
  BY <1>1 DEF Refit, Window
<1> QED
  BY <1>3, <1>4, <1>5 DEF SameShape

\* The steps that create and destroy no window: nothing changes places, or one window
\* is focused.
LEMMA StepShape ==
  ASSUME Inv, [Next]_vars,
         \/ Pointer \/ PressLeft \/ ReleaseLeft \/ wm_key \/ NotifyReconfigured
         \/ \E id : \/ \E r \in ClientRects : SetClientGeometry(id, r)
                    \/ \E sz \in ContentSizes : ResizeToplevel(id, sz)
         \/ \E m \in Modes : SetMode(m)
         \/ UNCHANGED vars
  PROVE  \/ SameShape(stack, stack')
         \/ \E id : Exists(stack, id) /\ SameShape(window_focus(stack, id), stack')
<1>1. CASE wm_key
  <2>1. Sound(stack) /\ DOMAIN stack.windows = 1 .. Len(stack.windows)
    BY InvSplits DEF Sound, Stack
  <2> QED
    BY <1>1, <2>1, CycleFocuses DEF wm_key, SameShape, Exists
<1>2. CASE NotifyReconfigured \/ UNCHANGED vars
  BY <1>2 DEF NotifyReconfigured, vars, SameShape
<1> QED
  BY <1>1, <1>2, PointerShape, PressLeftShape, ReleaseLeftShape, GeometryRequestShape, SetModeShape

\* Every step of the specification.
LEMMA NextOrders == Inv /\ StackingOrder /\ [Next]_vars => StackingOrder'
<1> SUFFICES ASSUME Inv, Ordered(stack), [Next]_vars
             PROVE  Ordered(stack')
  BY OrderSplits, OrderSplitsNext
<1>1. Sound(stack) /\ Sound(stack') /\ DesktopsBelow(stack)
  BY NextKeeps, InvSplits, InvSplitsNext DEF Ordered
<1>2. CASE SameShape(stack, stack')
  BY <1>1, <1>2, ShapeDecides DEF Sound
<1>3. ASSUME NEW id, Exists(stack, id), SameShape(window_focus(stack, id), stack')
      PROVE  Ordered(stack')
  <2>1. Sound(window_focus(stack, id)) /\ Ordered(window_focus(stack, id))
    BY <1>1, <1>3, FocusSound, FocusOrders
  <2> QED
    BY <1>1, <1>3, <2>1, ShapeDecides DEF Sound
<1>4. ASSUME NEW id, DestroyWindow(id)
      PROVE  Ordered(stack')
  BY <1>1, <1>4, DestroyOrders DEF DestroyWindow
<1> QED
  BY <1>2, <1>3, <1>4, StepShape, CreateClientWindowOrders, MapToplevelOrders DEF Next, Requests

----------------------------------------------------------------------------
\* window.c "stays at the bottom", window.h "focus implies raise": no order of clicks,
\* drags, Alt-Tabs, requests of the two transports and resolution changes puts a window
\* under a wallpaper or an application over the focused one, or leaves the applications
\* without a focus.
THEOREM StackingAlwaysOrdered == Spec => []StackingOrder
<1>1. Init => StackingOrder
  BY DEF Init, window_stack_init, StackingOrder, DesktopsBelow, FocusedAppOnTop,
     AppsHaveFocus
<1> QED
  BY <1>1, InitKeeps, NextKeeps, NextOrders, PTL DEF Spec

----------------------------------------------------------------------------
(* What the actions of wm.c do to the windows.                             *)

OnScreen(c, m) == c.x \in 0 .. m.w - 1 /\ c.y \in 0 .. m.h - 1

\* The pointer stays on the screen, and takes the dragged window along.
LEMMA MoveCursorContents ==
  ASSUME Inv, NEW nx \in Int, NEW ny \in Int, MoveCursor(nx, ny)
  PROVE  /\ OnScreen(cursor', screen)
         /\ UNCHANGED <<screen, moving, move_id, grab>> /\ stack'.next_id = stack.next_id
         /\ \/ /\ Contents(stack') = Contents(stack)
               /\ moving => ~Exists(stack, move_id)
            \/ \E w \in Contents(stack), v \in Window :
                 /\ moving /\ w.id = move_id /\ SameButRect(w, v)
                 /\ v.x = cursor'.x - grab.dx /\ v.y = cursor'.y - grab.dy
                 /\ v.w = w.w /\ v.h = w.h
                 /\ Swapped(stack, stack', w, v)
<1> DEFINE gx == cursor'.x - grab.dx
           gy == cursor'.y - grab.dy
<1>1. WordsOK /\ Sound(stack)
  BY InvSplits
<1>2. screen.w \in Nat /\ screen.h \in Nat /\ screen.w > 0 /\ screen.h > 0
  BY <1>1, ScreenIsSize DEF WordsOK
<1>3. OnScreen(cursor', screen)
  <2>1. ASSUME NEW v \in Int, NEW n \in Nat, n > 0
        PROVE  clampi(v, 0, n - 1) \in 0 .. n - 1
    BY <2>1 DEF clampi
  <2> QED
    BY <1>2, <2>1 DEF MoveCursor, OnScreen
<1>4. /\ UNCHANGED <<screen, moving, move_id, grab>>
      /\ stack' = IF moving THEN window_move(stack, move_id, gx, gy) ELSE stack
  BY DEF MoveCursor, drag_grabbed, drag
<1>5. gx \in Int /\ gy \in Int
  BY <1>1, <1>2, <1>3 DEF WordsOK, OnScreen
<1> HIDE DEF gx, gy
<1>6. CASE ~(moving /\ Exists(stack, move_id))
  BY <1>3, <1>4, <1>6 DEF window_move
<1>7. CASE moving /\ Exists(stack, move_id)
  <2> DEFINE w == window_by_id(stack, move_id)
  <2>1. w \in Contents(stack) /\ w.id = move_id
    BY <1>1, <1>7, ContentsDecide
  <2>2. PICK v : /\ SameButRect(w, v) /\ v.x = gx /\ v.y = gy /\ v.w = w.w /\ v.h = w.h
                 /\ Swapped(stack, window_move(stack, move_id, gx, gy), w, v)
    BY <1>1, <1>5, <1>7, MoveContents
  <2>3. /\ stack'.next_id = stack.next_id /\ Swapped(stack, stack', w, v)
        /\ v \in Window
    BY <1>1, <1>4, <1>5, <1>7, <2>2, MoveSound DEF SameButRect
  <2> HIDE DEF w
  <2> QED
    BY <1>3, <1>4, <1>7, <2>1, <2>2, <2>3 DEF gx, gy
<1> QED
  BY <1>6, <1>7

\* A window changed twice.
LEMMA SwappedTwice ==
  ASSUME NEW s, Sound(s), NEW w \in Contents(s), NEW t, NEW u, u.id = w.id, Swapped(s, t, w, u),
         NEW r, NEW v, Swapped(t, r, u, v)
  PROVE  Swapped(s, r, w, v)
<1>1. \A z \in Contents(s) : z.id = w.id => z = w
  BY ContentsDecide
<1> QED
  BY <1>1 DEF Swapped

\* A press on a window glacier decorates, above its contents, takes hold of it; a
\* snapped one gets its floating rectangle back.
LEMMA PressLeftContents ==
  ASSUME Inv, PressLeft
  PROVE  /\ UNCHANGED <<screen, cursor>> /\ stack'.next_id = stack.next_id
         /\ \/ Contents(stack') = Contents(stack) /\ UNCHANGED drag
            \/ \E w \in Contents(stack) :
                 /\ w.id = window_at(stack, cursor.x, cursor.y)
                 /\ OnHandle(w) /\ InRect(w, cursor.x, cursor.y) /\ StartDrag(w.id, w.x, w.y)
                 /\ ~w.snapped /\ Contents(stack') = Contents(stack)
            \/ \E w \in Contents(stack), v \in Window :
                 /\ w.id = window_at(stack, cursor.x, cursor.y)
                 /\ OnHandle(w) /\ w.snapped
                 /\ StartDrag(w.id, Unsnapped(w).x, Unsnapped(w).y)
                 /\ SameButRect([w EXCEPT !.snapped = FALSE], v)
                 /\ v.x = Unsnapped(w).x /\ v.y = Unsnapped(w).y
                 /\ v.w = IF Unsnapped(w).w > 0 THEN Unsnapped(w).w ELSE w.w
                 /\ v.h = IF Unsnapped(w).h > 0 THEN Unsnapped(w).h ELSE w.h
                 /\ Swapped(stack, stack', w, v)
<1> DEFINE id == window_at(stack, cursor.x, cursor.y)
           s1 == window_focus(stack, id)
           w  == window_by_id(s1, id)
           r  == Unsnapped(w)
           s2 == window_set_geometry(s1, id, r)
           v  == [window_by_id(s2, id) EXCEPT !.snapped = FALSE]
<1>1. WordsOK /\ Sound(stack) /\ stack \in Stack
  BY InvSplits DEF Sound
<1>2. cursor.x \in Int /\ cursor.y \in Int
  BY <1>1 DEF WordsOK
<1>3. id # 0 /\ UNCHANGED <<screen, cursor>>
  BY DEF PressLeft
<1>4. Exists(stack, id) /\ InRect(window_by_id(stack, id), cursor.x, cursor.y)
  BY <1>1, <1>2, <1>3, WindowAtHits
<1>5. \/ stack' = s1 /\ UNCHANGED drag
      \/ OnHandle(w) /\ ~w.snapped /\ stack' = s1 /\ StartDrag(id, w.x, w.y)
      \/ OnHandle(w) /\ w.snapped /\ stack' = Update(s2, id, v) /\ StartDrag(id, r.x, r.y)
  BY DEF PressLeft
<1> HIDE DEF id
<1>6. /\ Sound(s1) /\ Exists(s1, id) /\ Contents(s1) = Contents(stack)
      /\ s1.next_id = stack.next_id
  <2>1. Exists(s1, id)
    BY <1>1, <1>4, FocusSound, WindowIndexFinds DEF SameIds
  <2> QED
    BY <1>1, <2>1, FocusSound, FocusContents
<1> HIDE DEF s1
<1>7. w \in Contents(stack) /\ w.id = id /\ w \in Window
  BY <1>6, ContentsDecide
<1>8. InRect(w, cursor.x, cursor.y)
  BY <1>1, <1>4, <1>7, ContentsDecide
<1> HIDE DEF w
<1>9. CASE stack' = s1 /\ UNCHANGED drag
  BY <1>3, <1>6, <1>9
<1>10. CASE OnHandle(w) /\ ~w.snapped /\ stack' = s1 /\ StartDrag(id, w.x, w.y)
  BY <1>3, <1>6, <1>7, <1>8, <1>10 DEF id
<1>11. CASE OnHandle(w) /\ w.snapped /\ stack' = Update(s2, id, v) /\ StartDrag(id, r.x, r.y)
  <2>1. r \in Rect
    BY <1>1, <1>7, UnsnappedIsRect
  <2> HIDE DEF r
  <2>2. window_by_id(s1, id) = w
    BY DEF w
  <2>3. PICK u : /\ SameButRect(w, u) /\ u.x = r.x /\ u.y = r.y
                 /\ u.w = IF r.w > 0 THEN r.w ELSE w.w
                 /\ u.h = IF r.h > 0 THEN r.h ELSE w.h
                 /\ Swapped(s1, s2, w, u)
    BY <1>6, <2>1, <2>2, GeometryContents
  <2>4. Sound(s2) /\ s2.next_id = s1.next_id
    BY <1>6, <2>1, SetGeometrySound
  <2> HIDE DEF s2
  <2>5. u.id = id /\ u \in Window /\ u \in Contents(s2)
    BY <1>7, <2>3 DEF SameButRect, Swapped
  <2>6. window_by_id(s2, id) = u /\ Exists(s2, id)
    BY <2>4, <2>5, ContentsDecide
  <2>7. v = [u EXCEPT !.snapped = FALSE]
    BY <2>6
  <2> HIDE DEF v
  <2>8. /\ v \in Window /\ v.id = u.id /\ v.x = u.x /\ v.y = u.y /\ v.w = u.w /\ v.h = u.h
        /\ SameButRect([w EXCEPT !.snapped = FALSE], v)
    BY <1>7, <2>3, <2>5, <2>7 DEF SameButRect, Window
  <2>9. Swapped(s2, stack', u, v) /\ stack'.next_id = s2.next_id
    BY <1>11, <2>4, <2>5, <2>6, <2>8, UpdateContents, UpdateSound DEF Swapped
  <2>10. Swapped(s1, stack', w, v)
    BY <1>6, <1>7, <2>3, <2>5, <2>9, SwappedTwice
  <2>11. Swapped(stack, stack', w, v)
    BY <1>6, <2>10 DEF Swapped
  <2>12. stack'.next_id = stack.next_id
    BY <1>6, <2>4, <2>9
  <2> QED
    BY <1>3, <1>7, <1>11, <2>3, <2>8, <2>11, <2>12 DEF r, id
<1> QED
  BY <1>5, <1>9, <1>10, <1>11

\* A release lets go, and may snap the window it held.
LEMMA ReleaseLeftContents ==
  ASSUME Inv, ReleaseLeft
  PROVE  /\ UNCHANGED <<screen, cursor, grab>> /\ moving' = FALSE /\ move_id' = 0
         /\ stack'.next_id = stack.next_id
         /\ \/ stack' = stack
            \/ \E w \in Contents(stack), v \in Window :
                 /\ w.id = move_id /\ window_has_ssd(w) /\ (AtTop \/ AtLeft \/ AtRight)
                 /\ v.id = w.id /\ v.role = w.role /\ v.app_decorated = w.app_decorated
                 /\ v.snapped /\ v.saved = (IF w.snapped THEN w.saved ELSE RectOf(w))
                 /\ v.x = SnapTarget.x /\ v.y = SnapTarget.y
                 /\ v.w = IF SnapTarget.w > 0 THEN SnapTarget.w ELSE w.w
                 /\ v.h = IF SnapTarget.h > 0 THEN SnapTarget.h ELSE w.h
                 /\ Swapped(stack, stack', w, v)
<1>1. WordsOK /\ Sound(stack)
  BY InvSplits
<1>2. UNCHANGED <<screen, cursor, grab>> /\ moving' = FALSE /\ move_id' = 0
  BY DEF ReleaseLeft
<1>3. CASE ~Snaps(move_id)
  BY <1>2, <1>3 DEF ReleaseLeft
<1>4. CASE Snaps(move_id)
  <2> DEFINE w  == window_by_id(stack, move_id)
             sv == IF w.snapped THEN w.saved ELSE RectOf(w)
             u  == [w EXCEPT !.saved = sv, !.snapped = TRUE]
             s1 == Update(stack, move_id, u)
             r  == SnapTarget
  <2>1. stack' = window_set_geometry(s1, move_id, r)
    BY <1>4 DEF ReleaseLeft, wm_snap_on_release
  <2>2. Exists(stack, move_id) /\ window_has_ssd(w) /\ (AtTop \/ AtLeft \/ AtRight)
    BY <1>4 DEF Snaps
  <2>3. w \in Contents(stack) /\ w \in Window /\ w.id = move_id
    BY <1>1, <2>2, ContentsDecide
  <2>4. sv \in Rect
    BY <2>3 DEF Window, RectOf, Rect
  <2>5. r \in Rect
    BY <1>1, SnapTargetIsRect
  <2> HIDE DEF sv, r
  <2>6. /\ u \in Window /\ u.id = move_id /\ u.role = w.role /\ u.snapped /\ u.saved = sv
        /\ u.app_decorated = w.app_decorated /\ u.w = w.w /\ u.h = w.h
    BY <2>3, <2>4 DEF Window
  <2>7. Sound(s1) /\ Swapped(stack, s1, w, u) /\ s1.next_id = stack.next_id
    <3> HIDE DEF u
    <3> QED
      BY <1>1, <2>2, <2>6, UpdateSound, UpdateContents DEF Swapped
  <2> HIDE DEF u, s1
  <2>8. Exists(s1, move_id) /\ window_by_id(s1, move_id) = u
    <3>1. u \in Contents(s1)
      BY <2>7 DEF Swapped
    <3> QED
      BY <2>6, <2>7, <3>1, ContentsDecide
  <2>9. PICK v : /\ SameButRect(u, v) /\ v.x = r.x /\ v.y = r.y
                 /\ v.w = IF r.w > 0 THEN r.w ELSE u.w
                 /\ v.h = IF r.h > 0 THEN r.h ELSE u.h
                 /\ Swapped(s1, window_set_geometry(s1, move_id, r), u, v)
    BY <2>5, <2>7, <2>8, GeometryContents
  <2>10. Swapped(stack, stack', w, v)
    BY <1>1, <2>1, <2>3, <2>6, <2>7, <2>9, SwappedTwice
  <2>11. stack'.next_id = stack.next_id
    BY <2>1, <2>5, <2>7, SetGeometrySound
  <2>12. /\ v \in Window /\ v.id = w.id /\ v.role = w.role
         /\ v.app_decorated = w.app_decorated /\ v.snapped /\ v.saved = sv
         /\ v.w = IF r.w > 0 THEN r.w ELSE w.w
         /\ v.h = IF r.h > 0 THEN r.h ELSE w.h
    BY <2>3, <2>6, <2>9 DEF SameButRect
  <2> HIDE DEF w
  <2> QED
    BY <1>2, <2>2, <2>3, <2>9, <2>10, <2>11, <2>12 DEF sv, r
<1> QED
  BY <1>3, <1>4

\* A client's new window is its own to decorate.
LEMMA CreateClientWindowContents ==
  ASSUME Inv, NEW role \in ClientRoles, NEW rc \in ClientRects, CreateClientWindow(role, rc)
  PROVE  \E v \in Window :
           /\ v.id = stack.next_id /\ v.app_decorated /\ ~v.snapped
           /\ Contents(stack') = Contents(stack) \cup {v}
           /\ stack'.next_id = stack.next_id + 1
<1> DEFINE id == stack.next_id
           r  == [rc EXCEPT !.w = IF @ = 0 THEN DefaultSize.w ELSE @,
                            !.h = IF @ = 0 THEN DefaultSize.h ELSE @]
           t  == ClientWindow(stack, role, r)
           full == [x |-> 0, y |-> 0, w |-> screen.w, h |-> screen.h]
           u  == window_set_geometry(t, id, full)
<1>1. WordsOK /\ Sound(stack)
  BY InvSplits
<1>2. role \in Role /\ rc \in Rect /\ DefaultSize.w \in Int /\ DefaultSize.h \in Int
  BY RequestsAssumption DEF Size
<1>3. r \in Rect
  BY <1>2 DEF Rect
<1>4. full \in Rect
  BY <1>1, ScreenIsSize DEF WordsOK, Rect
<1>5. ~IsFull(stack)
  BY DEF CreateClientWindow
<1>6. stack' \in {window_focus(t, id), window_lower(u, id), t}
  BY DEF CreateClientWindow, ClientWindow
<1> HIDE DEF r
<1>7. /\ Sound(t) /\ Exists(t, id) /\ t.next_id = id + 1
      /\ \E v \in Window : /\ v.id = id /\ v.app_decorated /\ ~v.snapped
                           /\ Contents(t) = Contents(stack) \cup {v}
                           /\ window_by_id(t, id) = v
  BY <1>1, <1>2, <1>3, <1>5, ClientWindowCreates
<1>8. id \in Nat /\ \A z \in Contents(stack) : z.id # id
  <2>1. id \in Nat
    BY <1>1 DEF Sound, Stack
  <2>2. \A z \in Contents(stack) : z.id \in Nat /\ z.id < id
    BY <1>1, ContentsDecide DEF Window
  <2> QED
    BY <2>1, <2>2
<1> HIDE DEF t, id, full
<1>9. PICK v \in Window : /\ v.id = id /\ v.app_decorated /\ ~v.snapped
                          /\ Contents(t) = Contents(stack) \cup {v}
                          /\ window_by_id(t, id) = v
  BY <1>7
<1>10. CASE stack' \in {window_focus(t, id), t}
  <2>1. Contents(stack') = Contents(t) /\ stack'.next_id = t.next_id
    BY <1>7, <1>10, FocusContents, FocusSound
  <2> QED
    BY <1>7, <1>9, <2>1 DEF id
<1>11. CASE stack' = window_lower(u, id)
  <2>1. Sound(u) /\ u.next_id = t.next_id
    BY <1>4, <1>7, SetGeometrySound
  <2>2. PICK z : SameButRect(v, z) /\ Swapped(t, u, v, z)
    BY <1>4, <1>7, <1>9, GeometryContents
  <2> HIDE DEF u
  <2>3. Contents(stack') = Contents(u) /\ stack'.next_id = u.next_id
    BY <1>11, <2>1, LowerContents, LowerSound
  <2>4. Contents(u) = Contents(stack) \cup {z}
    BY <1>8, <1>9, <2>2 DEF Swapped
  <2>5. z \in Window /\ z.id = id /\ z.app_decorated /\ ~z.snapped
    BY <1>9, <2>2 DEF SameButRect
  <2> QED
    BY <1>7, <2>1, <2>3, <2>4, <2>5 DEF id
<1> QED
  BY <1>6, <1>10, <1>11

\* A toplevel's window is an application the server decorates.
LEMMA MapToplevelContents ==
  ASSUME Inv, NEW sz \in ContentSizes, MapToplevel(sz)
  PROVE  \E v \in Window :
           /\ v.id = stack.next_id /\ window_has_ssd(v) /\ ~v.snapped
           /\ v.w > 0 /\ v.h > 0 /\ v.h = sz.h + DECOR_TITLEBAR_H
           /\ Contents(stack') = Contents(stack) \cup {v}
           /\ stack'.next_id = stack.next_id + 1
<1> DEFINE id == stack.next_id
           r  == [x |-> Cascade.x, y |-> Cascade.y, w |-> sz.w, h |-> sz.h + DECOR_TITLEBAR_H]
           t  == window_create(stack, "NORMAL", r)
           v  == NewWindow(id, "NORMAL", r)
<1>1. Sound(stack)
  BY InvSplits
<1>2. /\ r \in Rect /\ r.w > 0 /\ r.h > 0 /\ "NORMAL" \in Role
      /\ r.h = sz.h + DECOR_TITLEBAR_H
  BY RequestsAssumption, TitlebarAssumption DEF Rect, Size, Role
<1>3. ~IsFull(stack) /\ stack' = window_focus(t, id)
  BY DEF MapToplevel
<1> HIDE DEF r
<1>4. v.id = id /\ v.role = "NORMAL" /\ ~v.app_decorated /\ ~v.snapped /\ v.w = r.w /\ v.h = r.h
  BY DEF NewWindow
<1>5. /\ Sound(t) /\ t.next_id = id + 1 /\ v \in Window
      /\ Contents(t) = Contents(stack) \cup {v}
  BY <1>1, <1>2, <1>3, CreateSound, CreateContents
<1> HIDE DEF t, v
<1>6. Contents(stack') = Contents(t) /\ stack'.next_id = t.next_id
  BY <1>3, <1>5, FocusContents, FocusSound
<1> HIDE DEF id
<1> QED
  BY <1>2, <1>4, <1>5, <1>6 DEF window_has_ssd, id

\* A client moves or resizes its own window, which keeps a size it had.
LEMMA SetClientGeometryContents ==
  ASSUME Inv, NEW id, NEW r \in ClientRects, SetClientGeometry(id, r)
  PROVE  /\ stack'.next_id = stack.next_id
         /\ \E w \in Contents(stack), v \in Window :
              w.app_decorated /\ SameButRect(w, v) /\ Swapped(stack, stack', w, v)
<1> DEFINE w == window_by_id(stack, id)
<1>1. Sound(stack) /\ r \in Rect /\ Exists(stack, id) /\ w.app_decorated
  BY InvSplits, RequestsAssumption DEF SetClientGeometry
<1>2. stack' = window_set_geometry(stack, id, r)
  BY DEF SetClientGeometry
<1>3. w \in Contents(stack) /\ w.id = id
  BY <1>1, ContentsDecide
<1>4. PICK v : SameButRect(w, v) /\ Swapped(stack, stack', w, v)
  BY <1>1, <1>2, GeometryContents
<1>5. v \in Window
  BY <1>4 DEF SameButRect
<1> HIDE DEF w
<1> QED
  BY <1>1, <1>2, <1>3, <1>4, <1>5, SetGeometrySound

\* A toplevel resizes its window where it is.
LEMMA ResizeToplevelContents ==
  ASSUME Inv, NEW id, NEW sz \in ContentSizes, ResizeToplevel(id, sz)
  PROVE  /\ stack'.next_id = stack.next_id
         /\ \E w \in Contents(stack), v \in Window :
              /\ window_has_ssd(w) /\ SameButRect(w, v)
              /\ v.x = w.x /\ v.y = w.y /\ v.w = sz.w /\ v.h = sz.h + DECOR_TITLEBAR_H
              /\ v.w > 0 /\ v.h > 0 /\ Swapped(stack, stack', w, v)
<1> DEFINE w  == window_by_id(stack, id)
           nw == sz.w
           nh == sz.h + DECOR_TITLEBAR_H
           v  == [w EXCEPT !.w = nw, !.h = nh]
<1>1. Sound(stack) /\ Exists(stack, id) /\ window_has_ssd(w)
  BY InvSplits DEF ResizeToplevel
<1>2. stack' = Update(stack, id, v)
  BY DEF ResizeToplevel
<1>3. w \in Contents(stack) /\ w.id = id /\ w \in Window
  BY <1>1, ContentsDecide
<1>4. nw \in Int /\ nh \in Int /\ nw > 0 /\ nh > 0
  BY RequestsAssumption, TitlebarAssumption DEF Size
<1> HIDE DEF nw, nh, w
<1>5. /\ SameButRect(w, v) /\ v.x = w.x /\ v.y = w.y /\ v.w > 0 /\ v.h > 0 /\ v \in Window
      /\ v.w = nw /\ v.h = nh
  BY <1>3, <1>4 DEF Window, SameButRect
<1> HIDE DEF v
<1>6. Swapped(stack, stack', w, v) /\ stack'.next_id = stack.next_id
  BY <1>1, <1>2, <1>3, <1>5, UpdateContents, UpdateSound DEF Swapped, SameButRect, w
<1> QED
  BY <1>1, <1>3, <1>5, <1>6 DEF nw, nh

\* A resolution change touches wallpapers alone.
LEMMA SetModeContents ==
  ASSUME Inv, NEW m \in Modes, SetMode(m)
  PROVE  /\ stack'.next_id = stack.next_id
         /\ \A v \in Contents(stack') : \E w \in Contents(stack) :
              v = w \/ (w.role = "DESKTOP" /\ SameButRect(w, v))
<1> DEFINE n  == Len(stack.windows)
           ws == [i \in 1 .. n |-> Refit(stack.windows[i], m)]
<1>1. /\ stack \in Stack /\ n \in Nat /\ DOMAIN stack.windows = 1 .. n
      /\ \A i \in 1 .. n : stack.windows[i] \in Window
  BY InvSplits DEF Sound, Stack
<1>2. stack' = [stack EXCEPT !.windows = ws]
  BY <1>1 DEF SetMode
<1>3. stack'.windows = ws /\ stack'.next_id = stack.next_id
  BY <1>1, <1>2 DEF Stack
<1>4. Len(ws) = n
  BY <1>1
<1>5. ASSUME NEW w \in Window
      PROVE  Refit(w, m) = w \/ (w.role = "DESKTOP" /\ SameButRect(w, Refit(w, m)))
  <2> DEFINE z  == 0
             mw == m.w
             mh == m.h
             v  == [w EXCEPT !.x = z, !.y = z, !.w = mw, !.h = mh]
  <2>1. z \in Int /\ mw \in Int /\ mh \in Int
    BY ScreenIsSize
  <2>2. w.role = "DESKTOP" => Refit(w, m) = v
    BY DEF Refit
  <2>3. w.role # "DESKTOP" => Refit(w, m) = w
    BY DEF Refit
  <2> HIDE DEF z, mw, mh
  <2>4. SameButRect(w, v)
    BY <2>1 DEF SameButRect, Window
  <2> HIDE DEF v
  <2> QED
    BY <2>2, <2>3, <2>4
<1>6. ASSUME NEW v \in Contents(stack')
      PROVE  \E w \in Contents(stack) : v = w \/ (w.role = "DESKTOP" /\ SameButRect(w, v))
  <2>1. PICK i \in 1 .. n : v = Refit(stack.windows[i], m)
    BY <1>3, <1>4 DEF Contents
  <2> QED
    BY <1>1, <1>5, <2>1 DEF Contents
<1> QED
  BY <1>3, <1>6

\* Both pointer events move the cursor somewhere.
LEMMA PointerIsMotion ==
  ASSUME Inv, Pointer
  PROVE  \E nx \in Int, ny \in Int : MoveCursor(nx, ny)
<1>1. cursor.x \in Int /\ cursor.y \in Int
  BY InvSplits DEF WordsOK
<1>2. ASSUME NEW dx \in HalfDeltas, NEW dy \in HalfDeltas, wm_pointer_motion(dx, dy)
      PROVE  \E nx \in Int, ny \in Int : MoveCursor(nx, ny)
  <2>1. Truncate(dx) \in Int /\ Truncate(dy) \in Int
    BY RequestsAssumption, TruncateIsInt
  <2>2. cursor.x + Truncate(dx) \in Int /\ cursor.y + Truncate(dy) \in Int
    BY <1>1, <2>1
  <2> QED
    BY <1>2, <2>2 DEF wm_pointer_motion
<1>3. ASSUME NEW a \in AbsInput, wm_pointer_motion_abs(a.x, a.y)
      PROVE  \E nx \in Int, ny \in Int : MoveCursor(nx, ny)
  <2>1. a.x \in Int /\ a.y \in Int
    BY ScreenIsSize, ModesAssumption DEF AbsInput
  <2>2. Truncate(a.x) \in Int /\ Truncate(a.y) \in Int
    BY <2>1, TruncateIsInt
  <2> QED
    BY <1>3, <2>2 DEF wm_pointer_motion_abs
<1> QED
  BY <1>2, <1>3 DEF Pointer

\* Everything else only reorders the windows or takes some away.
LEMMA OtherContents ==
  ASSUME Inv, wm_key \/ NotifyReconfigured \/ (\E id : DestroyWindow(id)) \/ UNCHANGED vars
  PROVE  /\ UNCHANGED <<screen, cursor, drag>> /\ stack'.next_id = stack.next_id
         /\ Contents(stack') \subseteq Contents(stack)
<1>1. Sound(stack)
  BY InvSplits
<1>2. CASE wm_key
  <2>1. \/ stack' = stack
        \/ \E id : stack' = window_focus(stack, id)
    BY <1>1, <1>2, CycleFocuses DEF wm_key
  <2> QED
    BY <1>1, <1>2, <2>1, FocusContents, FocusSound DEF wm_key
<1>3. CASE NotifyReconfigured \/ UNCHANGED vars
  BY <1>3 DEF NotifyReconfigured, vars, drag
<1>4. ASSUME NEW id, DestroyWindow(id)
      PROVE  /\ UNCHANGED <<screen, cursor, drag>> /\ stack'.next_id = stack.next_id
             /\ Contents(stack') \subseteq Contents(stack)
  BY <1>1, <1>4, DestroyContents, DestroySound DEF DestroyWindow
<1> QED
  BY <1>2, <1>3, <1>4

----------------------------------------------------------------------------
(* Snapped windows can be restored.                                        *)

\* Only a snap, which takes the height of the work area, or a resize while snapped makes a
\* decorated window lower than its title bar.
Restorable(w) ==
  /\ window_has_ssd(w) => w.w > 0 /\ w.h > 0
  /\ window_has_ssd(w) /\ ~w.snapped => w.h >= DECOR_TITLEBAR_H
  /\ w.snapped => window_has_ssd(w) /\ w.saved.w > 0 /\ w.saved.h >= DECOR_TITLEBAR_H

Restoring == \A w \in Contents(stack) : Restorable(w)

LEMMA RestoringIsRestorable == Inv /\ Restoring => SnappedIsRestorable
<1> SUFFICES ASSUME Inv, Restoring
             PROVE  SnappedIsRestorable
  OBVIOUS
<1>1. DOMAIN stack.windows = 1 .. Len(stack.windows)
  BY InvSplits DEF Sound, Stack
<1>2. \A i \in DOMAIN stack.windows :
        stack.windows[i] \in Window /\ Restorable(stack.windows[i])
  BY <1>1, InvSplits DEF Restoring, Contents, Sound, Stack
<1> QED
  BY <1>2, TitlebarAssumption DEF Restorable, SnappedIsRestorable, Window, Rect

\* A step that changes one window.
LEMMA RestoringSwap ==
  ASSUME Inv, Restoring, NEW w \in Contents(stack), NEW v, Swapped(stack, stack', w, v),
         Restorable(v)
  PROVE  Restoring'
  BY DEF Restoring, Swapped, Restorable, window_has_ssd

LEMMA NextRestoring == Inv /\ Restoring /\ [Next]_vars => Restoring'
<1> SUFFICES ASSUME Inv, Restoring, [Next]_vars
             PROVE  Restoring'
  OBVIOUS
<1>1. \A w \in Contents(stack) : w \in Window /\ Restorable(w)
  BY InvSplits, ContentsDecide DEF Restoring
<1>2. ASSUME Contents(stack') \subseteq Contents(stack)
      PROVE  Restoring'
  BY <1>2 DEF Restoring, Restorable, window_has_ssd
<1>3. ASSUME NEW v \in Window, Contents(stack') = Contents(stack) \cup {v}, Restorable(v)
      PROVE  Restoring'
  BY <1>3 DEF Restoring, Restorable, window_has_ssd
<1>4. CASE Pointer
  <2>1. PICK nx \in Int, ny \in Int : MoveCursor(nx, ny)
    BY <1>4, PointerIsMotion
  <2>2. CASE Contents(stack') = Contents(stack)
    BY <1>2, <2>2
  <2>3. ASSUME NEW w \in Contents(stack), NEW v \in Window, SameButRect(w, v),
               v.w = w.w, v.h = w.h, Swapped(stack, stack', w, v)
        PROVE  Restoring'
    <3>1. Restorable(v)
      BY <1>1, <2>3 DEF Restorable, SameButRect, window_has_ssd
    <3> QED
      BY <2>3, <3>1, RestoringSwap
  <2> QED
    BY <2>1, <2>2, <2>3, MoveCursorContents
<1>5. CASE PressLeft
  <2>1. CASE Contents(stack') = Contents(stack)
    BY <1>2, <2>1
  <2>2. ASSUME NEW w \in Contents(stack), NEW v \in Window,
               SameButRect([w EXCEPT !.snapped = FALSE], v), OnHandle(w), w.snapped,
               v.w = IF Unsnapped(w).w > 0 THEN Unsnapped(w).w ELSE w.w,
               v.h = IF Unsnapped(w).h > 0 THEN Unsnapped(w).h ELSE w.h,
               Swapped(stack, stack', w, v)
        PROVE  Restoring'
    <3>1. w.w > 0 /\ w.h > 0 /\ w \in Window
      BY <1>1, <2>2 DEF Restorable, OnHandle
    <3>2. v.w > 0 /\ v.h > 0 /\ v.h >= DECOR_TITLEBAR_H
      <4>1. w.saved.h >= DECOR_TITLEBAR_H /\ w.saved.h \in Int
        <5>1. w \in Window /\ Restorable(w)
          BY <1>1
        <5> QED
          BY <2>2, <5>1 DEF Restorable, Window, Rect
      <4>2. Unsnapped(w).h = w.saved.h
        BY <4>1, TitlebarAssumption DEF Unsnapped
      <4> QED
        BY <2>2, <3>1, <4>1, <4>2, TitlebarAssumption
    <3>3. ~v.snapped
      BY <2>2, <3>1 DEF SameButRect, Window
    <3> QED
      BY <2>2, <3>2, <3>3, RestoringSwap DEF Restorable
  <2> QED
    BY <1>5, <2>1, <2>2, PressLeftContents
<1>6. CASE ReleaseLeft
  <2>1. CASE stack' = stack
    BY <1>2, <2>1
  <2>2. ASSUME NEW w \in Contents(stack), NEW v \in Window, window_has_ssd(w), v.role = w.role,
               v.app_decorated = w.app_decorated, v.snapped,
               v.saved = (IF w.snapped THEN w.saved ELSE RectOf(w)),
               v.w = IF SnapTarget.w > 0 THEN SnapTarget.w ELSE w.w,
               v.h = IF SnapTarget.h > 0 THEN SnapTarget.h ELSE w.h,
               Swapped(stack, stack', w, v)
        PROVE  Restoring'
    <3>1. /\ w.w > 0 /\ w.h > 0
          /\ w.snapped => w.saved.w > 0 /\ w.saved.h >= DECOR_TITLEBAR_H
          /\ ~w.snapped => w.h >= DECOR_TITLEBAR_H
      BY <1>1, <2>2 DEF Restorable
    <3>2. v.w > 0 /\ v.h > 0
      BY <2>2, <3>1
    <3>3. v.saved.w > 0 /\ v.saved.h >= DECOR_TITLEBAR_H
      BY <2>2, <3>1 DEF RectOf
    <3>4. window_has_ssd(v)
      BY <2>2 DEF window_has_ssd
    <3> QED
      BY <2>2, <3>2, <3>3, <3>4, RestoringSwap DEF Restorable
  <2> QED
    BY <1>6, <2>1, <2>2, ReleaseLeftContents
<1>7. CASE wm_key \/ NotifyReconfigured \/ (\E id : DestroyWindow(id)) \/ UNCHANGED vars
  BY <1>2, <1>7, OtherContents
<1>8. ASSUME NEW role \in ClientRoles, NEW r \in ClientRects, CreateClientWindow(role, r)
      PROVE  Restoring'
  BY <1>3, <1>8, CreateClientWindowContents DEF Restorable, window_has_ssd
<1>9. ASSUME NEW sz \in ContentSizes, MapToplevel(sz)
      PROVE  Restoring'
  <2>1. sz.h + DECOR_TITLEBAR_H >= DECOR_TITLEBAR_H
    BY RequestsAssumption, TitlebarAssumption DEF Size
  <2> QED
    BY <1>3, <1>9, <2>1, MapToplevelContents DEF Restorable
<1>10. ASSUME NEW id, NEW r \in ClientRects, SetClientGeometry(id, r)
       PROVE  Restoring'
  <2>1. ASSUME NEW w \in Contents(stack), NEW v \in Window, w.app_decorated, SameButRect(w, v),
               Swapped(stack, stack', w, v)
        PROVE  Restoring'
    <3>1. Restorable(v)
      BY <1>1, <2>1 DEF Restorable, SameButRect, window_has_ssd
    <3> QED
      BY <2>1, <3>1, RestoringSwap
  <2> QED
    BY <1>10, <2>1, SetClientGeometryContents
<1>11. ASSUME NEW id, NEW sz \in ContentSizes, ResizeToplevel(id, sz)
       PROVE  Restoring'
  <2>1. ASSUME NEW w \in Contents(stack), NEW v \in Window, SameButRect(w, v),
               v.w > 0, v.h > 0, v.h = sz.h + DECOR_TITLEBAR_H, Swapped(stack, stack', w, v)
        PROVE  Restoring'
    <3>1. v.h >= DECOR_TITLEBAR_H
      BY <2>1, RequestsAssumption, TitlebarAssumption DEF Size
    <3>2. Restorable(v)
      BY <1>1, <2>1, <3>1 DEF Restorable, SameButRect, window_has_ssd
    <3> QED
      BY <2>1, <3>2, RestoringSwap
  <2> QED
    BY <1>11, <2>1, ResizeToplevelContents
<1>12. ASSUME NEW m \in Modes, SetMode(m)
       PROVE  Restoring'
  <2>1. ASSUME NEW v \in Contents(stack'), NEW w \in Contents(stack),
               v = w \/ (w.role = "DESKTOP" /\ SameButRect(w, v))
        PROVE  Restorable(v)
    BY <1>1, <2>1 DEF Restorable, SameButRect, window_has_ssd
  <2> QED
    BY <1>12, <2>1, SetModeContents DEF Restoring, Restorable, window_has_ssd
<1> QED
  BY <1>4, <1>5, <1>6, <1>7, <1>8, <1>9, <1>10, <1>11, <1>12 DEF Next, Requests

\* wm_snap_on_release saves what a later drag gives back: whatever its client resized
\* meanwhile and however often it was snapped again, a snapped window is one glacier
\* decorates and its floating rectangle has a size.
THEOREM SnapsCanBeUndone == Spec => []SnappedIsRestorable
<1>1. Init => Restoring
  BY DEF Init, window_stack_init, Restoring, Contents
<1>2. Spec => [](Inv /\ Restoring)
  BY <1>1, InitKeeps, NextKeeps, NextRestoring, PTL DEF Spec
<1> QED
  BY <1>2, RestoringIsRestorable, PTL

----------------------------------------------------------------------------
(* Dragged windows stay under the pointer.                                 *)

\* The window being dragged has a title bar to be held by, and is where it was grabbed.
Held(w) == window_has_ssd(w) /\ ~w.snapped

UnderPointer(w) == w.x = cursor.x - grab.dx /\ w.y = cursor.y - grab.dy

\* A drag's id is one already issued: no new window takes it.
Gripping ==
  /\ OnScreen(cursor, screen)
  /\ moving <=> move_id # 0
  /\ moving => /\ move_id < stack.next_id
               /\ grab.dx >= 0 /\ grab.dy \in 0 .. DECOR_TITLEBAR_H - 1
  /\ \A w \in Contents(stack) : moving /\ w.id = move_id => Held(w)

Anchored == \A w \in Contents(stack) : moving /\ w.id = move_id => UnderPointer(w)

LEMMA GrippingIsAnchored == Inv /\ Gripping => (Anchored <=> DragAnchored)
<1> SUFFICES ASSUME Inv, Gripping
             PROVE  Anchored <=> DragAnchored
  OBVIOUS
<1>1. Exists(stack, move_id) => /\ window_by_id(stack, move_id) \in Contents(stack)
                                /\ window_by_id(stack, move_id).id = move_id
  BY InvSplits, ContentsDecide
<1>2. ASSUME NEW w \in Contents(stack), w.id = move_id
      PROVE  Exists(stack, move_id) /\ w = window_by_id(stack, move_id)
  BY <1>1, <1>2, InvSplits, ContentsDecide
<1>3. ASSUME Anchored
      PROVE  DragAnchored
  BY <1>1, <1>3 DEF Anchored, UnderPointer, Gripping, DragAnchored, Held
<1>4. ASSUME DragAnchored
      PROVE  Anchored
  BY <1>2, <1>4 DEF Anchored, UnderPointer, DragAnchored
<1> QED
  BY <1>3, <1>4

LEMMA GrippingIsAnchoredNext == (Inv /\ Gripping)' => (Anchored <=> DragAnchored)'
BY GrippingIsAnchored, PTL

\* Steps that leave the drag alone, and every window that is not new where it was, or was
\* not one glacier decorates.
LEMMA GrippingKept ==
  ASSUME Inv, Gripping, UNCHANGED drag, OnScreen(cursor', screen'),
         stack'.next_id >= stack.next_id, stack'.next_id \in Nat,
         \A v \in Contents(stack') :
           \/ v.id = stack.next_id
           \/ \E w \in Contents(stack) :
                /\ v.id = w.id
                /\ window_has_ssd(w) => /\ window_has_ssd(v) /\ v.snapped = w.snapped
                                        /\ v.x = w.x /\ v.y = w.y
  PROVE  Gripping' /\ (Anchored /\ cursor' = cursor => Anchored')
<1>1. /\ UNCHANGED <<moving, move_id, grab>>
      /\ move_id \in Nat /\ stack.next_id \in Nat
  BY InvSplits DEF drag, WordsOK, Sound, Stack
<1>2. /\ OnScreen(cursor, screen)' /\ (moving <=> move_id # 0)'
      /\ moving' => grab'.dx >= 0 /\ grab'.dy \in 0 .. DECOR_TITLEBAR_H - 1
  BY <1>1 DEF Gripping, OnScreen
<1>3. moving' => move_id' < stack'.next_id
  BY <1>1 DEF Gripping
<1>4. ASSUME NEW v \in Contents(stack'), moving', v.id = move_id'
      PROVE  Held(v)' /\ (Anchored /\ cursor' = cursor => UnderPointer(v)')
  <2>1. v.id # stack.next_id
    BY <1>1, <1>4 DEF Gripping
  <2>2. PICK w \in Contents(stack) :
          /\ v.id = w.id
          /\ window_has_ssd(w) => /\ window_has_ssd(v) /\ v.snapped = w.snapped
                                  /\ v.x = w.x /\ v.y = w.y
    BY <2>1
  <2>3. Held(w) /\ (Anchored => UnderPointer(w))
    BY <1>1, <1>4, <2>2 DEF Gripping, Anchored
  <2> QED
    BY <1>1, <2>2, <2>3 DEF Held, UnderPointer, window_has_ssd
<1>5. Gripping'
  BY <1>2, <1>3, <1>4 DEF Gripping
<1> QED
  BY <1>4, <1>5 DEF Anchored

\* A window taken hold of.
LEMMA StartGripping ==
  ASSUME Inv, Gripping, UNCHANGED <<screen, cursor>>, stack'.next_id = stack.next_id,
         NEW w \in Contents(stack), NEW v \in Contents(stack'), v.id = w.id,
         \A u \in Contents(stack') : u.id = v.id => u = v,
         window_has_ssd(v), ~v.snapped, StartDrag(w.id, v.x, v.y), v.x \in Int, v.y \in Int,
         v.x <= cursor.x, v.y <= cursor.y, cursor.y - v.y < DECOR_TITLEBAR_H
  PROVE  Gripping' /\ Anchored'
<1>1. w.id \in Nat \ {0} /\ w.id < stack.next_id
  BY InvSplits, ContentsDecide DEF Window
<1>2. cursor.x \in Int /\ cursor.y \in Int
  BY InvSplits DEF WordsOK
<1>3. /\ moving' /\ move_id' = w.id /\ UNCHANGED <<screen, cursor>>
      /\ grab'.dx = cursor.x - v.x /\ grab'.dy = cursor.y - v.y
  BY DEF StartDrag
<1>4. /\ moving' = TRUE /\ OnScreen(cursor, screen)'
      /\ move_id' # 0 /\ move_id' < stack'.next_id
  BY <1>1, <1>3 DEF Gripping, OnScreen, StartDrag
<1>5. grab'.dx >= 0 /\ grab'.dy \in 0 .. DECOR_TITLEBAR_H - 1
  BY <1>2, <1>3, TitlebarAssumption
<1>6. ASSUME NEW u \in Contents(stack'), u.id = move_id'
      PROVE  Held(u)' /\ UnderPointer(u)'
  <2>1. u = v
    BY <1>3, <1>6
  <2>2. v.x = cursor.x - grab'.dx /\ v.y = cursor.y - grab'.dy
    BY <1>2, <1>3
  <2> QED
    BY <1>3, <2>1, <2>2 DEF Held, UnderPointer, window_has_ssd
<1> QED
  BY <1>4, <1>5, <1>6 DEF Gripping, Anchored

\* Where a snapped window goes when it is dragged out of its snap: its title bar is
\* under the pointer.
LEMMA UnsnappedUnderPointer ==
  ASSUME Inv, OnScreen(cursor, screen), NEW w \in Window, w.saved.w > 0
  PROVE  /\ Unsnapped(w) \in Rect
         /\ Unsnapped(w).x <= cursor.x /\ cursor.x < Unsnapped(w).x + w.saved.w
         /\ Unsnapped(w).y <= cursor.y /\ cursor.y - Unsnapped(w).y < DECOR_TITLEBAR_H
<1> DEFINE nw == w.saved.w
           nh == IF w.saved.h > 0 THEN w.saved.h ELSE w.h
           h  == DECOR_TITLEBAR_H \div 2
           cx == cursor.x
           cy == cursor.y
<1>1. Unsnapped(w) \in Rect
  BY InvSplits, UnsnappedIsRect
<1>2. cx \in Nat /\ cy \in Nat
  <2>1. screen.w \in Int /\ screen.h \in Int
    BY InvSplits, ScreenIsSize DEF WordsOK
  <2> QED
    BY <2>1 DEF OnScreen
<1>3. h \in Nat /\ h < DECOR_TITLEBAR_H
  BY TitlebarAssumption
<1>4. nw \in Int /\ nw \div 2 \in Nat /\ nw \div 2 < nw
  <2>1. nw \in Nat
    BY DEF Window, Rect
  <2> QED
    BY <2>1
<1>5. /\ Unsnapped(w).x = IF cx - nw \div 2 < 0 THEN 0 ELSE cx - nw \div 2
      /\ Unsnapped(w).y = IF cy - h < 0 THEN 0 ELSE cy - h
  BY DEF Unsnapped
<1> HIDE DEF nw, h, cx, cy
<1>6. /\ Unsnapped(w).x <= cx /\ cx < Unsnapped(w).x + nw
      /\ Unsnapped(w).y <= cy /\ cy - Unsnapped(w).y < DECOR_TITLEBAR_H
  BY <1>2, <1>3, <1>4, <1>5, TitlebarAssumption
<1> QED
  BY <1>1, <1>6 DEF cx, cy, nw

\* Each motion of the pointer takes the dragged window to where it was grabbed, wherever
\* it was before.
LEMMA PointerAnchors ==
  ASSUME Inv, Gripping, Pointer
  PROVE  Gripping' /\ Anchored'
<1>1. /\ \A u \in Contents(stack) : u \in Window
      /\ \A u, v \in Contents(stack) : u.id = v.id => u = v
  BY InvSplits, ContentsDecide
<1>2. PICK nx \in Int, ny \in Int : MoveCursor(nx, ny)
  BY PointerIsMotion
<1>3. /\ OnScreen(cursor, screen)' /\ (moving <=> move_id # 0)'
      /\ moving' => /\ move_id' < stack'.next_id
                    /\ grab'.dx >= 0 /\ grab'.dy \in 0 .. DECOR_TITLEBAR_H - 1
      /\ UNCHANGED <<moving, move_id, grab>>
  BY <1>2, MoveCursorContents DEF Gripping, OnScreen
<1>4. CASE Contents(stack') = Contents(stack) /\ (moving => ~Exists(stack, move_id))
  <2>1. \A w \in Contents(stack) : moving => w.id # move_id
    BY InvSplits, <1>4, ContentsDecide
  <2> QED
    BY <1>3, <1>4, <2>1 DEF Gripping, Anchored
<1>5. ASSUME NEW w \in Contents(stack), NEW v \in Window, moving, w.id = move_id,
             SameButRect(w, v), v.x = cursor'.x - grab.dx, v.y = cursor'.y - grab.dy,
             Swapped(stack, stack', w, v)
      PROVE  Gripping' /\ Anchored'
  <2>1. Held(w)
    BY <1>5 DEF Gripping
  <2>2. Held(v)' /\ UnderPointer(v)'
    BY <1>3, <1>5, <2>1 DEF Held, UnderPointer, SameButRect, window_has_ssd
  <2>3. \A u \in Contents(stack') : u.id = move_id' => u = v
    BY <1>1, <1>3, <1>5 DEF Swapped, SameButRect
  <2> QED
    BY <1>3, <2>2, <2>3 DEF Gripping, Anchored
<1> QED
  BY <1>2, <1>4, <1>5, MoveCursorContents

\* apply_mode_cb pulls the cursor onto the new screen.
LEMMA ModeGripping ==
  ASSUME Inv, Gripping, NEW m \in Modes, SetMode(m)
  PROVE  Gripping' /\ (Anchored /\ screen' = screen => Anchored')
<1>1. /\ screen' = m /\ m.w \in Nat /\ m.h \in Nat /\ m.w > 0 /\ m.h > 0
      /\ cursor.x \in Int /\ cursor.y \in Int /\ cursor \in [x : Int, y : Int]
  BY InvSplits, ScreenIsSize DEF WordsOK, SetMode
<1>2. screen.w \in Nat /\ screen.h \in Nat
  BY InvSplits, ScreenIsSize DEF WordsOK
<1>3. OnScreen(cursor', screen')
  <2>1. /\ cursor'.x = IF cursor.x >= m.w THEN m.w - 1 ELSE cursor.x
        /\ cursor'.y = IF cursor.y >= m.h THEN m.h - 1 ELSE cursor.y
    BY DEF SetMode
  <2>2. cursor.x >= 0 /\ cursor.y >= 0
    BY <1>2 DEF Gripping, OnScreen
  <2>3. cursor'.x \in 0 .. m.w - 1 /\ cursor'.y \in 0 .. m.h - 1
    BY <1>1, <2>1, <2>2
  <2> QED
    BY <1>1, <2>3 DEF OnScreen
<1>4. screen' = screen => cursor' = cursor
  <2>1. screen' = screen => ~(cursor.x >= m.w) /\ ~(cursor.y >= m.h)
    BY <1>1 DEF Gripping, OnScreen
  <2> QED
    BY <1>1, <2>1 DEF SetMode
<1>5. UNCHANGED drag
  BY DEF SetMode
<1>6. \A v \in Contents(stack') : \E w \in Contents(stack) :
        /\ v.id = w.id
        /\ window_has_ssd(w) => /\ window_has_ssd(v) /\ v.snapped = w.snapped
                                /\ v.x = w.x /\ v.y = w.y
  BY SetModeContents DEF window_has_ssd, SameButRect
<1>7. stack'.next_id = stack.next_id /\ stack.next_id \in Nat
  BY InvSplits, SetModeContents DEF Sound, Stack
<1> QED
  BY <1>3, <1>4, <1>5, <1>6, <1>7, GrippingKept

\* What is dragged stays one that can be dragged, and nothing but a change of the screen's
\* size takes it from under the pointer.
LEMMA NextGripping ==
  ASSUME Inv, Restoring, Gripping, [Next]_vars
  PROVE  Gripping' /\ (Anchored /\ screen' = screen => Anchored')
<1> DEFINE Kept == Gripping' /\ (Anchored /\ screen' = screen => Anchored')
<1>1. /\ Sound(stack) /\ Sound(stack') /\ stack.next_id \in Nat /\ stack'.next_id \in Nat
      /\ WordsOK /\ WordsOK'
  BY InvSplits, NextKeeps, InvSplitsNext DEF Sound, Stack
<1>2. /\ \A u \in Contents(stack) : u \in Window
      /\ \A u, v \in Contents(stack) : u.id = v.id => u = v
      /\ \A u, v \in Contents(stack') : u.id = v.id => u = v
  BY <1>1, ContentsDecide
<1>3. UNCHANGED <<screen, cursor>> => OnScreen(cursor', screen')
  BY DEF Gripping, OnScreen
<1>4. CASE PressLeft
  <2>1. UNCHANGED <<screen, cursor>> /\ stack'.next_id = stack.next_id
    BY <1>4, PressLeftContents
  <2>2. CASE Contents(stack') = Contents(stack) /\ UNCHANGED drag
    BY <1>1, <1>3, <2>1, <2>2, GrippingKept
  <2>3. ASSUME NEW w \in Contents(stack), OnHandle(w), InRect(w, cursor.x, cursor.y),
               StartDrag(w.id, w.x, w.y), ~w.snapped, Contents(stack') = Contents(stack)
        PROVE  Kept
    <3>1. w.x \in Int /\ w.y \in Int /\ w.x <= cursor.x /\ w.y <= cursor.y
      BY <1>1, <1>2, <2>3 DEF InRect, Window, WordsOK
    <3> QED
      BY <1>2, <2>1, <2>3, <3>1, StartGripping DEF OnHandle
  <2>4. ASSUME NEW w \in Contents(stack), NEW v \in Window, OnHandle(w), w.snapped,
               StartDrag(w.id, Unsnapped(w).x, Unsnapped(w).y),
               SameButRect([w EXCEPT !.snapped = FALSE], v),
               v.x = Unsnapped(w).x, v.y = Unsnapped(w).y, Swapped(stack, stack', w, v)
        PROVE  Kept
    <3>1. w \in Window /\ w.w > 0 /\ w.saved.w > 0
      BY <1>2, <2>4 DEF Restoring, Restorable
    <3>2. /\ v.id = w.id /\ ~v.snapped /\ v.role = w.role /\ v.app_decorated = w.app_decorated
      BY <2>4, <3>1 DEF SameButRect, Window
    <3>3. window_has_ssd(v)
      BY <2>4, <3>2 DEF OnHandle, window_has_ssd
    <3>4. /\ v.x <= cursor.x /\ v.y <= cursor.y /\ cursor.y - v.y < DECOR_TITLEBAR_H
          /\ v.x \in Int /\ v.y \in Int
      BY <2>4, <3>1, UnsnappedUnderPointer DEF Window, Gripping
    <3>5. v \in Contents(stack')
      BY <2>4 DEF Swapped
    <3> QED
      BY <1>2, <2>1, <2>4, <3>2, <3>3, <3>4, <3>5, StartGripping
  <2> QED
    BY <1>4, <2>2, <2>3, <2>4, PressLeftContents
<1>5. CASE ReleaseLeft
  BY <1>5, ReleaseLeftContents DEF Gripping, Anchored, OnScreen
<1>6. CASE wm_key \/ NotifyReconfigured \/ (\E id : DestroyWindow(id)) \/ UNCHANGED vars
  BY <1>1, <1>3, <1>6, OtherContents, GrippingKept
<1>7. ASSUME NEW v \in Window, v.id = stack.next_id, UNCHANGED <<screen, cursor, drag>>,
             Contents(stack') = Contents(stack) \cup {v}, stack'.next_id = stack.next_id + 1
      PROVE  Kept
  BY <1>1, <1>3, <1>7, GrippingKept
<1>8. ASSUME NEW role \in ClientRoles, NEW r \in ClientRects, CreateClientWindow(role, r)
      PROVE  Kept
  BY <1>7, <1>8, CreateClientWindowContents DEF CreateClientWindow
<1>9. ASSUME NEW sz \in ContentSizes, MapToplevel(sz)
      PROVE  Kept
  BY <1>7, <1>9, MapToplevelContents DEF MapToplevel
<1>10. ASSUME NEW w \in Contents(stack), NEW v \in Window, SameButRect(w, v),
              Swapped(stack, stack', w, v), UNCHANGED <<screen, cursor, drag>>,
              stack'.next_id = stack.next_id, window_has_ssd(w) => v.x = w.x /\ v.y = w.y
       PROVE  Kept
  <2>1. \A u \in Contents(stack') : u = v \/ u \in Contents(stack)
    BY <1>10 DEF Swapped
  <2>2. window_has_ssd(w) => window_has_ssd(v) /\ v.snapped = w.snapped
    BY <1>10 DEF SameButRect, window_has_ssd
  <2>3. v.id = w.id
    BY <1>10 DEF SameButRect
  <2> QED
    BY <1>1, <1>3, <1>10, <2>1, <2>2, <2>3, GrippingKept
<1>11. ASSUME NEW id, NEW r \in ClientRects, SetClientGeometry(id, r)
       PROVE  Kept
  BY <1>10, <1>11, SetClientGeometryContents DEF SetClientGeometry, window_has_ssd
<1>12. ASSUME NEW id, NEW sz \in ContentSizes, ResizeToplevel(id, sz)
       PROVE  Kept
  BY <1>10, <1>12, ResizeToplevelContents DEF ResizeToplevel
<1>13. ASSUME NEW m \in Modes, SetMode(m)
       PROVE  Kept
  BY <1>13, ModeGripping
<1>14. CASE Pointer
  BY <1>14, PointerAnchors
<1> QED
  BY <1>4, <1>5, <1>6, <1>8, <1>9, <1>11, <1>12, <1>13, <1>14 DEF Next, Requests

LEMMA InitGripping == Init => Restoring /\ Gripping /\ Anchored
<1>1. ASSUME NEW n \in Nat, n > 0
      PROVE  n \div 2 \in 0 .. n - 1
  BY <1>1
<1>2. BootMode.w \in Nat /\ BootMode.h \in Nat /\ BootMode.w > 0 /\ BootMode.h > 0
  BY ScreenIsSize, ModesAssumption
<1> QED
  BY <1>1, <1>2
     DEF Init, window_stack_init, Restoring, Gripping, Anchored, Contents, OnScreen

LEMMA GrippingHolds == Spec => [](Inv /\ Restoring /\ Gripping)
<1>1. Init => Inv /\ Restoring /\ Gripping
  BY InitKeeps, InitGripping
<1>2. Inv /\ Restoring /\ Gripping /\ [Next]_vars => (Inv /\ Restoring /\ Gripping)'
  BY NextKeeps, NextRestoring, NextGripping
<1> QED
  BY <1>1, <1>2, PTL DEF Spec

\* drag_grabbed "so its grabbed point stays under the pointer" (wm.c), with any number of
\* screen sizes: only a mode change takes a dragged window from under the pointer, and the
\* next motion brings it back to where it was grabbed.
DragRecovers ==
  [][ /\ DragAnchored /\ screen' = screen => DragAnchored'
      /\ Pointer => DragAnchored' ]_vars

THEOREM DragsRecover == Spec => DragRecovers
<1>1. ASSUME Inv, Restoring, Gripping, (Inv /\ Restoring /\ Gripping)', Next
      PROVE  /\ DragAnchored /\ screen' = screen => DragAnchored'
             /\ Pointer => DragAnchored'
  <2>1. /\ Anchored <=> DragAnchored
        /\ Anchored' <=> DragAnchored'
    BY <1>1, GrippingIsAnchored, GrippingIsAnchoredNext
  <2> QED
    BY <1>1, <2>1, NextGripping, PointerAnchors
<1>2. Inv /\ Restoring /\ Gripping /\ (Inv /\ Restoring /\ Gripping)' /\ [Next]_vars
        => [ /\ DragAnchored /\ screen' = screen => DragAnchored'
             /\ Pointer => DragAnchored' ]_vars
  BY <1>1
<1> QED
  BY <1>2, GrippingHolds, PTL DEF Spec, DragRecovers

\* "Wine windows drag their own title bar; shell surfaces never drag", and drag_grabbed
\* restores a snapped window first (wm.c): as long as it is dragged, a window is one
\* glacier decorates, not snapped, and held within its title bar, whatever requests and
\* mode changes come between.
DraggedByTitleBar ==
  moving => /\ grab.dx >= 0 /\ grab.dy \in 0 .. DECOR_TITLEBAR_H - 1
            /\ Exists(stack, move_id) => Held(window_by_id(stack, move_id))

THEOREM TitleBarsDrag == Spec => []DraggedByTitleBar
<1>1. Inv /\ Restoring /\ Gripping => DraggedByTitleBar
  <2> SUFFICES ASSUME Inv, Gripping, moving
               PROVE  Exists(stack, move_id) => Held(window_by_id(stack, move_id))
    BY DEF DraggedByTitleBar, Gripping
  <2>1. Exists(stack, move_id) => /\ window_by_id(stack, move_id) \in Contents(stack)
                                  /\ window_by_id(stack, move_id).id = move_id
    BY InvSplits, ContentsDecide
  <2> QED
    BY <2>1 DEF Gripping
<1> QED
  BY <1>1, GrippingHolds, PTL

\* With one screen size no mode change gets in between: through focus changes, resizes,
\* restacking and windows that go, what is dragged stays where it was grabbed.
THEOREM DragsStayAnchored == ASSUME Modes = {BootMode} PROVE Spec => []DragAnchored
<1>1. Inv => screen = BootMode
  BY InvSplits DEF WordsOK
<1>2. Inv /\ Restoring /\ Gripping /\ Anchored /\ [Next]_vars /\ Inv' => Anchored'
  <2>1. Inv /\ Inv' => screen' = screen
    BY <1>1, InvSplitsNext DEF WordsOK
  <2> QED
    BY <2>1, NextGripping
<1>3. Init => Anchored
  BY InitGripping
<1>4. Inv /\ Restoring /\ Gripping /\ Anchored => DragAnchored
  BY GrippingIsAnchored
<1> QED
  BY <1>2, <1>3, <1>4, GrippingHolds, PTL DEF Spec

----------------------------------------------------------------------------
(* Snaps and the taskbar.                                                  *)

\* The work area lies beside the one docked taskbar, and is never so narrow that half of
\* it is nothing where that matters.
LEMMA WorkAreaClears ==
  ASSUME WordsOK, Sound(stack), NEW i \in DOMAIN stack.windows,
         {j \in DOMAIN stack.windows : stack.windows[j].role = "TASKBAR"} = {i},
         Docked(stack.windows[i])
  PROVE  LET t == stack.windows[i]
             a == wm_work_area
         IN  /\ a.h > 0
             /\ \/ t.y + t.h <= a.y \/ a.y + a.h <= t.y
                \/ /\ t.x + t.w <= a.x \/ a.x + a.w <= t.x
                   /\ a.w > 1
<1> DEFINE t  == stack.windows[i]
           sw == screen.w
           sh == screen.h
           qw == (sw * 3) \div 4
           qh == (sh * 3) \div 4
           wide   == t.w >= qw
           tall   == ~wide /\ t.h >= qh
           top    == wide /\ t.y <= 0 /\ t.y + t.h > 0
           bottom == wide /\ t.y > 0 /\ t.y < sh
           left   == tall /\ t.x <= 0 /\ t.x + t.w > 0
           right  == tall /\ t.x > 0 /\ t.x < sw
           ax == IF left THEN t.x + t.w ELSE 0
           ay == IF top THEN t.y + t.h ELSE 0
           aw == IF right THEN t.x ELSE sw - ax
           ah == IF bottom THEN t.y ELSE sh - ay
           a  == wm_work_area
<1>1. /\ sw \in Nat /\ sh \in Nat /\ sw > 0 /\ sh > 0
      /\ t.x \in Int /\ t.y \in Int /\ t.w \in Int /\ t.h \in Int
  <2>1. t \in Window
    BY DEF Sound, Stack
  <2> QED
    BY <2>1, ScreenIsSize DEF WordsOK, Window
<1>2. qw < sw /\ qh < sh /\ qw \in Int /\ qh \in Int
  BY <1>1
<1>3. Min({i}) = i
  <2>1. i \in Nat
    BY DEF Sound, Stack
  <2> QED
    BY <2>1, MinOfNats
<1>4. a = [x |-> ax, y |-> ay, w |-> IF aw < 1 THEN sw ELSE aw, h |-> IF ah < 1 THEN sh ELSE ah]
  BY <1>3 DEF wm_work_area
<1>5. \/ /\ t.x = 0 /\ t.w = sw /\ t.h > 0
         /\ t.y = 0 \/ t.y + t.h = sh
         /\ t.h < qh
      \/ /\ t.y = 0 /\ t.h = sh /\ t.w > 0
         /\ t.x = 0 \/ t.x + t.w = sw
         /\ t.w < qw
  BY <1>1 DEF Docked
<1> HIDE DEF t, sw, sh, qw, qh
<1>6. /\ a.x = ax /\ a.y = ay /\ a.w = (IF aw < 1 THEN sw ELSE aw)
      /\ a.h = (IF ah < 1 THEN sh ELSE ah)
  BY <1>4
<1> HIDE DEF a
<1>7. CASE t.x = 0 /\ t.w = sw /\ t.h > 0 /\ t.y = 0 /\ t.h < qh
  BY <1>1, <1>2, <1>6, <1>7 DEF t, a
<1>8. CASE t.x = 0 /\ t.w = sw /\ t.h > 0 /\ t.y + t.h = sh /\ t.h < qh
  BY <1>1, <1>2, <1>6, <1>8 DEF t, a
<1>9. CASE t.y = 0 /\ t.h = sh /\ t.w > 0 /\ t.x = 0 /\ t.w < qw
  BY <1>1, <1>2, <1>6, <1>9 DEF t, a
<1>10. CASE t.y = 0 /\ t.h = sh /\ t.w > 0 /\ t.x + t.w = sw /\ t.w < qw
  BY <1>1, <1>2, <1>6, <1>10 DEF t, a
<1> QED
  BY <1>5, <1>7, <1>8, <1>9, <1>10

\* What the release makes of the window it held does not reach the taskbar.
LEMMA SnapClears ==
  ASSUME WordsOK, Sound(stack), NEW i \in DOMAIN stack.windows,
         {j \in DOMAIN stack.windows : stack.windows[j].role = "TASKBAR"} = {i},
         Docked(stack.windows[i]), NEW v \in Window, v.x = SnapTarget.x, v.y = SnapTarget.y,
         SnapTarget.w > 0 => v.w = SnapTarget.w, SnapTarget.h > 0 => v.h = SnapTarget.h
  PROVE  ~Overlap(RectOf(v), RectOf(stack.windows[i]))
<1> DEFINE t  == stack.windows[i]
           a  == wm_work_area
           half == a.w \div 2
<1>1. /\ a.h > 0
      /\ \/ t.y + t.h <= a.y \/ a.y + a.h <= t.y
         \/ /\ t.x + t.w <= a.x \/ a.x + a.w <= t.x
            /\ a.w > 1
  BY WorkAreaClears
<1>2. /\ a.x \in Int /\ a.y \in Int /\ a.w \in Int /\ a.h \in Int
      /\ t.x \in Int /\ t.y \in Int /\ t.w \in Int /\ t.h \in Int
      /\ v.x \in Int /\ v.y \in Int /\ v.w \in Int /\ v.h \in Int
  <2>1. t \in Window /\ a \in Rect
    BY WorkAreaIsRect DEF Sound, Stack
  <2> QED
    BY <2>1 DEF Rect, Window
<1>3. a.w > 1 => half \in Int /\ half > 0 /\ half <= a.w
  BY <1>2
<1>4. /\ SnapTarget.x \in {a.x, a.x + a.w - half} /\ SnapTarget.y = a.y
      /\ SnapTarget.w \in {a.w, half} /\ SnapTarget.h = a.h
      /\ SnapTarget.w = a.w => SnapTarget.x = a.x \/ half = a.w
  BY DEF SnapTarget
<1> HIDE DEF t, a, half
<1>5. CASE t.y + t.h <= a.y \/ a.y + a.h <= t.y
  <2>1. v.y = a.y /\ v.h = a.h
    BY <1>1, <1>4
  <2> QED
    BY <1>2, <1>5, <2>1 DEF Overlap, RectOf, t
<1>6. CASE (t.x + t.w <= a.x \/ a.x + a.w <= t.x) /\ a.w > 1
  <2>1. v.x \in {a.x, a.x + a.w - half} /\ v.w \in {a.w, half}
        /\ (v.w = a.w => v.x = a.x \/ half = a.w)
    BY <1>2, <1>3, <1>4, <1>6
  <2>2. a.x <= v.x /\ v.x + v.w <= a.x + a.w
    BY <1>2, <1>3, <1>6, <2>1
  <2> QED
    BY <1>2, <1>6, <2>2 DEF Overlap, RectOf, t
<1> QED
  BY <1>1, <1>5, <1>6

\* wm_work_area "so a maximized window doesn't bury the taskbar": a release that snaps
\* a window to any edge leaves the one docked taskbar clear, on every screen.
THEOREM SnapsClearTaskbar == Spec => SnapClearsTaskbar
<1>1. ASSUME Inv, [Next]_vars, moving, ~moving', stack' # stack,
             NEW i \in DOMAIN stack.windows,
             {j \in DOMAIN stack.windows : stack.windows[j].role = "TASKBAR"} = {i},
             Docked(stack.windows[i])
      PROVE  ~Overlap(RectOf(window_by_id(stack', move_id)), RectOf(stack.windows[i]))
  <2>1. ReleaseLeft
    <3>1. ~UNCHANGED moving
      BY <1>1
    <3>2. ~Pointer
      BY <3>1 DEF Pointer, wm_pointer_motion, wm_pointer_motion_abs, MoveCursor, drag
    <3>3. ~PressLeft
      BY <1>1, <3>1 DEF PressLeft, drag, StartDrag
    <3>4. ~wm_key /\ ~NotifyReconfigured /\ ~UNCHANGED vars
      BY <3>1 DEF wm_key, NotifyReconfigured, drag, vars
    <3>5. ~Requests
      BY <3>1 DEF Requests, CreateClientWindow, SetClientGeometry, MapToplevel, ResizeToplevel,
         DestroyWindow, SetMode, drag
    <3> QED
      BY <1>1, <3>2, <3>3, <3>4, <3>5 DEF Next
  <2>2. PICK w \in Contents(stack), v \in Window :
          /\ w.id = move_id /\ v.id = w.id
          /\ v.x = SnapTarget.x /\ v.y = SnapTarget.y
          /\ v.w = IF SnapTarget.w > 0 THEN SnapTarget.w ELSE w.w
          /\ v.h = IF SnapTarget.h > 0 THEN SnapTarget.h ELSE w.h
          /\ Swapped(stack, stack', w, v)
    BY <1>1, <2>1, ReleaseLeftContents
  <2>3. WordsOK /\ Sound(stack) /\ Sound(stack')
    BY <1>1, InvSplits, NextKeeps, InvSplitsNext
  <2>4. window_by_id(stack', move_id) = v
    <3>1. v \in Contents(stack')
      BY <2>2 DEF Swapped
    <3> QED
      BY <2>2, <2>3, <3>1, ContentsDecide
  <2> QED
    BY <1>1, <2>2, <2>3, <2>4, SnapClears
<1>2. ASSUME Inv, [Next]_vars, ~UNCHANGED vars
      PROVE  moving /\ ~moving' /\ stack' # stack =>
               LET w    == window_by_id(stack', move_id)
                   bars == {i \in DOMAIN stack.windows : stack.windows[i].role = "TASKBAR"}
               IN  \A i \in bars : bars = {i} /\ Docked(stack.windows[i]) =>
                     ~Overlap(RectOf(w), RectOf(stack.windows[i]))
  BY <1>1, <1>2
<1>3. Spec => []Inv
  BY InitKeeps, NextKeeps, PTL DEF Spec
<1> QED
  BY <1>2, <1>3, PTL DEF Spec, SnapClearsTaskbar


----------------------------------------------------------------------------
(* The z-order of the windows a step does not move.                        *)

\* The bound on creations bounds the ids.
Issued == stack.next_id <= MaxWindowId + 1

\* Only the two creations issue an id.
LEMMA NextIssued == Inv /\ Issued /\ [Next]_vars => Issued'
<1> SUFFICES ASSUME Inv, Issued, [Next]_vars
             PROVE  Issued'
  OBVIOUS
<1>1. stack.next_id \in Nat /\ MaxWindowId \in Nat
  BY InvSplits, RequestsAssumption DEF Sound, Stack
<1>2. CASE stack'.next_id = stack.next_id
  BY <1>2 DEF Issued
<1>3. CASE stack'.next_id = stack.next_id + 1 /\ stack.next_id <= MaxWindowId
  BY <1>1, <1>3 DEF Issued
<1>4. Pointer => stack'.next_id = stack.next_id
  BY PointerIsMotion, MoveCursorContents
<1>5. \A role \in ClientRoles, r \in ClientRects :
        CreateClientWindow(role, r) =>
          stack'.next_id = stack.next_id + 1 /\ stack.next_id <= MaxWindowId
  BY CreateClientWindowContents DEF CreateClientWindow
<1>6. \A sz \in ContentSizes :
        MapToplevel(sz) =>
          stack'.next_id = stack.next_id + 1 /\ stack.next_id <= MaxWindowId
  BY MapToplevelContents DEF MapToplevel
<1> QED
  BY <1>2, <1>3, <1>4, <1>5, <1>6, PressLeftContents, ReleaseLeftContents, OtherContents,
     SetClientGeometryContents, ResizeToplevelContents, SetModeContents DEF Next, Requests

\* A focused window moves, the others do not.
LEMMA FocusedKeepsOrder ==
  ASSUME NEW s, Sound(s), NEW id, NEW t, Sound(t), SameShape(window_focus(s, id), t)
  PROVE  KeepsOrder(s, t, id)
<1>1. Sound(window_focus(s, id)) /\ SameIds(s, window_focus(s, id))
  BY FocusSound
<1>2. KeepsOrder(s, window_focus(s, id), id) /\ KeepsOrder(window_focus(s, id), t, id)
  BY <1>1, FocusKeepsOrder, ShapeKeepsOrder
<1> QED
  BY <1>1, <1>2, KeepsOrderTwice DEF SameIds

\* A new client window is put on top and moved, the others are not.
LEMMA CreateClientWindowKeepsOrder ==
  ASSUME Inv, NEW role \in ClientRoles, NEW rc \in ClientRects, CreateClientWindow(role, rc)
  PROVE  KeepsOrder(stack, stack', stack.next_id)
<1> DEFINE id == stack.next_id
           r  == [rc EXCEPT !.w = IF @ = 0 THEN DefaultSize.w ELSE @,
                            !.h = IF @ = 0 THEN DefaultSize.h ELSE @]
           s1 == window_create(stack, role, r)
           t  == ClientWindow(stack, role, r)
           full == [x |-> 0, y |-> 0, w |-> screen.w, h |-> screen.h]
           g  == window_set_geometry(t, id, full)
<1>1. WordsOK /\ Sound(stack) /\ Sound(stack')
  BY InvSplits, CreateClientWindowKeeps, InvSplitsNext
<1>2. role \in Role /\ rc \in Rect /\ DefaultSize.w \in Int /\ DefaultSize.h \in Int
  BY RequestsAssumption DEF Size
<1>3. r \in Rect
  BY <1>2 DEF Rect
<1>4. ~IsFull(stack)
  BY DEF CreateClientWindow
<1>5. stack' = CASE role = "NORMAL"  -> window_focus(t, id)
                 [] role = "DESKTOP" -> window_lower(g, id)
                 [] OTHER -> t
  BY DEF CreateClientWindow, ClientWindow
<1> HIDE DEF r
<1>6. full \in Rect
  BY <1>1, ScreenIsSize DEF WordsOK, Rect
<1> HIDE DEF full
<1>7. /\ Sound(t) /\ SameShape(s1, t) /\ Sound(s1)
      /\ \A c \in Nat : Exists(stack, c) => Exists(s1, c)
      /\ \A c \in Nat : Exists(stack, c) => Exists(t, c)
  <2>1. Sound(t) /\ SameShape(s1, t) /\ Sound(s1)
    BY <1>1, <1>2, <1>3, <1>4, ClientWindowCreates, CreateSound
  <2>2. s1.windows = Append(stack.windows, NewWindow(id, role, r))
    BY <1>1, <1>2, <1>3, <1>4, CreateSound
  <2>3. stack.windows \in Seq(Window)
    BY <1>1 DEF Sound, Stack
  <2> HIDE DEF s1, t
  <2>4. \A c \in Nat : Exists(stack, c) => Exists(s1, c)
    BY <2>2, <2>3 DEF Exists
  <2>5. \A c \in Nat : Exists(s1, c) => Exists(t, c)
    BY <2>1 DEF SameShape, Exists, Sound, Stack
  <2> QED
    BY <2>1, <2>4, <2>5
<1>8. KeepsOrder(stack, s1, id)
  BY <1>1, <1>2, <1>3, <1>4, CreateKeepsOrder
<1> HIDE DEF s1, t
<1>9. KeepsOrder(s1, t, id)
  BY <1>7, ShapeKeepsOrder
<1>10. KeepsOrder(stack, t, id)
  BY <1>7, <1>8, <1>9, KeepsOrderTwice
<1>11. KeepsOrder(t, window_focus(t, id), id)
  BY <1>7, FocusKeepsOrder
<1>12. KeepsOrder(t, window_lower(g, id), id)
  <2>1. Sound(g) /\ SameIds(t, g) /\ SameShape(t, g)
    BY <1>6, <1>7, SetGeometrySound, SetGeometryShape
  <2> HIDE DEF g
  <2>2. KeepsOrder(t, g, id) /\ KeepsOrder(g, window_lower(g, id), id)
    BY <1>7, <2>1, ShapeKeepsOrder, LowerKeepsOrder
  <2> QED
    BY <2>1, <2>2, KeepsOrderTwice DEF SameIds
<1>13. KeepsOrder(t, stack', id) \/ stack' = t
  BY <1>5, <1>11, <1>12
<1> QED
  BY <1>7, <1>10, <1>13, KeepsOrderTwice

\* So is a new toplevel.
LEMMA MapToplevelKeepsOrder ==
  ASSUME Inv, NEW sz \in ContentSizes, MapToplevel(sz)
  PROVE  KeepsOrder(stack, stack', stack.next_id)
<1> DEFINE id == stack.next_id
           r  == [x |-> Cascade.x, y |-> Cascade.y, w |-> sz.w, h |-> sz.h + DECOR_TITLEBAR_H]
           s1 == window_create(stack, "NORMAL", r)
<1>1. Sound(stack) /\ ~IsFull(stack)
  BY InvSplits DEF MapToplevel
<1>2. r \in Rect /\ "NORMAL" \in Role
  BY RequestsAssumption, TitlebarAssumption DEF Rect, Size, Role
<1>3. stack' = window_focus(s1, id)
  BY DEF MapToplevel
<1> HIDE DEF r
<1>4. Sound(s1) /\ s1.windows = Append(stack.windows, NewWindow(id, "NORMAL", r))
  BY <1>1, <1>2, CreateSound
<1>5. KeepsOrder(stack, s1, id)
  BY <1>1, <1>2, CreateKeepsOrder
<1> HIDE DEF s1
<1>6. \A c \in Nat : Exists(stack, c) => Exists(s1, c)
  <2>1. stack.windows \in Seq(Window)
    BY <1>1 DEF Sound, Stack
  <2> QED
    BY <1>4, <2>1 DEF Exists
<1>7. KeepsOrder(s1, stack', id)
  BY <1>3, <1>4, FocusKeepsOrder
<1> QED
  BY <1>5, <1>6, <1>7, KeepsOrderTwice

\* Every step moves one window at most.
LEMMA NextKeepsOrder ==
  ASSUME Inv, Issued, [Next]_vars
  PROVE  \E moved \in 0 .. MaxWindowId : KeepsOrder(stack, stack', moved)
<1>1. Sound(stack) /\ Sound(stack') /\ stack.next_id \in Nat \ {0} /\ MaxWindowId \in Nat
  BY NextKeeps, InvSplits, InvSplitsNext, RequestsAssumption DEF Sound, Stack
<1>2. CASE SameShape(stack, stack')
  BY <1>1, <1>2, ShapeKeepsOrder
<1>3. ASSUME NEW id, Exists(stack, id), SameShape(window_focus(stack, id), stack')
      PROVE  KeepsOrder(stack, stack', id) /\ id \in 0 .. MaxWindowId
  <2>1. id \in Nat /\ id < stack.next_id
    BY <1>1, <1>3, WindowIndexFinds DEF Sound, UniqueIds, Exists
  <2> QED
    BY <1>1, <1>3, <2>1, FocusedKeepsOrder DEF Issued
<1>4. ASSUME NEW id, DestroyWindow(id)
      PROVE  KeepsOrder(stack, stack', 0)
  BY <1>1, <1>4, DestroyKeepsOrder DEF DestroyWindow
<1>5. ASSUME NEW role \in ClientRoles, NEW r \in ClientRects, CreateClientWindow(role, r)
      PROVE  KeepsOrder(stack, stack', stack.next_id) /\ stack.next_id \in 0 .. MaxWindowId
  <2>1. KeepsOrder(stack, stack', stack.next_id)
    BY <1>5, CreateClientWindowKeepsOrder
  <2>2. stack.next_id <= MaxWindowId
    BY <1>5 DEF CreateClientWindow
  <2> QED
    BY <1>1, <2>1, <2>2
<1>6. ASSUME NEW sz \in ContentSizes, MapToplevel(sz)
      PROVE  KeepsOrder(stack, stack', stack.next_id) /\ stack.next_id \in 0 .. MaxWindowId
  BY <1>1, <1>6, MapToplevelKeepsOrder DEF MapToplevel
<1>7. 0 \in 0 .. MaxWindowId
  BY <1>1
<1>8. CASE \/ \E id : DestroyWindow(id)
           \/ \E role \in ClientRoles, r \in ClientRects : CreateClientWindow(role, r)
           \/ \E sz \in ContentSizes : MapToplevel(sz)
  BY <1>4, <1>5, <1>6, <1>7, <1>8
<1>9. CASE ~(\/ \E id : DestroyWindow(id)
             \/ \E role \in ClientRoles, r \in ClientRects : CreateClientWindow(role, r)
             \/ \E sz \in ContentSizes : MapToplevel(sz))
  <2>1. \/ Pointer \/ PressLeft \/ ReleaseLeft \/ wm_key \/ NotifyReconfigured
        \/ \E id : \/ \E r \in ClientRects : SetClientGeometry(id, r)
                   \/ \E sz \in ContentSizes : ResizeToplevel(id, sz)
        \/ \E m \in Modes : SetMode(m)
        \/ UNCHANGED vars
    BY <1>9 DEF Next, Requests
  <2> QED
    BY <1>2, <1>3, <2>1, StepShape
<1> QED
  BY <1>8, <1>9

\* window.c move_to_top, "preserving the others' order", its mirror move_to_bottom and the
\* memmove of window_destroy: whatever step is taken, of any actor, the windows it does not raise,
\* sink or create stay in the order they were in.
THEOREM OrderIsStable == Spec => StableOrder
<1>1. Init => Inv /\ Issued
  BY InitKeeps, RequestsAssumption DEF Init, window_stack_init, Issued
<1>2. Spec => [](Inv /\ Issued)
  BY <1>1, NextKeeps, NextIssued, PTL DEF Spec
<1>3. ASSUME Inv, Issued, [Next]_vars
      PROVE  [stack'.windows # stack.windows =>
                \E moved \in 0..MaxWindowId : \A a, b \in (1..MaxWindowId) \ {moved} :
                  /\ Exists(stack, a) /\ Exists(stack, b)
                  /\ Exists(stack', a) /\ Exists(stack', b)
                  => (Below(stack, a, b) <=> Below(stack', a, b))]_vars
  <2>1. PICK moved \in 0 .. MaxWindowId : KeepsOrder(stack, stack', moved)
    BY <1>3, NextKeepsOrder
  <2>2. (1 .. MaxWindowId) \ {moved} \subseteq Nat \ {moved}
    BY RequestsAssumption
  <2> QED
    BY <2>1, <2>2 DEF KeepsOrder, Below
<1> QED
  BY <1>2, <1>3, PTL DEF Spec, StableOrder

----------------------------------------------------------------------------
(* Alt-Tab again and again.                                                *)

\* Induction over the elements of a set.
LEMMA SetInduction ==
  ASSUME NEW T, T \subseteq Nat, 0 \in T, \A k \in T : k + 1 \in T
  PROVE  T = Nat
<1> SUFFICES ASSUME Nat \ T # {} PROVE FALSE
  OBVIOUS
<1> DEFINE m == Min(Nat \ T)
<1>1. m \in Nat \ T /\ \A y \in Nat \ T : m <= y
  BY MinOfNats
<1> HIDE DEF m
<1>2. m - 1 \in Nat /\ m - 1 \notin Nat \ T
  BY <1>1
<1> QED
  BY <1>1, <1>2

\* The stacks after 0, 1, ..., n presses of Alt-Tab.
Presses(s, n, f) ==
  f = [k \in 0 .. n |-> IF k = 0 THEN s ELSE window_focus_cycle(f[k - 1], 1)]

LEMMA PressesExist ==
  ASSUME NEW s, NEW n \in Nat
  PROVE  \E f : Presses(s, n, f)
<1> DEFINE T == {m \in Nat : \E f : Presses(s, m, f)}
<1>1. 0 \in T
  <2> DEFINE f == [k \in 0 .. 0 |-> s]
  <2>1. Presses(s, 0, f)
    BY DEF Presses
  <2> HIDE DEF f
  <2> QED
    BY <2>1
<1>2. ASSUME NEW m \in T PROVE m + 1 \in T
  <2>1. PICK f : Presses(s, m, f)
    OBVIOUS
  <2> DEFINE g == [k \in 0 .. m + 1 |-> IF k = m + 1 THEN window_focus_cycle(f[m], 1) ELSE f[k]]
             h == [k \in 0 .. m + 1 |-> IF k = 0 THEN s ELSE window_focus_cycle(g[k - 1], 1)]
  <2>2. ASSUME NEW k \in 0 .. m + 1
        PROVE  g[k] = IF k = 0 THEN s ELSE window_focus_cycle(g[k - 1], 1)
    <3>1. CASE k = m + 1
      <4>1. m \in 0 .. m + 1 /\ m # m + 1 /\ k - 1 = m /\ k # 0
        BY <3>1
      <4>2. g[k] = window_focus_cycle(f[m], 1) /\ g[m] = f[m]
        BY <3>1, <4>1
      <4> QED
        BY <4>1, <4>2
    <3>2. CASE k \in 0 .. m
      <4>1. g[k] = f[k] /\ k # m + 1
        BY <3>2
      <4>2. f[k] = IF k = 0 THEN s ELSE window_focus_cycle(f[k - 1], 1)
        BY <2>1, <3>2 DEF Presses
      <4>3. k # 0 => g[k - 1] = f[k - 1]
        <5>1. k # 0 => k - 1 \in 0 .. m + 1 /\ k - 1 # m + 1
          BY <3>2
        <5> QED
          BY <5>1
      <4> HIDE DEF g
      <4> QED
        BY <4>1, <4>2, <4>3
    <3> QED
      BY <3>1, <3>2
  <2>3. g = h
    <3>1. \A k \in 0 .. m + 1 : h[k] = IF k = 0 THEN s ELSE window_focus_cycle(g[k - 1], 1)
      OBVIOUS
    <3>2. g = [k \in 0 .. m + 1 |-> g[k]] /\ h = [k \in 0 .. m + 1 |-> h[k]]
      OBVIOUS
    <3> HIDE DEF g, h
    <3> QED
      BY <2>2, <3>1, <3>2
  <2>4. Presses(s, m + 1, g)
    BY <2>3 DEF Presses
  <2> HIDE DEF g
  <2> QED
    BY <2>4
<1> HIDE DEF T
<1>3. T \subseteq Nat
  BY DEF T
<1>4. T = Nat
  BY <1>1, <1>2, <1>3, SetInduction
<1> QED
  BY <1>4 DEF T

\* Those focused by the first k presses.
Reached(f, k) == {f[j].focus_id : j \in 1 .. k}

\* After k presses they are k applications, above the others, the last one on top.
Rotated(s, f, k) ==
  /\ Sound(f[k]) /\ Apps(f[k]) = Apps(s)
  /\ Exists(f[k], f[k].focus_id)
  /\ window_index(f[k], f[k].focus_id) = Len(f[k].windows)
  /\ Reached(f, k) \subseteq Apps(s)
  /\ IsFiniteSet(Reached(f, k)) /\ Cardinality(Reached(f, k)) = k
  /\ \A a \in Apps(s) \ Reached(f, k), b \in Reached(f, k) :
       window_index(f[k], a) < window_index(f[k], b)

\* The first press.
LEMMA FirstPress ==
  ASSUME NEW s, Sound(s), Apps(s) # {}, NEW f, f[1] = window_focus_cycle(s, 1)
  PROVE  Rotated(s, f, 1)
<1>1. PICK id \in Apps(s) : f[1] = window_focus(s, id)
  BY CycleForward
<1>2. /\ Sound(f[1]) /\ Apps(f[1]) = Apps(s) /\ f[1].focus_id = id
      /\ Exists(f[1], id) /\ window_index(f[1], id) = Len(f[1].windows)
      /\ \A a \in Apps(s) \ {id} : window_index(f[1], a) < window_index(f[1], id)
  BY <1>1, FocusTops
<1>3. Reached(f, 1) = {id}
  <2>1. 1 .. 1 = {1}
    OBVIOUS
  <2> QED
    BY <1>2, <2>1 DEF Reached
<1>4. IsFiniteSet({id}) /\ Cardinality({id}) = 1
  BY FS_Singleton
<1> QED
  BY <1>1, <1>2, <1>3, <1>4 DEF Rotated

\* Every other one focuses an application that was not reached before.
LEMMA NextPress ==
  ASSUME NEW s, NEW f, NEW k \in Nat \ {0}, Rotated(s, f, k),
         f[k + 1] = window_focus_cycle(f[k], 1), Reached(f, k) # Apps(s)
  PROVE  Rotated(s, f, k + 1)
<1> DEFINE t == f[k]
           u == f[k + 1]
<1>1. /\ Sound(t) /\ Apps(t) = Apps(s)
      /\ Exists(t, t.focus_id) /\ window_index(t, t.focus_id) = Len(t.windows)
      /\ Reached(f, k) \subseteq Apps(s)
      /\ IsFiniteSet(Reached(f, k)) /\ Cardinality(Reached(f, k)) = k
      /\ \A a \in Apps(s) \ Reached(f, k), b \in Reached(f, k) :
           window_index(t, a) < window_index(t, b)
      /\ u = window_focus_cycle(t, 1)
  BY DEF Rotated
<1>2. PICK a0 \in Apps(s) : a0 \notin Reached(f, k)
  BY <1>1
<1> HIDE DEF t, u
<1>3. PICK id \in Apps(s) :
        u = window_focus(t, id) /\ \A a \in Apps(s) : window_index(t, id) <= window_index(t, a)
  BY <1>1, <1>2, CycleForward
<1>4. /\ Sound(u) /\ Apps(u) = Apps(s) /\ u.focus_id = id
      /\ Exists(u, id) /\ window_index(u, id) = Len(u.windows)
      /\ \A a \in Apps(s) \ {id} : window_index(u, a) < window_index(u, id)
      /\ KeepsOrder(t, u, id)
  BY <1>1, <1>3, FocusTops
<1>5. id \notin Reached(f, k)
  <2>1. window_index(t, a0) \in Int /\ window_index(t, id) \in Int
    BY <1>1, <1>2, <1>3, AppsAreWindows
  <2> QED
    BY <1>1, <1>2, <1>3, <2>1
<1>6. Reached(f, k + 1) = Reached(f, k) \cup {id}
  <2>1. 1 .. k + 1 = 1 .. k \cup {k + 1}
    OBVIOUS
  <2>2. f[k + 1].focus_id = id
    BY <1>4 DEF u
  <2> QED
    BY <2>1, <2>2 DEF Reached
<1>7. /\ IsFiniteSet(Reached(f, k + 1)) /\ Cardinality(Reached(f, k + 1)) = k + 1
      /\ Reached(f, k + 1) \subseteq Apps(s)
  BY <1>1, <1>3, <1>5, <1>6, FS_AddElement
<1>8. ASSUME NEW a \in Apps(s) \ Reached(f, k + 1), NEW b \in Reached(f, k + 1)
      PROVE  window_index(u, a) < window_index(u, b)
  <2>1. CASE b = id
    BY <1>4, <1>6, <1>8, <2>1
  <2>2. CASE b # id
    <3>1. a # id /\ a \in Apps(s) \ Reached(f, k) /\ b \in Reached(f, k)
      BY <1>6, <1>8, <2>2
    <3>2. /\ a \in Nat \ {id} /\ b \in Nat \ {id}
          /\ Exists(t, a) /\ Exists(t, b) /\ Exists(u, a) /\ Exists(u, b)
      BY <1>1, <1>4, <2>2, <3>1, AppsAreWindows
    <3>3. window_index(t, a) < window_index(t, b)
      BY <1>1, <3>1
    <3> QED
      BY <1>4, <3>2, <3>3 DEF KeepsOrder
  <2> QED
    BY <2>1, <2>2
<1> QED
  BY <1>4, <1>7, <1>8 DEF Rotated, u

LEMMA PressesReach ==
  ASSUME NEW s, Sound(s), IsFiniteSet(Apps(s)),
         NEW n \in Nat, n = Cardinality(Apps(s)), NEW f, Presses(s, n, f)
  PROVE  \A a \in Apps(s) : \E k \in 1 .. n : f[k].focus_id = a
<1> SUFFICES ASSUME NEW a \in Apps(s)
             PROVE  \E k \in 1 .. n : f[k].focus_id = a
  OBVIOUS
<1>1. n \in Nat \ {0}
  BY FS_EmptySet
<1>2. f[0] = s /\ \A k \in 1 .. n : f[k] = window_focus_cycle(f[k - 1], 1)
  <2>1. \A k \in 0 .. n : f[k] = IF k = 0 THEN s ELSE window_focus_cycle(f[k - 1], 1)
    BY DEF Presses
  <2> QED
    BY <2>1
<1> DEFINE T == {k \in Nat : k + 1 <= n => Rotated(s, f, k + 1)}
<1>3. 0 \in T
  <2>1. f[1] = window_focus_cycle(s, 1)
    <3>1. 1 \in 1 .. n /\ 1 - 1 = 0
      BY <1>1
    <3> QED
      BY <1>2, <3>1
  <2>2. Rotated(s, f, 0 + 1)
    BY <2>1, FirstPress
  <2> QED
    BY <2>2
<1>4. ASSUME NEW k \in T PROVE k + 1 \in T
  <2> SUFFICES ASSUME (k + 1) + 1 <= n PROVE Rotated(s, f, (k + 1) + 1)
    OBVIOUS
  <2>1. k \in Nat /\ k + 1 \in Nat \ {0} /\ k + 1 <= n /\ k + 1 < n
    OBVIOUS
  <2>2. Rotated(s, f, k + 1)
    BY <2>1
  <2>3. f[(k + 1) + 1] = window_focus_cycle(f[k + 1], 1)
    <3>1. (k + 1) + 1 \in 1 .. n /\ ((k + 1) + 1) - 1 = k + 1
      BY <2>1
    <3> QED
      BY <1>2, <3>1
  <2>4. Reached(f, k + 1) # Apps(s)
    BY <2>1, <2>2 DEF Rotated
  <2> QED
    BY <2>1, <2>2, <2>3, <2>4, NextPress
<1> HIDE DEF T
<1>5. T = Nat
  <2>1. T \subseteq Nat
    BY DEF T
  <2> QED
    BY <1>3, <1>4, <2>1, SetInduction
<1>6. Rotated(s, f, n)
  <2>1. n - 1 \in Nat /\ (n - 1) + 1 = n
    BY <1>1
  <2>2. (n - 1) + 1 <= n => Rotated(s, f, (n - 1) + 1)
    BY <1>5, <2>1 DEF T
  <2> QED
    BY <2>1, <2>2
<1>7. Reached(f, n) = Apps(s)
  BY <1>6, FS_Subset DEF Rotated
<1> QED
  BY <1>7 DEF Reached

\* There are as many applications as positions of applications.
LEMMA AppsCounted ==
  ASSUME NEW s, Sound(s)
  PROVE  LET apps == {i \in DOMAIN s.windows : s.windows[i].role = "NORMAL"}
         IN  /\ IsFiniteSet(Apps(s)) /\ Cardinality(apps) = Cardinality(Apps(s))
             /\ Cardinality(apps) \in Nat
             /\ \A i \in apps : s.windows[i].id \in Apps(s)
<1> DEFINE n    == Len(s.windows)
           apps == {i \in DOMAIN s.windows : s.windows[i].role = "NORMAL"}
           g    == [i \in apps |-> s.windows[i].id]
<1>1. n \in Nat /\ DOMAIN s.windows = 1 .. n
  BY DEF Sound, Stack
<1>2. \A i \in apps : s.windows[i].id \in Apps(s)
  BY <1>1 DEF Apps, Contents
<1>3. IsFiniteSet(apps) /\ Cardinality(apps) \in Nat
  <2>1. IsFiniteSet(1 .. n) /\ apps \subseteq 1 .. n
    BY <1>1, FS_Interval
  <2> HIDE DEF apps, n
  <2> QED
    BY <2>1, FS_Subset, FS_CardinalityType
<1>4. g \in Surjection(apps, Apps(s))
  <2>1. \A a \in Apps(s) : \E i \in apps : g[i] = a
    <3> SUFFICES ASSUME NEW a \in Apps(s) PROVE \E i \in apps : g[i] = a
      OBVIOUS
    <3>1. window_index(s, a) \in apps /\ s.windows[window_index(s, a)].id = a
      BY <1>1, AppsAreWindows
    <3> HIDE DEF apps
    <3> QED
      BY <3>1
  <2> HIDE DEF apps
  <2>2. g \in [apps -> Apps(s)]
    BY <1>2
  <2> HIDE DEF g
  <2> QED
    BY <2>1, <2>2 DEF Surjection
<1>5. g \in Injection(apps, Apps(s))
  <2>1. \A i, j \in apps : s.windows[i].id = s.windows[j].id => i = j
    BY DEF Sound, UniqueIds
  <2> HIDE DEF apps
  <2>2. g \in [apps -> Apps(s)] /\ \A i, j \in apps : g[i] = g[j] => i = j
    BY <1>2, <2>1
  <2> HIDE DEF g
  <2> QED
    BY <2>2 DEF Injection, IsInjective
<1> HIDE DEF g, apps
<1>6. IsFiniteSet(Apps(s)) /\ Cardinality(apps) = Cardinality(Apps(s))
  BY <1>3, <1>4, <1>5, FS_Surjection
<1> QED
  BY <1>2, <1>3, <1>6 DEF apps

\* From every state the system reaches, pressing Alt-Tab as often as there are applications
\* gives each of them the focus, wherever the focus was.
THEOREM AltTabAlwaysReachesAll == Spec => []AltTabReachesAll
<1>1. Sound(stack) => AltTabReachesAll
  <2> SUFFICES ASSUME Sound(stack) PROVE AltTabReachesAll
    OBVIOUS
  <2> DEFINE apps  == {i \in DOMAIN stack.windows : stack.windows[i].role = "NORMAL"}
             n     == Cardinality(apps)
             after == CHOOSE f : Presses(stack, n, f)
  <2>1. /\ IsFiniteSet(Apps(stack)) /\ n = Cardinality(Apps(stack)) /\ n \in Nat
        /\ \A i \in apps : stack.windows[i].id \in Apps(stack)
    BY AppsCounted
  <2> HIDE DEF apps, n
  <2>2. Presses(stack, n, after)
    BY <2>1, PressesExist
  <2> HIDE DEF after
  <2>3. \A i \in apps : \E k \in 1 .. n : after[k].focus_id = stack.windows[i].id
    BY <2>1, <2>2, PressesReach
  <2> QED
    BY <2>3 DEF AltTabReachesAll, after, apps, n, Presses
<1>2. Inv => Sound(stack)
  BY InvSplits
<1> QED
  BY <1>1, <1>2, InitKeeps, NextKeeps, PTL DEF Spec


----------------------------------------------------------------------------
(* Ids of windows that went are not given to others.                       *)

\* window.h "monotonic id allocator": an id that a client, the drag in progress or the loop
\* kept means the window it was given for, or none, through everything that may close
\* windows and open others.
IdsNeverReused ==
  [][ /\ stack.next_id <= stack'.next_id
      /\ \A v \in Contents(stack') :
           v.id >= stack.next_id \/ \E w \in Contents(stack) : w.id = v.id ]_vars

THEOREM IdsAreFresh == Spec => IdsNeverReused
<1> DEFINE Fresh == /\ stack.next_id <= stack'.next_id
                    /\ \A v \in Contents(stack') :
                         v.id >= stack.next_id \/ \E w \in Contents(stack) : w.id = v.id
<1>1. ASSUME Inv, [Next]_vars
      PROVE  Fresh
  <2>1. Sound(stack) /\ stack.next_id \in Nat
    BY <1>1, InvSplits DEF Sound, Stack
  <2>2. ASSUME stack'.next_id = stack.next_id, NEW w \in Contents(stack), NEW v, v.id = w.id,
               Swapped(stack, stack', w, v)
        PROVE  Fresh
    BY <2>1, <2>2 DEF Swapped
  <2>3. ASSUME stack'.next_id = stack.next_id, Contents(stack') \subseteq Contents(stack)
        PROVE  Fresh
    BY <2>1, <2>3
  <2>4. ASSUME NEW v, v.id = stack.next_id, stack'.next_id = stack.next_id + 1,
               Contents(stack') = Contents(stack) \cup {v}
        PROVE  Fresh
    BY <2>1, <2>4
  <2>5. CASE Pointer
    <3>1. PICK nx \in Int, ny \in Int : MoveCursor(nx, ny)
      BY <1>1, <2>5, PointerIsMotion
    <3> QED
      BY <1>1, <2>2, <2>3, <3>1, MoveCursorContents DEF SameButRect
  <2>6. CASE PressLeft
    <3>1. ASSUME NEW w \in Contents(stack), NEW v \in Window,
                 SameButRect([w EXCEPT !.snapped = FALSE], v)
          PROVE  v.id = w.id
      BY <2>1, <3>1, ContentsDecide DEF SameButRect, Window
    <3> QED
      BY <1>1, <2>2, <2>3, <2>6, <3>1, PressLeftContents
  <2>7. CASE ReleaseLeft
    BY <1>1, <2>2, <2>3, <2>7, ReleaseLeftContents
  <2>8. CASE wm_key \/ NotifyReconfigured \/ (\E id : DestroyWindow(id)) \/ UNCHANGED vars
    BY <1>1, <2>3, <2>8, OtherContents
  <2>9. ASSUME NEW role \in ClientRoles, NEW r \in ClientRects, CreateClientWindow(role, r)
        PROVE  Fresh
    BY <1>1, <2>4, <2>9, CreateClientWindowContents
  <2>10. ASSUME NEW sz \in ContentSizes, MapToplevel(sz)
         PROVE  Fresh
    BY <1>1, <2>4, <2>10, MapToplevelContents
  <2>11. ASSUME NEW id, NEW r \in ClientRects, SetClientGeometry(id, r)
         PROVE  Fresh
    BY <1>1, <2>2, <2>3, <2>11, SetClientGeometryContents DEF SameButRect
  <2>12. ASSUME NEW id, NEW sz \in ContentSizes, ResizeToplevel(id, sz)
         PROVE  Fresh
    BY <1>1, <2>2, <2>3, <2>12, ResizeToplevelContents DEF SameButRect
  <2>13. ASSUME NEW m \in Modes, SetMode(m)
         PROVE  Fresh
    BY <1>1, <2>1, <2>13, SetModeContents DEF SameButRect
  <2> QED
    BY <1>1, <2>5, <2>6, <2>7, <2>8, <2>9, <2>10, <2>11, <2>12, <2>13 DEF Next, Requests
<1>2. Spec => []Inv
  BY InitKeeps, NextKeeps, PTL DEF Spec
<1> QED
  BY <1>1, <1>2, PTL DEF Spec, IdsNeverReused
=============================================================================
