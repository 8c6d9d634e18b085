----------------------------- MODULE ServerProofs -----------------------------
(***************************************************************************)
(* Theorems about the loop of server.c with both transports, for every     *)
(* screen, capacity and set of requests.                                   *)
(***************************************************************************)
EXTENDS Server, WindowManagerProofs

----------------------------------------------------------------------------
(* The loop with both transports drives the window manager as              *)
(* WindowManager's specification allows, so what is proved of that holds   *)
(* of the server.                                                          *)

LEMMA InputSteps == ASSUME Input PROVE [Next]_vars
<1>1. CASE OnMotion
  BY <1>1 DEF OnMotion, Next
<1>2. ASSUME NEW left \in BOOLEAN, NEW pressed \in BOOLEAN, OnButton(left, pressed)
      PROVE  [Next]_vars
  BY <1>2 DEF OnButton, wm_pointer_button, Next
<1>3. CASE OnAltTab
  BY <1>3 DEF OnAltTab, Next
<1> QED  BY <1>1, <1>2, <1>3 DEF Input

LEMMA ClientSteps == ASSUME Clients PROVE [Next]_vars
<1>1. ASSUME NEW c \in LatticeClients,
             \/ \E role \in ClientRoles, r \in ClientRects : on_create_window(c, role, r)
             \/ client_drop(c) \/ client_reclaim(c) \/ orphan_destroy(c)
      PROVE  [Next]_vars
  <2>1. CASE \E role \in ClientRoles, r \in ClientRects : on_create_window(c, role, r)
    BY <2>1 DEF on_create_window, Next, Requests
  <2>2. CASE client_drop(c) \/ client_reclaim(c) \/ orphan_destroy(c)
    BY <2>2 DEF client_drop, client_reclaim, orphan_destroy
  <2> QED  BY <1>1, <2>1, <2>2
<1>2. CASE \E sz \in ContentSizes : surface_map(sz)
  BY <1>2 DEF surface_map, Next, Requests
<1>3. ASSUME NEW id \in 1..MaxWindowId,
             \/ \E r \in ClientRects : on_set_geometry(id, r)
             \/ \E sz \in CommitSizes : on_commit(id, sz)
             \/ \E sz \in ContentSizes : surface_update(id, sz)
             \/ on_destroy_window(id) \/ Reap(id) \/ surface_unmap(id)
      PROVE  [Next]_vars
  <2>1. CASE \E r \in ClientRects : on_set_geometry(id, r)
    BY <2>1 DEF on_set_geometry, Next, Requests
  <2>2. CASE \E sz \in CommitSizes : on_commit(id, sz)
    BY <2>2 DEF on_commit
  <2>3. CASE \E sz \in ContentSizes : surface_update(id, sz)
    BY <2>3 DEF surface_update, Next, Requests
  <2>4. CASE on_destroy_window(id) \/ Reap(id) \/ surface_unmap(id)
    BY <2>4 DEF on_destroy_window, Reap, surface_unmap, Next, Requests
  <2> QED  BY <1>3, <2>1, <2>2, <2>3, <2>4
<1> QED  BY <1>1, <1>2, <1>3 DEF Clients

LEMMA LoopSteps == ASSUME Loop \/ \E m \in Modes : control_process(m) PROVE [Next]_vars
<1>1. CASE EndInput \/ EndLattice \/ EndWayland \/ wl_frontend_keyboard_focus
  BY <1>1 DEF EndInput, EndLattice, EndWayland, wl_frontend_keyboard_focus
<1>2. CASE EndIteration
  BY <1>2 DEF EndIteration, Next
<1>3. CASE \E m \in Modes : control_process(m)
  BY <1>3 DEF control_process, Next, Requests
<1> QED  BY <1>1, <1>2, <1>3 DEF Loop

\* A step of the loop is one of the window manager.
LEMMA LoopDrives == [ServerNext]_serverVars => [Next]_vars
<1>1. CASE ServerNext
  BY <1>1, InputSteps, ClientSteps, LoopSteps DEF ServerNext
<1>2. CASE UNCHANGED serverVars
  BY <1>2 DEF serverVars
<1> QED
  BY <1>1, <1>2

\* Every behaviour of server_run is one of the window manager under arbitrary
\* requests (server.c on_input, transport_process, wl_frontend_dispatch).
LEMMA DrivesWindowManager == ServerSpec => Spec
<1>1. ServerInit => Init
  BY DEF ServerInit
<1> QED  BY <1>1, LoopDrives, PTL DEF ServerSpec, Spec

\* So both transports, the socket and the seat together keep what wm.c and window.c
\* promise: the stack, who is above whom, snaps that can be undone, an Alt-Tab that reaches
\* every application, drags by the title bar that a mode change alone disturbs and the next
\* motion sets right, an order only the window in question changes, ids never reused.
THEOREM LoopKeepsPolicy ==
  ServerSpec =>
    /\ [](StackSound /\ StackingOrder /\ SnappedIsRestorable /\ AltTabReachesAll)
    /\ []DraggedByTitleBar /\ DragRecovers
    /\ StableOrder /\ SnapClearsTaskbar /\ IdsNeverReused
BY DrivesWindowManager, StackAlwaysSound, StackingAlwaysOrdered, SnapsCanBeUndone,
   AltTabAlwaysReachesAll, TitleBarsDrag, DragsRecover, OrderIsStable, SnapsClearTaskbar,
   IdsAreFresh, PTL

----------------------------------------------------------------------------
(* Where keys go: which transport a window belongs to is in its role and   *)
(* in who decorates it.  The proof follows those two through every         *)
(* operation of window.c, and the focus through the flush.                 *)

\* A window as the routing sees it, and the windows of a stack, without their order.
KindOf(w) == <<w.id, w.role, w.app_decorated>>

Kinds(s) == {KindOf(w) : w \in Contents(s)}

----------------------------------------------------------------------------
(* What the operations of window.c do to the windows, order aside.         *)

\* A window is found by its kind.
LEMMA KindsDecide ==
  ASSUME NEW s, Sound(s), NEW id
  PROVE  /\ Exists(s, id) => KindOf(window_by_id(s, id)) \in Kinds(s)
         /\ \A role, dec : <<id, role, dec>> \in Kinds(s) =>
              /\ Exists(s, id)
              /\ window_by_id(s, id).role = role
              /\ window_by_id(s, id).app_decorated = dec
              /\ id \in Nat \ {0}
<1>1. ASSUME NEW role, NEW dec, <<id, role, dec>> \in Kinds(s)
      PROVE  /\ Exists(s, id)
             /\ window_by_id(s, id).role = role
             /\ window_by_id(s, id).app_decorated = dec
             /\ id \in Nat \ {0}
  <2>1. PICK v \in Contents(s) : <<id, role, dec>> = KindOf(v)
    BY <1>1 DEF Kinds
  <2>2. v.id = id /\ v.role = role /\ v.app_decorated = dec
    BY <2>1 DEF KindOf
  <2> QED
    BY <2>2, ContentsDecide DEF Window
<1> QED
  BY <1>1, ContentsDecide DEF Kinds

\* window_raise.
LEMMA RaiseKinds ==
  ASSUME NEW s, Sound(s), NEW id
  PROVE  Kinds(window_raise(s, id)) = Kinds(s)
  BY RaiseContents DEF Kinds

\* window_lower.
LEMMA LowerKinds ==
  ASSUME NEW s, Sound(s), NEW id
  PROVE  Kinds(window_lower(s, id)) = Kinds(s)
  BY LowerContents DEF Kinds

\* Replacing a window in place.
LEMMA UpdateKinds ==
  ASSUME NEW s, Sound(s), NEW id, Exists(s, id), NEW w \in Window, w.id = id
  PROVE  Kinds(Update(s, id, w)) = (Kinds(s) \ {KindOf(window_by_id(s, id))}) \cup {KindOf(w)}
<1> DEFINE old == window_by_id(s, id)
           t   == Update(s, id, w)
<1>1. Contents(t) = (Contents(s) \ {old}) \cup {w}
  BY UpdateContents
<1>2. old.id = id /\ \A v \in Contents(s) : v.id = id => v = old
  BY ContentsDecide
<1> HIDE DEF old, t
<1>3. \A v \in Contents(s) : KindOf(v) = KindOf(old) => v = old
  BY <1>2 DEF KindOf
<1> QED
  BY <1>1, <1>3 DEF Kinds, old, t

\* Changes of position, size or snapping.
LEMMA UpdateSameKind ==
  ASSUME NEW s, Sound(s), NEW id, Exists(s, id), NEW w \in Window,
         KindOf(w) = KindOf(window_by_id(s, id))
  PROVE  Kinds(Update(s, id, w)) = Kinds(s)
<1>1. window_by_id(s, id).id = id
  BY WindowIndexFinds DEF Sound
<1>2. w.id = id
  BY <1>1 DEF KindOf
<1>3. KindOf(window_by_id(s, id)) \in Kinds(s)
  BY KindsDecide
<1> QED
  BY <1>2, <1>3, UpdateKinds

\* window_move.
LEMMA MoveKinds ==
  ASSUME NEW s, Sound(s), NEW id, NEW nx \in Int, NEW ny \in Int
  PROVE  Kinds(window_move(s, id, nx, ny)) = Kinds(s)
<1>1. CASE ~Exists(s, id)
  BY <1>1 DEF window_move
<1>2. CASE Exists(s, id)
  <2> DEFINE w == window_by_id(s, id)
             v == [w EXCEPT !.x = nx, !.y = ny]
  <2>1. w \in Window /\ w.id = id
    BY <1>2, WindowIndexFinds DEF Sound
  <2>2. window_move(s, id, nx, ny) = Update(s, id, v)
    BY <1>2 DEF window_move
  <2> HIDE DEF w
  <2>3. v \in Window /\ KindOf(v) = KindOf(w)
    BY <2>1 DEF Window, KindOf
  <2> HIDE DEF v
  <2> QED
    BY <1>2, <2>2, <2>3, UpdateSameKind DEF w
<1> QED
  BY <1>1, <1>2

\* window_set_geometry.
LEMMA SetGeometryKinds ==
  ASSUME NEW s, Sound(s), NEW id, NEW r \in Rect
  PROVE  Kinds(window_set_geometry(s, id, r)) = Kinds(s)
<1>1. CASE ~Exists(s, id)
  BY <1>1 DEF window_set_geometry
<1>2. CASE Exists(s, id)
  <2> DEFINE w == window_by_id(s, id)
             nw == IF r.w > 0 THEN r.w ELSE w.w
             nh == IF r.h > 0 THEN r.h ELSE w.h
             v == [w EXCEPT !.x = r.x, !.y = r.y, !.w = nw, !.h = nh]
  <2>1. w \in Window /\ w.id = id
    BY <1>2, WindowIndexFinds DEF Sound
  <2>2. window_set_geometry(s, id, r) = Update(s, id, v)
    BY <1>2 DEF window_set_geometry
  <2> HIDE DEF w
  <2>3. r.x \in Int /\ r.y \in Int /\ nw \in Int /\ nh \in Int
    BY <2>1 DEF Window, Rect
  <2> HIDE DEF nw, nh
  <2>4. v \in Window /\ KindOf(v) = KindOf(w)
    BY <2>1, <2>3 DEF Window, KindOf
  <2> HIDE DEF v
  <2> QED
    BY <1>2, <2>2, <2>4, UpdateSameKind DEF w
<1> QED
  BY <1>1, <1>2

\* window_focus.
LEMMA FocusKinds ==
  ASSUME NEW s, Sound(s), NEW id
  PROVE  Kinds(window_focus(s, id)) = Kinds(s)
  BY FocusContents DEF Kinds

\* window_create adds a window the server would decorate.
LEMMA CreateKinds ==
  ASSUME NEW s, Sound(s), ~IsFull(s), NEW role \in Role, NEW r \in Rect
  PROVE  /\ Kinds(window_create(s, role, r)) = Kinds(s) \cup {<<s.next_id, role, FALSE>>}
         /\ Exists(window_create(s, role, r), s.next_id)
<1> DEFINE t  == window_create(s, role, r)
           nw == NewWindow(s.next_id, role, r)
<1>1. KindOf(nw) = <<s.next_id, role, FALSE>>
  BY DEF KindOf, NewWindow
<1>2. Contents(t) = Contents(s) \cup {nw} /\ Exists(t, s.next_id)
  BY CreateContents
<1> HIDE DEF t, nw
<1>3. Kinds(t) = Kinds(s) \cup {KindOf(nw)}
  BY <1>2 DEF Kinds
<1> QED
  BY <1>1, <1>2, <1>3 DEF t

\* window_destroy takes one window away and no other.
LEMMA DestroyKinds ==
  ASSUME NEW s, Sound(s), NEW id
  PROVE  /\ Kinds(window_destroy(s, id)) = {k \in Kinds(s) : k[1] # id}
         /\ s.focus_id # id => window_destroy(s, id).focus_id = s.focus_id
<1>1. \A v : KindOf(v)[1] = v.id
  BY DEF KindOf
<1> QED
  BY <1>1, DestroyContents DEF Kinds

----------------------------------------------------------------------------
(* What the actions of the window manager do to the windows.               *)

\* Pointer motion.
LEMMA PointerKinds ==
  ASSUME Inv, Pointer
  PROVE  Kinds(stack') = Kinds(stack)
<1>1. Sound(stack) /\ WordsOK
  BY InvSplits
<1>2. ASSUME NEW nx, NEW ny, MoveCursor(nx, ny), cursor' \in [x : Int, y : Int]
      PROVE  Kinds(stack') = Kinds(stack)
  <2> DEFINE gx == cursor'.x - grab.dx
             gy == cursor'.y - grab.dy
  <2>1. stack' = IF moving THEN window_move(stack, move_id, gx, gy) ELSE stack
    BY <1>2 DEF MoveCursor, drag_grabbed
  <2>2. gx \in Int /\ gy \in Int
    BY <1>1, <1>2 DEF WordsOK
  <2> HIDE DEF gx, gy
  <2>3. Kinds(window_move(stack, move_id, gx, gy)) = Kinds(stack)
    BY <1>1, <2>2, MoveKinds
  <2> QED
    BY <2>1, <2>3
<1>3. cursor' \in [x : Int, y : Int]
  BY PointerKeeps, InvSplitsNext DEF WordsOK
<1> QED
  BY <1>2, <1>3 DEF Pointer, wm_pointer_motion, wm_pointer_motion_abs

\* A press.
LEMMA PressLeftKinds ==
  ASSUME Inv, PressLeft
  PROVE  Kinds(stack') = Kinds(stack)
<1> DEFINE id == window_at(stack, cursor.x, cursor.y)
           s1 == window_focus(stack, id)
           w  == window_by_id(s1, id)
           r  == Unsnapped(w)
           s2 == window_set_geometry(s1, id, r)
           v  == [window_by_id(s2, id) EXCEPT !.snapped = FALSE]
<1>1. WordsOK /\ Sound(stack) /\ stack \in Stack
  BY InvSplits DEF Sound
<1>2. cursor.x \in Int /\ cursor.y \in Int
  BY <1>1 DEF WordsOK
<1>3. Exists(stack, id)
  BY <1>1, <1>2, WindowAtFinds DEF PressLeft
<1>4. stack' = s1 \/ stack' = Update(s2, id, v)
  BY DEF PressLeft
<1> HIDE DEF id
<1>5. id \in Nat
  BY <1>1, <1>3, WindowIndexFinds
<1>6. Sound(s1) /\ Exists(s1, id) /\ Kinds(s1) = Kinds(stack)
  BY <1>1, <1>3, <1>5, FocusSound, FocusKinds DEF SameIds
<1> HIDE DEF s1
<1>7. r \in Rect
  <2>1. w \in Window
    BY <1>6, WindowIndexFinds DEF Sound
  <2> QED
    BY <1>1, <2>1, UnsnappedIsRect
<1> HIDE DEF r
<1>8. Sound(s2) /\ Exists(s2, id) /\ Kinds(s2) = Kinds(s1)
  BY <1>5, <1>6, <1>7, SetGeometrySound, SetGeometryKinds DEF SameIds
<1> HIDE DEF s2
<1>9. v \in Window /\ KindOf(v) = KindOf(window_by_id(s2, id))
  <2>1. window_by_id(s2, id) \in Window
    BY <1>8, WindowIndexFinds DEF Sound
  <2> QED
    BY <2>1 DEF Window, KindOf
<1> HIDE DEF v
<1>10. Kinds(Update(s2, id, v)) = Kinds(s2)
  BY <1>8, <1>9, UpdateSameKind
<1> QED
  BY <1>4, <1>6, <1>8, <1>10

\* A release.
LEMMA ReleaseLeftKinds ==
  ASSUME Inv, ReleaseLeft
  PROVE  Kinds(stack') = Kinds(stack)
<1>1. WordsOK /\ Sound(stack)
  BY InvSplits
<1>2. CASE ~Snaps(move_id)
  BY <1>2 DEF ReleaseLeft
<1>3. CASE Snaps(move_id)
  <2> DEFINE w  == window_by_id(stack, move_id)
             sv == IF w.snapped THEN w.saved ELSE RectOf(w)
             v  == [w EXCEPT !.saved = sv, !.snapped = TRUE]
             s1 == Update(stack, move_id, v)
             r  == SnapTarget
  <2>1. stack' = window_set_geometry(s1, move_id, r)
    BY <1>3 DEF ReleaseLeft, wm_snap_on_release
  <2>2. Exists(stack, move_id)
    BY <1>3 DEF Snaps
  <2>3. w \in Window /\ w.id = move_id
    BY <1>1, <2>2, WindowIndexFinds DEF Sound
  <2>4. sv \in Rect
    BY <2>3 DEF Window, RectOf, Rect
  <2> HIDE DEF sv, w
  <2>5. v \in Window /\ v.id = move_id /\ KindOf(v) = KindOf(w)
    BY <2>3, <2>4 DEF Window, KindOf
  <2> HIDE DEF v
  <2>6. Sound(s1) /\ Kinds(s1) = Kinds(stack)
    BY <1>1, <2>2, <2>5, UpdateSound, UpdateSameKind DEF w
  <2>7. r \in Rect
    BY <1>1, SnapTargetIsRect
  <2> HIDE DEF s1, r
  <2> QED
    BY <2>1, <2>6, <2>7, SetGeometryKinds
<1> QED
  BY <1>2, <1>3

\* Alt-Tab.
LEMMA AltTabKinds ==
  ASSUME Inv, wm_key
  PROVE  Kinds(stack') = Kinds(stack)
<1>1. Sound(stack) /\ stack' = window_focus_cycle(stack, 1)
  BY InvSplits DEF wm_key
<1> QED
  BY <1>1, CycleFocuses, FocusKinds

\* A client moves or resizes its window; a toplevel takes its buffer's size.
LEMMA GeometryRequestKinds ==
  ASSUME Inv, NEW id
  PROVE  /\ \A r \in ClientRects : SetClientGeometry(id, r) => Kinds(stack') = Kinds(stack)
         /\ \A sz \in ContentSizes : ResizeToplevel(id, sz) => Kinds(stack') = Kinds(stack)
<1>1. Sound(stack)
  BY InvSplits
<1>2. ASSUME NEW r \in ClientRects, SetClientGeometry(id, r)
      PROVE  Kinds(stack') = Kinds(stack)
  <2>1. r \in Rect /\ stack' = window_set_geometry(stack, id, r)
    BY <1>2, RequestsAssumption DEF SetClientGeometry
  <2> QED
    BY <1>1, <2>1, SetGeometryKinds
<1>3. ASSUME NEW sz \in ContentSizes, ResizeToplevel(id, sz)
      PROVE  Kinds(stack') = Kinds(stack)
  <2> DEFINE w == window_by_id(stack, id)
             v == [w EXCEPT !.w = sz.w, !.h = sz.h + DECOR_TITLEBAR_H]
  <2>1. stack' = Update(stack, id, v) /\ Exists(stack, id)
    BY <1>3 DEF ResizeToplevel
  <2>2. w \in Window /\ w.id = id
    BY <1>1, <2>1, WindowIndexFinds DEF Sound
  <2>3. sz.w \in Int /\ sz.h + DECOR_TITLEBAR_H \in Int
    BY RequestsAssumption, TitlebarAssumption DEF Size
  <2> HIDE DEF w
  <2>4. v \in Window /\ KindOf(v) = KindOf(w)
    BY <2>2, <2>3 DEF Window, KindOf
  <2> HIDE DEF v
  <2> QED
    BY <1>1, <2>1, <2>4, UpdateSameKind DEF w
<1> QED
  BY <1>2, <1>3

\* A resolution change.
LEMMA SetModeKinds ==
  ASSUME Inv, NEW m \in Modes, SetMode(m)
  PROVE  Kinds(stack') = Kinds(stack)
<1> DEFINE n  == Len(stack.windows)
           ws == [i \in 1 .. n |-> Refit(stack.windows[i], m)]
<1>1. /\ stack \in Stack /\ n \in Nat /\ DOMAIN stack.windows = 1 .. n
      /\ \A i \in 1 .. n : stack.windows[i] \in Window
  BY InvSplits DEF Sound, Stack
<1>2. stack' = [stack EXCEPT !.windows = ws]
  BY <1>1 DEF SetMode
<1>3. stack'.windows = ws
  BY <1>1, <1>2 DEF Stack
<1>4. Len(ws) = n
  BY <1>1
<1>5. ASSUME NEW i \in 1 .. n
      PROVE  KindOf(ws[i]) = KindOf(stack.windows[i])
  BY <1>1 DEF Refit, Window, KindOf
<1> HIDE DEF ws
<1> QED
  BY <1>3, <1>4, <1>5 DEF Kinds, Contents

\* A CrystallineLattice window comes decorated; no decorated window changes.
LEMMA CreateClientWindowKinds ==
  ASSUME Inv, NEW role \in ClientRoles, NEW rc \in ClientRects, CreateClientWindow(role, rc)
  PROVE  /\ \A k \in Kinds(stack') : k \in Kinds(stack) \/ k = <<stack.next_id, role, TRUE>>
         /\ \A k \in Kinds(stack) : k[3] = TRUE => k \in Kinds(stack')
<1> DEFINE id == stack.next_id
           r  == [rc EXCEPT !.w = IF @ = 0 THEN DefaultSize.w ELSE @,
                            !.h = IF @ = 0 THEN DefaultSize.h ELSE @]
           s1 == window_create(stack, role, r)
           old == window_by_id(s1, id)
           v  == [old EXCEPT !.app_decorated = TRUE]
           s2 == Update(s1, id, v)
           full == [x |-> 0, y |-> 0, w |-> screen.w, h |-> screen.h]
           s3 == window_set_geometry(s2, id, full)
<1>1. WordsOK /\ Sound(stack) /\ ~IsFull(stack)
  BY InvSplits DEF CreateClientWindow
<1>2. role \in Role /\ rc \in Rect /\ DefaultSize.w \in Int /\ DefaultSize.h \in Int
  BY RequestsAssumption DEF Size
<1>3. r \in Rect
  BY <1>2 DEF Rect
<1>4. stack' \in {window_focus(s2, id), window_lower(s3, id), s2}
  BY DEF CreateClientWindow
<1> HIDE DEF r
<1>5. Sound(s1) /\ Exists(s1, id) /\ Kinds(s1) = Kinds(stack) \cup {<<id, role, FALSE>>}
  BY <1>1, <1>2, <1>3, CreateSound, CreateKinds
<1>6. KindOf(old) = <<id, role, FALSE>> /\ old \in Window /\ old.id = id
  <2>1. old.role = role /\ old.app_decorated = FALSE
    BY <1>5, KindsDecide
  <2>2. old \in Window /\ old.id = id
    BY <1>5, WindowIndexFinds DEF Sound
  <2> QED
    BY <2>1, <2>2 DEF KindOf
<1> HIDE DEF s1, id, old
<1>7. v \in Window /\ v.id = id /\ KindOf(v) = <<id, role, TRUE>>
  BY <1>6 DEF Window, KindOf
<1> HIDE DEF v
<1>8. /\ Sound(s2)
      /\ Kinds(s2) = ((Kinds(stack) \cup {<<id, role, FALSE>>}) \ {<<id, role, FALSE>>})
                       \cup {<<id, role, TRUE>>}
  <2>1. Sound(s1) /\ Exists(s1, id) /\ v \in Window /\ v.id = id
    BY <1>5, <1>7
  <2>2. Sound(s2) /\ Kinds(s2) = (Kinds(s1) \ {KindOf(old)}) \cup {KindOf(v)}
    BY <2>1, UpdateSound, UpdateKinds DEF old
  <2> HIDE DEF s2
  <2> QED
    BY <1>5, <1>6, <1>7, <2>2
<1> HIDE DEF s2
<1>9. full \in Rect
  BY <1>1, ScreenIsSize DEF WordsOK, Rect
<1> HIDE DEF full
<1>10. Sound(s3) /\ Kinds(s3) = Kinds(s2)
  BY <1>8, <1>9, SetGeometrySound, SetGeometryKinds
<1> HIDE DEF s3
<1>11. Kinds(stack') = Kinds(s2)
  <2>1. Kinds(window_focus(s2, id)) = Kinds(s2)
    BY <1>8, FocusKinds
  <2>2. Kinds(window_lower(s3, id)) = Kinds(s3)
    BY <1>10, LowerKinds
  <2> QED
    BY <1>4, <1>10, <2>1, <2>2
<1>12. \A k \in Kinds(stack) : k[3] = TRUE => k # <<id, role, FALSE>>
  <2>1. <<id, role, FALSE>>[3] = FALSE
    OBVIOUS
  <2> QED
    BY <2>1, Zenon
<1> QED
  BY <1>8, <1>11, <1>12 DEF id

\* A Wayland window comes undecorated.
LEMMA MapToplevelKinds ==
  ASSUME Inv, NEW sz \in ContentSizes, MapToplevel(sz)
  PROVE  Kinds(stack') = Kinds(stack) \cup {<<stack.next_id, "NORMAL", FALSE>>}
<1> DEFINE id == stack.next_id
           r  == [x |-> Cascade.x, y |-> Cascade.y, w |-> sz.w, h |-> sz.h + DECOR_TITLEBAR_H]
           s1 == window_create(stack, "NORMAL", r)
<1>1. Sound(stack) /\ ~IsFull(stack)
  BY InvSplits DEF MapToplevel
<1>2. r \in Rect /\ "NORMAL" \in Role
  BY RequestsAssumption, TitlebarAssumption DEF Rect, Size, Role
<1>3. stack' = window_focus(s1, id)
  BY DEF MapToplevel
<1> HIDE DEF r
<1>4. Sound(s1) /\ Kinds(s1) = Kinds(stack) \cup {<<id, "NORMAL", FALSE>>}
  BY <1>1, <1>2, CreateSound, CreateKinds
<1> HIDE DEF s1
<1> QED
  BY <1>3, <1>4, FocusKinds

----------------------------------------------------------------------------
(* The invariant of the routing.                                           *)

\* Every window is decorated by its client or is an application's that the server
\* decorates; a dead client's windows, kept or about to go, are of the former.
Decorated ==
  /\ \A id \in Nat, role \in Role : <<id, role, FALSE>> \in Kinds(stack) => role = "NORMAL"
  /\ \A o \in orphaned \cup dying : \E role \in Role : <<o, role, TRUE>> \in Kinds(stack)

\* From the end of an iteration until the loop sleeps the frontend's keyboard focus
\* is right or names a window that is gone.
Synced == pc = "flush" /\ (kbd_focus = 0 \/ Exists(stack, kbd_focus))
            => kbd_focus = KeyboardTarget

\* The two transports tell their windows apart by the kind.
LEMMA TransportsDisjoint ==
  ASSUME NEW s, Sound(s), NEW id
  PROVE  /\ IsWayland(s, id) <=> <<id, "NORMAL", FALSE>> \in Kinds(s)
         /\ Exists(s, id) /\ window_by_id(s, id).app_decorated
              <=> \E role \in Role : <<id, role, TRUE>> \in Kinds(s)
<1>1. Exists(s, id) =>
        /\ window_by_id(s, id).role \in Role /\ window_by_id(s, id).app_decorated \in BOOLEAN
        /\ KindOf(window_by_id(s, id)) =
             <<id, window_by_id(s, id).role, window_by_id(s, id).app_decorated>>
  <2>1. Exists(s, id) => window_by_id(s, id) \in Window /\ window_by_id(s, id).id = id
    BY WindowIndexFinds DEF Sound
  <2> QED
    BY <2>1 DEF Window, KindOf
<1>2. Exists(s, id) =>
        <<id, window_by_id(s, id).role, window_by_id(s, id).app_decorated>> \in Kinds(s)
  BY <1>1, KindsDecide
<1>3. \A role, dec : <<id, role, dec>> \in Kinds(s) =>
        /\ Exists(s, id) /\ window_by_id(s, id).role = role
        /\ window_by_id(s, id).app_decorated = dec
  BY KindsDecide
<1>4. IsWayland(s, id) => <<id, "NORMAL", FALSE>> \in Kinds(s)
  <2>1. SUFFICES ASSUME IsWayland(s, id)
                 PROVE  <<id, "NORMAL", FALSE>> \in Kinds(s)
    OBVIOUS
  <2>2. /\ Exists(s, id) /\ window_by_id(s, id).role = "NORMAL"
        /\ ~window_by_id(s, id).app_decorated
    BY <2>1 DEF IsWayland, window_has_ssd
  <2>3. window_by_id(s, id).app_decorated = FALSE
    BY <1>1, <2>2
  <2> QED
    BY <1>2, <2>2, <2>3, Zenon
<1>5. <<id, "NORMAL", FALSE>> \in Kinds(s) => IsWayland(s, id)
  BY <1>3, Zenon DEF IsWayland, window_has_ssd
<1>6. Exists(s, id) /\ window_by_id(s, id).app_decorated =>
        \E role \in Role : <<id, role, TRUE>> \in Kinds(s)
  <2>1. SUFFICES ASSUME Exists(s, id), window_by_id(s, id).app_decorated
                 PROVE  <<id, window_by_id(s, id).role, TRUE>> \in Kinds(s)
    BY <1>1
  <2>2. window_by_id(s, id).app_decorated = TRUE
    BY <1>1, <2>1
  <2> QED
    BY <1>2, <2>1, <2>2, Zenon
<1>7. (\E role \in Role : <<id, role, TRUE>> \in Kinds(s)) =>
        Exists(s, id) /\ window_by_id(s, id).app_decorated
  BY <1>3, Zenon
<1> QED
  BY <1>4, <1>5, <1>6, <1>7

\* A step that keeps the kinds and takes no window from its client.
LEMMA KindsStepKeeps ==
  ASSUME Decorated, Kinds(stack') = Kinds(stack),
         orphaned' \cup dying' \subseteq orphaned \cup dying
  PROVE  Decorated'
BY DEF Decorated, Kinds, KindOf

\* A step that destroys a window and forgets it if its client was gone.
LEMMA DestroyStepKeeps ==
  ASSUME Inv, Decorated, NEW id, DestroyWindow(id),
         orphaned' \cup dying' \subseteq orphaned \cup dying, id \notin orphaned' \cup dying'
  PROVE  Decorated'
<1>1. Sound(stack) /\ stack' = window_destroy(stack, id)
  BY InvSplits DEF DestroyWindow
<1>2. Kinds(stack') = {k \in Kinds(stack) : k[1] # id}
  BY <1>1, DestroyKinds
<1>3. \A a, role, dec : <<a, role, dec>> \in Kinds(stack')
                          <=> <<a, role, dec>> \in Kinds(stack) /\ a # id
  BY <1>2
<1> QED
  BY <1>3, Zenon DEF Decorated, Kinds, KindOf

----------------------------------------------------------------------------
(* Each step of the loop keeps it.                                         *)

LEMMA InputKeeps ==
  ASSUME Inv, Decorated, Input
  PROVE  Decorated' /\ pc' # "flush"
<1>1. CASE OnMotion
  <2>1. Pointer /\ UNCHANGED <<orphaned, dying>> /\ pc' = "input"
    BY <1>1 DEF OnMotion, latticeVars
  <2> QED
    BY <2>1, PointerKinds, KindsStepKeeps
<1>2. ASSUME NEW left \in BOOLEAN, NEW pressed \in BOOLEAN, OnButton(left, pressed)
      PROVE  Decorated' /\ pc' # "flush"
  <2>1. /\ PressLeft \/ ReleaseLeft \/ UNCHANGED stack
        /\ UNCHANGED <<orphaned, dying>> /\ pc' = "input"
    BY <1>2 DEF OnButton, wm_pointer_button, latticeVars, vars
  <2>2. Kinds(stack') = Kinds(stack)
    BY <2>1, PressLeftKinds, ReleaseLeftKinds
  <2> QED
    BY <2>1, <2>2, KindsStepKeeps
<1>3. CASE OnAltTab
  <2>1. wm_key /\ UNCHANGED <<orphaned, dying>> /\ pc' = "input"
    BY <1>3 DEF OnAltTab, latticeVars
  <2> QED
    BY <2>1, AltTabKinds, KindsStepKeeps
<1> QED
  BY <1>1, <1>2, <1>3 DEF Input

\* New windows of either transport.
LEMMA NewWindowKeeps ==
  ASSUME Inv, Decorated
  PROVE  /\ \A c \in LatticeClients, role \in ClientRoles, r \in ClientRects :
              on_create_window(c, role, r) => Decorated' /\ pc' # "flush"
         /\ \A sz \in ContentSizes : surface_map(sz) => Decorated' /\ pc' # "flush"
<1>1. ASSUME NEW c \in LatticeClients, NEW role \in ClientRoles, NEW r \in ClientRects,
             on_create_window(c, role, r)
      PROVE  Decorated' /\ pc' # "flush"
  <2>1. CreateClientWindow(role, r) /\ UNCHANGED <<orphaned, dying>> /\ pc' = "lattice"
    BY <1>1 DEF on_create_window, Lattice
  <2>2. /\ \A k \in Kinds(stack') : k \in Kinds(stack) \/ k = <<stack.next_id, role, TRUE>>
        /\ \A k \in Kinds(stack) : k[3] = TRUE => k \in Kinds(stack')
    BY <2>1, CreateClientWindowKinds
  <2>3. ASSUME NEW a, NEW b, <<a, b, FALSE>> \in Kinds(stack')
        PROVE  <<a, b, FALSE>> \in Kinds(stack)
    <3>1. <<a, b, FALSE>> # <<stack.next_id, role, TRUE>>
      BY Zenon
    <3> QED
      BY <2>2, <2>3, <3>1
  <2>4. \A a, b : <<a, b, TRUE>> \in Kinds(stack) => <<a, b, TRUE>> \in Kinds(stack')
    BY <2>2
  <2>5. Decorated'
    BY <2>1, <2>3, <2>4, Zenon DEF Decorated, Kinds, KindOf
  <2> QED
    BY <2>1, <2>5
<1>2. ASSUME NEW sz \in ContentSizes, surface_map(sz)
      PROVE  Decorated' /\ pc' # "flush"
  <2>1. MapToplevel(sz) /\ UNCHANGED <<orphaned, dying>> /\ pc' = "wayland"
    BY <1>2 DEF surface_map, Wayland, latticeVars
  <2>2. Kinds(stack') = Kinds(stack) \cup {<<stack.next_id, "NORMAL", FALSE>>}
    BY <2>1, MapToplevelKinds
  <2>3. ASSUME NEW a, NEW b, <<a, b, FALSE>> \in Kinds(stack')
        PROVE  <<a, b, FALSE>> \in Kinds(stack) \/ b = "NORMAL"
    BY <2>2, <2>3
  <2>4. \A a, b : <<a, b, TRUE>> \in Kinds(stack) => <<a, b, TRUE>> \in Kinds(stack')
    BY <2>2
  <2>5. Decorated'
    BY <2>1, <2>3, <2>4, Zenon DEF Decorated, Kinds, KindOf
  <2> QED
    BY <2>1, <2>5
<1> QED
  BY <1>1, <1>2

\* What a client asks of a window it has, and the destruction of a dead one's.
LEMMA WindowRequestKeeps ==
  ASSUME Inv, Decorated, NEW id \in 1..MaxWindowId,
         \/ \E r \in ClientRects : on_set_geometry(id, r)
         \/ \E sz \in CommitSizes : on_commit(id, sz)
         \/ \E sz \in ContentSizes : surface_update(id, sz)
         \/ on_destroy_window(id) \/ Reap(id)
  PROVE  Decorated' /\ pc' # "flush"
<1>0. Sound(stack)
  BY InvSplits
<1>1. CASE \E r \in ClientRects : on_set_geometry(id, r)
  <2>1. /\ \E r \in ClientRects : SetClientGeometry(id, r)
        /\ UNCHANGED <<orphaned, dying>> /\ pc' = "lattice"
    BY <1>1 DEF on_set_geometry, Lattice, latticeVars
  <2> QED
    BY <2>1, GeometryRequestKinds, KindsStepKeeps
<1>2. CASE \E sz \in CommitSizes : on_commit(id, sz)
  <2>1. UNCHANGED <<stack, orphaned, dying>> /\ pc' = "lattice"
    BY <1>2 DEF on_commit, Lattice, latticeVars, vars
  <2> QED
    BY <2>1, KindsStepKeeps
<1>3. CASE \E sz \in ContentSizes : surface_update(id, sz)
  <2>1. /\ \E sz \in ContentSizes : ResizeToplevel(id, sz)
        /\ UNCHANGED <<orphaned, dying>> /\ pc' = "wayland"
    BY <1>3 DEF surface_update, Wayland, latticeVars
  <2> QED
    BY <2>1, GeometryRequestKinds, KindsStepKeeps
<1>4. CASE on_destroy_window(id)
  <2>1. /\ DestroyWindow(id) /\ UNCHANGED <<orphaned, dying>>
        /\ id \notin orphaned /\ dying = {} /\ pc' = "lattice"
    BY <1>4 DEF on_destroy_window, Lattice, IsLattice
  <2> QED
    BY <2>1, DestroyStepKeeps
<1>5. CASE Reap(id)
  <2>1. /\ DestroyWindow(id) /\ pc' = "lattice"
        /\ orphaned' = orphaned \ {id} /\ dying' = dying \ {id}
    BY <1>5 DEF Reap
  <2> QED
    BY <2>1, DestroyStepKeeps
<1> QED
  BY <1>1, <1>2, <1>3, <1>4, <1>5

\* What becomes of all the windows of a client that dies or comes back.
LEMMA ClientKeeps ==
  ASSUME Inv, Decorated, NEW c \in LatticeClients,
         client_drop(c) \/ client_reclaim(c) \/ orphan_destroy(c)
  PROVE  Decorated' /\ pc' # "flush"
<1>1. UNCHANGED stack /\ pc' = "lattice"
  BY DEF client_drop, client_reclaim, orphan_destroy, Lattice, vars
<1>2. CASE client_drop(c)
  <2>1. orphaned' \cup dying' \subseteq orphaned \cup dying \cup WindowsOf(c)
    BY <1>2 DEF client_drop
  <2>2. \A o \in WindowsOf(c) : \E role \in Role : <<o, role, TRUE>> \in Kinds(stack)
    BY InvSplits, TransportsDisjoint DEF WindowsOf, IsLattice
  <2>3. \A o \in orphaned' \cup dying' : \E role \in Role : <<o, role, TRUE>> \in Kinds(stack)
    BY <2>1, <2>2 DEF Decorated
  <2>4. Decorated'
    BY <1>1, <2>3, Zenon DEF Decorated, Kinds, KindOf
  <2> QED
    BY <1>1, <2>4
<1>3. CASE client_reclaim(c) \/ orphan_destroy(c)
  <2>1. orphaned' \cup dying' \subseteq orphaned \cup dying
    BY <1>3 DEF client_reclaim, orphan_destroy, HeldFor
  <2> QED
    BY <1>1, <2>1, KindsStepKeeps
<1> QED
  BY <1>2, <1>3

\* A Wayland window goes, in the flush too: a focus that falls back then falls to
\* nothing the frontend has been told of, and no other focus moves.
LEMMA UnmapKeeps ==
  ASSUME Inv, Decorated, Synced, NEW id \in 1..MaxWindowId, surface_unmap(id)
  PROVE  Decorated' /\ Synced'
<1>1. /\ IsWayland(stack, id) /\ DestroyWindow(id)
      /\ UNCHANGED <<orphaned, dying, kbd_focus, pc>>
  BY DEF surface_unmap, latticeVars, seatVars
<1>2. Sound(stack) /\ Sound(stack') /\ stack' = window_destroy(stack, id)
  BY <1>1, InvSplits, DestroySound DEF DestroyWindow
<1>3. id \notin orphaned \cup dying
  <2>1. ~window_by_id(stack, id).app_decorated
    BY <1>1 DEF IsWayland, window_has_ssd
  <2> QED
    BY <1>2, <2>1, TransportsDisjoint DEF Decorated
<1>4. Decorated'
  BY <1>1, <1>3, DestroyStepKeeps
<1>5. \A a, role, dec : <<a, role, dec>> \in Kinds(stack')
                          <=> <<a, role, dec>> \in Kinds(stack) /\ a # id
  BY <1>2, DestroyKinds
<1>6. stack.focus_id # id => stack'.focus_id = stack.focus_id
  BY <1>2, DestroyKinds
<1>7. \A a : IsWayland(stack', a) <=> IsWayland(stack, a) /\ a # id
  BY <1>2, <1>5, TransportsDisjoint
<1>8. \A a : Exists(stack', a) => Exists(stack, a) /\ a # id
  <2>1. ASSUME NEW a, Exists(stack', a)
        PROVE  Exists(stack, a) /\ a # id
    <3>1. PICK role, dec : <<a, role, dec>> \in Kinds(stack')
      <4>1. window_by_id(stack', a).id = a
        BY <1>2, <2>1, WindowIndexFinds DEF Sound
      <4>2. KindOf(window_by_id(stack', a)) \in Kinds(stack')
        BY <1>2, <2>1, KindsDecide
      <4> QED
        BY <4>1, <4>2, Zenon DEF KindOf
    <3> QED
      BY <1>2, <1>5, <3>1, KindsDecide
  <2> QED
    BY <2>1
<1>9. Synced'
  <2>1. SUFFICES ASSUME pc = "flush", kbd_focus = 0 \/ Exists(stack', kbd_focus)
                 PROVE  kbd_focus = KeyboardTarget'
    BY <1>1 DEF Synced
  <2>2. kbd_focus = KeyboardTarget /\ kbd_focus # id
    <3>1. id # 0
      OBVIOUS
    <3> QED
      BY <1>8, <2>1, <3>1 DEF Synced
  <2>3. stack.focus_id # id
    BY <1>1, <2>2 DEF KeyboardTarget
  <2>4. stack'.focus_id = stack.focus_id
    BY <1>6, <2>3
  <2> QED
    BY <1>7, <2>2, <2>3, <2>4 DEF KeyboardTarget
<1> QED
  BY <1>4, <1>9

\* The rest of the iteration.
LEMMA LoopKeeps ==
  ASSUME Inv, Decorated, Loop \/ \E m \in Modes : control_process(m)
  PROVE  Decorated' /\ Synced'
<1>1. CASE EndInput \/ EndLattice \/ EndWayland
  <2>1. UNCHANGED <<stack, orphaned, dying>> /\ pc' # "flush"
    BY <1>1 DEF EndInput, EndLattice, EndWayland, Goto, vars, routing, latticeVars
  <2> QED
    BY <2>1, KindsStepKeeps DEF Synced
<1>2. CASE wl_frontend_keyboard_focus
  <2>1. UNCHANGED <<stack, orphaned, dying>> /\ kbd_focus' = KeyboardTarget
    BY <1>2 DEF wl_frontend_keyboard_focus, vars, latticeVars
  <2>2. KeyboardTarget' = KeyboardTarget
    BY <2>1 DEF KeyboardTarget, IsWayland, Exists, window_by_id, window_index
  <2> QED
    BY <2>1, <2>2, KindsStepKeeps DEF Synced
<1>3. CASE EndIteration
  <2>1. UNCHANGED <<stack, orphaned, dying>> /\ pc' = "input"
    BY <1>3 DEF EndIteration, Goto, NotifyReconfigured, vars, routing, latticeVars
  <2> QED
    BY <2>1, KindsStepKeeps DEF Synced
<1>4. ASSUME NEW m \in Modes, control_process(m)
      PROVE  Decorated' /\ Synced'
  <2>1. SetMode(m) /\ UNCHANGED <<orphaned, dying>> /\ pc' = "control"
    BY <1>4 DEF control_process, routing, latticeVars
  <2> QED
    BY <2>1, SetModeKinds, KindsStepKeeps DEF Synced
<1> QED
  BY <1>1, <1>2, <1>3, <1>4 DEF Loop

\* Every step of the loop.
LEMMA RoutingKeeps ==
  Inv /\ Decorated /\ Synced /\ [ServerNext]_serverVars => Decorated' /\ Synced'
<1> SUFFICES ASSUME Inv, Decorated, Synced, [ServerNext]_serverVars
             PROVE  Decorated' /\ Synced'
  OBVIOUS
<1>1. pc' # "flush" => Synced'
  BY DEF Synced
<1>2. CASE Input
  BY <1>1, <1>2, InputKeeps
<1>3. CASE Clients
  BY <1>1, <1>3, NewWindowKeeps, WindowRequestKeeps, ClientKeeps, UnmapKeeps DEF Clients
<1>4. CASE Loop \/ \E m \in Modes : control_process(m)
  BY <1>4, LoopKeeps
<1>5. CASE UNCHANGED serverVars
  <2>1. UNCHANGED <<stack, orphaned, dying, kbd_focus, pc>>
    BY <1>5 DEF serverVars, vars, routing, latticeVars, seatVars
  <2> QED
    BY <2>1 DEF Decorated, Synced, Kinds, KindOf, KeyboardTarget, IsWayland, Exists,
       window_by_id, window_index
<1> QED
  BY <1>2, <1>3, <1>4, <1>5 DEF ServerNext

----------------------------------------------------------------------------
(* The theorem.                                                            *)

\* What the invariant says of a key at the end of an iteration.
LEMMA RoutingReaches == Inv /\ Decorated /\ Synced => KeysReachFocused
<1> SUFFICES ASSUME Inv, Decorated, Synced, pc = "flush"
             PROVE  /\ KeyReaches(stack) \subseteq {stack.focus_id}
                    /\ kbd_focus = 0 \/ Exists(stack, kbd_focus) =>
                         KeyReaches(stack) = {stack.focus_id} \ ({0} \cup orphaned)
  BY DEF KeysReachFocused
<1> DEFINE f == stack.focus_id
<1>1. Sound(stack)
  BY InvSplits
<1>2. ~Exists(stack, 0)
  BY <1>1, WindowIndexFinds DEF Sound
<1>3. \A id : IsWayland(stack, id) => id \notin orphaned /\ ~IsLattice(stack, id)
  <2>1. \A id : IsWayland(stack, id) => ~window_by_id(stack, id).app_decorated
    BY DEF IsWayland, window_has_ssd
  <2> QED
    BY <1>1, <2>1, TransportsDisjoint DEF Decorated, IsLattice
<1>4. IsWayland(stack, kbd_focus) => kbd_focus = f /\ IsWayland(stack, f)
  <2>1. SUFFICES ASSUME IsWayland(stack, kbd_focus)
                 PROVE  kbd_focus = f
    BY <2>1
  <2>2. Exists(stack, kbd_focus) /\ kbd_focus # 0
    BY <1>2, <2>1 DEF IsWayland
  <2>3. kbd_focus = KeyboardTarget
    BY <2>2 DEF Synced
  <2> QED
    BY <2>2, <2>3 DEF KeyboardTarget
<1>5. KeyReaches(stack) \subseteq {f}
  BY <1>4 DEF KeyReaches, wl_frontend_keyboard_key, transport_keyboard_key
<1>6. f \in KeyReaches(stack) <=> IsWayland(stack, kbd_focus) \/ IsLattice(stack, f)
  BY <1>4 DEF KeyReaches, wl_frontend_keyboard_key, transport_keyboard_key
<1>7. ASSUME kbd_focus = 0 \/ Exists(stack, kbd_focus)
      PROVE  f \in KeyReaches(stack) <=> f # 0 /\ f \notin orphaned
  <2>1. kbd_focus = KeyboardTarget
    BY <1>7 DEF Synced
  <2>2. f = 0 \/ Exists(stack, f)
    BY <1>1 DEF Sound, FocusLive
  <2>3. CASE f = 0
    BY <1>2, <1>4, <1>6, <2>3 DEF IsWayland, IsLattice
  <2>4. CASE f # 0 /\ IsWayland(stack, f)
    BY <1>3, <1>6, <2>1, <2>4 DEF KeyboardTarget
  <2>5. CASE f # 0 /\ ~IsWayland(stack, f)
    <3>1. Exists(stack, f) /\ window_by_id(stack, f) \in Window
      BY <1>1, <2>2, <2>5, WindowIndexFinds DEF Sound
    <3>2. window_by_id(stack, f).id = f
      BY <1>1, <3>1, WindowIndexFinds DEF Sound
    <3>3. /\ window_by_id(stack, f).role \in Role /\ f \in Nat
          /\ window_by_id(stack, f).app_decorated \in BOOLEAN
      BY <3>1, <3>2 DEF Window
    <3>4. window_by_id(stack, f).app_decorated
      <4>1. SUFFICES ASSUME window_by_id(stack, f).app_decorated = FALSE
                     PROVE  FALSE
        BY <3>3
      <4>2. <<f, window_by_id(stack, f).role, FALSE>> \in Kinds(stack)
        <5>1. KindOf(window_by_id(stack, f)) \in Kinds(stack)
          BY <1>1, <3>1, KindsDecide
        <5> QED
          BY <3>2, <4>1, <5>1, Zenon DEF KindOf
      <4>3. window_by_id(stack, f).role = "NORMAL"
        BY <3>3, <4>2 DEF Decorated
      <4> QED
        BY <2>5, <3>1, <4>1, <4>3 DEF IsWayland, window_has_ssd
    <3>5. IsLattice(stack, f) <=> f \notin orphaned
      BY <3>1, <3>4 DEF IsLattice
    <3> QED
      BY <1>4, <1>6, <2>5, <3>5
  <2> QED
    BY <2>3, <2>4, <2>5
<1> QED
  BY <1>5, <1>7

\* server.c "Otherwise route to the focused client": for every capacity, screen and
\* set of clients, when the loop goes back to sleep a key reaches the client of the
\* focused window and no other.
THEOREM KeysAlwaysReachFocused == ServerSpec => []KeysReachFocused
<1>1. ServerInit => Inv /\ Decorated /\ Synced
  <2>1. SUFFICES ASSUME ServerInit
                 PROVE  Inv /\ Decorated /\ Synced
    OBVIOUS
  <2>2. Inv
    BY <2>1, InitKeeps DEF ServerInit
  <2>3. stack.windows = << >> /\ orphaned = {} /\ dying = {} /\ pc = "input"
    BY <2>1 DEF ServerInit, Init, window_stack_init
  <2>4. Kinds(stack) = {}
    BY <2>3 DEF Kinds, Contents
  <2> QED
    BY <2>2, <2>3, <2>4 DEF Decorated, Synced
<1>2. Inv /\ [ServerNext]_serverVars => Inv'
  BY LoopDrives, NextKeeps
<1> QED
  BY <1>1, <1>2, RoutingKeeps, RoutingReaches, PTL DEF ServerSpec


----------------------------------------------------------------------------
(* Who places a window.                                                    *)

\* What is being dragged, as long as it exists, is a window the server decorates.
Dragging ==
  moving => /\ move_id < stack.next_id
            /\ \A w \in Contents(stack) : w.id = move_id => window_has_ssd(w)

\* A step that takes hold of nothing and gives no window's id to another.
LEMMA DraggingKept ==
  ASSUME Inv, Dragging, moving' => moving /\ move_id' = move_id,
         stack'.next_id \in Nat, stack'.next_id >= stack.next_id,
         \A v \in Contents(stack') :
           \/ v.id = stack.next_id
           \/ \E w \in Contents(stack) : v.id = w.id /\ (window_has_ssd(w) => window_has_ssd(v))
  PROVE  Dragging'
<1>1. stack.next_id \in Nat /\ move_id \in Nat
  BY InvSplits DEF Sound, Stack, WordsOK
<1> QED
  BY <1>1 DEF Dragging

\* One window in the place of another of its kind.
LEMMA DraggingSwapped ==
  ASSUME Inv, Dragging, moving' => moving /\ move_id' = move_id,
         stack'.next_id = stack.next_id, NEW w \in Contents(stack), NEW v, v.id = w.id,
         v.role = w.role, v.app_decorated = w.app_decorated, Swapped(stack, stack', w, v)
  PROVE  Dragging'
<1>1. stack.next_id \in Nat
  BY InvSplits DEF Sound, Stack
<1>2. \A u \in Contents(stack') : u = v \/ u \in Contents(stack)
  BY DEF Swapped
<1>3. window_has_ssd(w) => window_has_ssd(v)
  BY DEF window_has_ssd
<1> QED
  BY <1>1, <1>2, <1>3, DraggingKept

\* A drag starts on a handle, and the windows the server decorates stay so.
LEMMA NextDragging == Inv /\ Dragging /\ [Next]_vars => Dragging'
<1> SUFFICES ASSUME Inv, Dragging, [Next]_vars
             PROVE  Dragging'
  OBVIOUS
<1>1. /\ Sound(stack) /\ Sound(stack') /\ stack.next_id \in Nat /\ stack'.next_id \in Nat
      /\ \A u \in Contents(stack) : u \in Window /\ u.id < stack.next_id
      /\ \A u, v \in Contents(stack') : u.id = v.id => u = v
  <2>1. Sound(stack) /\ Sound(stack')
    BY InvSplits, NextKeeps, InvSplitsNext
  <2> QED
    BY <2>1, ContentsDecide DEF Sound, Stack
<1>2. CASE Pointer
  <2>1. PICK nx \in Int, ny \in Int : MoveCursor(nx, ny)
    BY <1>2, PointerIsMotion
  <2>2. UNCHANGED <<moving, move_id>> /\ stack'.next_id = stack.next_id
    BY <2>1, MoveCursorContents
  <2>3. \/ Contents(stack') = Contents(stack)
        \/ \E w \in Contents(stack), v \in Window :
             SameButRect(w, v) /\ Swapped(stack, stack', w, v)
    BY <2>1, MoveCursorContents
  <2> QED
    BY <1>1, <2>2, <2>3, DraggingKept, DraggingSwapped DEF SameButRect
<1>3. CASE PressLeft
  <2>1. stack'.next_id = stack.next_id
    BY <1>3, PressLeftContents
  <2>2. CASE Contents(stack') = Contents(stack) /\ UNCHANGED drag
    BY <1>1, <2>1, <2>2, DraggingKept DEF drag
  <2>3. ASSUME NEW w \in Contents(stack), OnHandle(w), StartDrag(w.id, w.x, w.y),
               Contents(stack') = Contents(stack)
        PROVE  Dragging'
    BY <1>1, <2>1, <2>3 DEF Dragging, StartDrag, OnHandle
  <2>4. ASSUME NEW w \in Contents(stack), NEW v \in Window, OnHandle(w),
               StartDrag(w.id, Unsnapped(w).x, Unsnapped(w).y),
               SameButRect([w EXCEPT !.snapped = FALSE], v), Swapped(stack, stack', w, v)
        PROVE  Dragging'
    <3>1. w \in Window /\ w.id < stack.next_id
      BY <1>1
    <3>2. v.id = w.id /\ v.role = w.role /\ v.app_decorated = w.app_decorated
      BY <2>4, <3>1 DEF SameButRect, Window
    <3>3. window_has_ssd(v) /\ v \in Contents(stack')
      BY <2>4, <3>2 DEF OnHandle, window_has_ssd, Swapped
    <3> QED
      BY <1>1, <2>1, <2>4, <3>1, <3>2, <3>3 DEF Dragging, StartDrag
  <2> QED
    BY <1>3, <2>2, <2>3, <2>4, PressLeftContents
<1>4. CASE ReleaseLeft
  BY <1>4, ReleaseLeftContents DEF Dragging
<1>5. CASE wm_key \/ NotifyReconfigured \/ (\E id : DestroyWindow(id)) \/ UNCHANGED vars
  BY <1>1, <1>5, OtherContents, DraggingKept DEF drag
<1>6. ASSUME NEW role \in ClientRoles, NEW r \in ClientRects, CreateClientWindow(role, r)
      PROVE  Dragging'
  <2>1. UNCHANGED <<moving, move_id>>
    BY <1>6 DEF CreateClientWindow, drag
  <2> QED
    BY <1>1, <1>6, <2>1, CreateClientWindowContents, DraggingKept
<1>7. ASSUME NEW sz \in ContentSizes, MapToplevel(sz)
      PROVE  Dragging'
  BY <1>1, <1>7, MapToplevelContents, DraggingKept DEF MapToplevel, drag
<1>8. ASSUME NEW id, NEW r \in ClientRects, SetClientGeometry(id, r)
      PROVE  Dragging'
  BY <1>8, SetClientGeometryContents, DraggingSwapped DEF SetClientGeometry, drag, SameButRect
<1>9. ASSUME NEW id, NEW sz \in ContentSizes, ResizeToplevel(id, sz)
      PROVE  Dragging'
  BY <1>9, ResizeToplevelContents, DraggingSwapped DEF ResizeToplevel, drag, SameButRect
<1>10. ASSUME NEW m \in Modes, SetMode(m)
       PROVE  Dragging'
  <2>1. \A v \in Contents(stack') : \E w \in Contents(stack) :
          v.id = w.id /\ v.role = w.role /\ v.app_decorated = w.app_decorated
    BY <1>10, SetModeContents DEF SameButRect
  <2> QED
    BY <1>1, <1>10, <2>1, SetModeContents, DraggingKept DEF SetMode, drag, window_has_ssd
<1> QED
  BY <1>2, <1>3, <1>4, <1>5, <1>6, <1>7, <1>8, <1>9, <1>10 DEF Next, Requests

\* The windows clients decorate are where they were.
InPlace ==
  \A w \in Contents(stack), v \in Contents(stack') :
    w.app_decorated /\ v.id = w.id => RectOf(v) = RectOf(w)

\* A step that changes at most a window the server decorates.
LEMMA SwapInPlace ==
  ASSUME Inv, NEW w \in Contents(stack), window_has_ssd(w), NEW v, v.id = w.id,
         Swapped(stack, stack', w, v)
  PROVE  InPlace
<1>1. \A u, z \in Contents(stack) : u.id = z.id => u = z
  BY InvSplits, ContentsDecide
<1>2. \A u \in Contents(stack') : u = v \/ u \in Contents(stack)
  BY DEF Swapped
<1> QED
  BY <1>1, <1>2 DEF InPlace, window_has_ssd

LEMMA ContentsInPlace ==
  ASSUME Inv, \A v \in Contents(stack') : v \in Contents(stack) \/ v.id = stack.next_id
  PROVE  InPlace
<1>1. /\ \A u, z \in Contents(stack) : u.id = z.id => u = z
      /\ \A u \in Contents(stack) : u.id \in Nat /\ u.id < stack.next_id
      /\ stack.next_id \in Nat
  <2>1. Sound(stack) /\ stack.next_id \in Nat
    BY InvSplits DEF Sound, Stack
  <2> QED
    BY <2>1, ContentsDecide DEF Window
<1> QED
  BY <1>1 DEF InPlace

\* What the loop does when it does not serve CrystallineLattice clients or the control
\* socket.
LEMMA OthersInPlace ==
  ASSUME Inv, Dragging,
         \/ Pointer \/ PressLeft \/ ReleaseLeft \/ wm_key \/ NotifyReconfigured
         \/ \E id : DestroyWindow(id) \/ \E sz \in ContentSizes : ResizeToplevel(id, sz)
         \/ \E sz \in ContentSizes : MapToplevel(sz)
         \/ UNCHANGED vars
  PROVE  InPlace
<1>1. \A u \in Contents(stack) : u \in Window
  BY InvSplits, ContentsDecide
<1>2. CASE Pointer
  <2>1. PICK nx \in Int, ny \in Int : MoveCursor(nx, ny)
    BY <1>2, PointerIsMotion
  <2>2. \/ Contents(stack') = Contents(stack)
        \/ \E w \in Contents(stack), v \in Window :
             /\ moving /\ w.id = move_id /\ SameButRect(w, v)
             /\ Swapped(stack, stack', w, v)
    BY <2>1, MoveCursorContents
  <2> QED
    BY <2>2, ContentsInPlace, SwapInPlace DEF Dragging, SameButRect
<1>3. CASE PressLeft
  <2>1. ASSUME NEW w \in Contents(stack), NEW v, OnHandle(w),
               SameButRect([w EXCEPT !.snapped = FALSE], v), Swapped(stack, stack', w, v)
        PROVE  InPlace
    <3>1. v.id = w.id
      BY <1>1, <2>1 DEF SameButRect, Window
    <3> QED
      BY <2>1, <3>1, SwapInPlace DEF OnHandle
  <2> QED
    BY <1>3, <2>1, PressLeftContents, ContentsInPlace
<1>4. CASE ReleaseLeft
  BY <1>4, ReleaseLeftContents, ContentsInPlace, SwapInPlace
<1>5. CASE wm_key \/ NotifyReconfigured \/ (\E id : DestroyWindow(id)) \/ UNCHANGED vars
  BY <1>5, OtherContents, ContentsInPlace
<1>6. ASSUME NEW id, NEW sz \in ContentSizes, ResizeToplevel(id, sz)
      PROVE  InPlace
  BY <1>6, ResizeToplevelContents, SwapInPlace DEF SameButRect
<1>7. ASSUME NEW sz \in ContentSizes, MapToplevel(sz)
      PROVE  InPlace
  BY <1>7, MapToplevelContents, ContentsInPlace
<1> QED
  BY <1>2, <1>3, <1>4, <1>5, <1>6, <1>7

\* server.c:673 finds no client to send CL_CONFIGURE to: whatever is dragged, snapped,
\* restored, resized or closed, and however stale move_id is, a window that its client
\* decorates stays where its client put it.
THEOREM ClientsAlwaysPlaceThemselves == ServerSpec => ClientsPlaceThemselves
<1>1. ASSUME Inv, Dragging, [ServerNext]_serverVars, pc \notin {"lattice", "control"}
      PROVE  \A id \in Ids : IsLattice(stack, id) /\ Exists(stack', id) =>
               RectOf(window_by_id(stack', id)) = RectOf(window_by_id(stack, id))
  <2>1. InPlace
    <3>1. CASE Input
      BY <1>1, <3>1, OthersInPlace DEF Input, OnMotion, OnButton, wm_pointer_button, OnAltTab
    <3>2. CASE Clients
      <4>1. \/ \E id : DestroyWindow(id) \/ \E sz \in ContentSizes : ResizeToplevel(id, sz)
            \/ \E sz \in ContentSizes : MapToplevel(sz)
        BY <1>1, <3>2 DEF Clients, on_create_window, on_set_geometry, on_commit,
           on_destroy_window, client_drop, client_reclaim, orphan_destroy, Reap, Lattice,
           surface_map, surface_update, surface_unmap
      <4> QED
        BY <1>1, <4>1, OthersInPlace
    <3>3. CASE Loop
      <4>1. NotifyReconfigured \/ UNCHANGED vars
        BY <3>3 DEF Loop, EndInput, EndLattice, EndWayland, wl_frontend_keyboard_focus,
           EndIteration
      <4> QED
        BY <1>1, <4>1, OthersInPlace
    <3>4. CASE UNCHANGED serverVars
      BY <1>1, <3>4, OthersInPlace DEF serverVars
    <3>5. ~\E m \in Modes : control_process(m)
      BY <1>1 DEF control_process
    <3> QED
      BY <1>1, <3>1, <3>2, <3>3, <3>4, <3>5 DEF ServerNext
  <2>2. Sound(stack) /\ Sound(stack')
    BY <1>1, LoopDrives, InvSplits, NextKeeps, InvSplitsNext
  <2>3. ASSUME NEW id, IsLattice(stack, id), Exists(stack', id)
        PROVE  RectOf(window_by_id(stack', id)) = RectOf(window_by_id(stack, id))
    <3>1. /\ window_by_id(stack, id) \in Contents(stack)
          /\ window_by_id(stack, id).id = id
          /\ window_by_id(stack, id).app_decorated
          /\ window_by_id(stack', id) \in Contents(stack')
          /\ window_by_id(stack', id).id = id
      BY <2>2, <2>3, ContentsDecide DEF IsLattice
    <3> QED
      BY <2>1, <3>1 DEF InPlace
  <2> QED
    BY <2>3
<1>2. ASSUME Inv, Dragging, [ServerNext]_serverVars
      PROVE  [pc \notin {"lattice", "control"} =>
                \A id \in Ids : IsLattice(stack, id) /\ Exists(stack', id) =>
                  RectOf(window_by_id(stack', id)) = RectOf(window_by_id(stack, id))]_serverVars
  BY <1>1, <1>2
<1>3. Spec => [](Inv /\ Dragging)
  <2>1. Init => Inv /\ Dragging
    BY InitKeeps DEF Init, Dragging
  <2> QED
    BY <2>1, NextKeeps, NextDragging, PTL DEF Spec
<1> QED
  BY <1>2, <1>3, DrivesWindowManager, PTL DEF ServerSpec, ClientsPlaceThemselves


----------------------------------------------------------------------------
(* What the loop keeps beside the stack.                                   *)

\* The types, and the pixels of every window the Wayland frontend maps.
Routed ==
  /\ content \in [1..MaxWindowId -> Size \cup {NoSize}]
  /\ \A id : <<id, "NORMAL", FALSE>> \in Kinds(stack) => content[id] \in Size
  /\ pointer_focus \in Nat /\ kbd_focus \in Nat
  /\ pc \in {"input", "lattice", "wayland", "control", "flush"}

\* Whose a window is, and what the last button event reached.
Ledgers ==
  /\ owner \in [1..MaxWindowId -> LatticeClients \cup {NoClient}]
  /\ heard \subseteq Nat

\* What is kept of dead clients are windows, so the types are the type invariant.
LEMMA RoutedIsOK == Inv /\ Decorated /\ Routed /\ Ledgers => RoutingOK
<1> SUFFICES ASSUME Inv, Decorated, NEW o \in orphaned \cup dying
             PROVE  o \in Ids
  BY DEF RoutingOK, Routed, Ledgers
<1>1. Sound(stack) /\ DOMAIN stack.windows = 1 .. Len(stack.windows)
  BY InvSplits DEF Sound, Stack
<1>2. PICK role : <<o, role, TRUE>> \in Kinds(stack)
  BY DEF Decorated
<1>3. Exists(stack, o)
  BY <1>1, <1>2, KindsDecide
<1> QED
  BY <1>3 DEF Ids, Exists

\* A step that leaves the pixels alone and maps no toplevel.
LEMMA RoutedKept ==
  ASSUME Routed, UNCHANGED content,
         \A id : <<id, "NORMAL", FALSE>> \in Kinds(stack') => <<id, "NORMAL", FALSE>> \in Kinds(stack),
         pointer_focus' \in Nat, kbd_focus' \in Nat,
         pc' \in {"input", "lattice", "wayland", "control", "flush"}
  PROVE  Routed'
<1>1. (\A id : <<id, "NORMAL", FALSE>> \in Kinds(stack) => content[id] \in Size)'
  BY Zenon DEF Routed, Kinds, KindOf
<1> QED
  BY <1>1 DEF Routed

\* One window's pixels change, and its size if it has one.
LEMMA RoutedSet ==
  ASSUME Routed, NEW id \in 1..MaxWindowId, NEW sz \in Size \cup {NoSize},
         content' = [content EXCEPT ![id] = sz], UNCHANGED <<pointer_focus, kbd_focus, pc>>,
         \A a : <<a, "NORMAL", FALSE>> \in Kinds(stack') =>
                  \/ a # id /\ <<a, "NORMAL", FALSE>> \in Kinds(stack)
                  \/ a = id /\ sz \in Size
  PROVE  Routed'
<1>1. content' \in [1..MaxWindowId -> Size \cup {NoSize}]
  BY DEF Routed
<1>2. \A a : a # id => content'[a] = content[a]
  BY DEF Routed
<1>3. content'[id] = sz
  BY DEF Routed
<1>4. ASSUME NEW a, <<a, "NORMAL", FALSE>> \in Kinds(stack')
      PROVE  content'[a] \in Size
  BY <1>2, <1>3, <1>4 DEF Routed
<1>5. (\A a : <<a, "NORMAL", FALSE>> \in Kinds(stack) => content[a] \in Size)'
  BY <1>4, Zenon DEF Kinds, KindOf
<1> QED
  BY <1>1, <1>5 DEF Routed

\* The frontend's pointer focus is a window or nothing.
LEMMA PointerTargetIsId ==
  ASSUME NEW s, Sound(s), NEW p \in [x : Int, y : Int]
  PROVE  PointerTarget(s, p) \in Nat
<1>1. window_at(s, p.x, p.y) = 0 \/ Exists(s, window_at(s, p.x, p.y))
  BY WindowAtFinds DEF Sound
<1>2. window_at(s, p.x, p.y) \in Nat
  BY <1>1, WindowIndexFinds DEF Sound
<1> QED
  BY <1>2 DEF PointerTarget

\* A window that goes takes its pixels along.
LEMMA RoutedDestroy ==
  ASSUME Inv, Routed, NEW id \in 1..MaxWindowId, DestroyWindow(id),
         content' = [content EXCEPT ![id] = NoSize], UNCHANGED <<pointer_focus, kbd_focus, pc>>
  PROVE  Routed'
<1>1. Sound(stack) /\ stack' = window_destroy(stack, id)
  BY InvSplits DEF DestroyWindow
<1>2. Kinds(stack') = {k \in Kinds(stack) : k[1] # id}
  BY <1>1, DestroyKinds
<1>3. \A a : <<a, "NORMAL", FALSE>> \in Kinds(stack') =>
               a # id /\ <<a, "NORMAL", FALSE>> \in Kinds(stack)
  BY <1>2
<1>4. NoSize \in Size \cup {NoSize}
  OBVIOUS
<1> QED
  BY <1>3, <1>4, RoutedSet

\* Every step of the loop.
LEMMA NextRouted ==
  Inv /\ Issued /\ Routed /\ [ServerNext]_serverVars => Routed'
<1> SUFFICES ASSUME Inv, Issued, Routed, [ServerNext]_serverVars
             PROVE  Routed'
  OBVIOUS
<1>1. Sound(stack) /\ WordsOK /\ stack.next_id \in Nat \ {0} /\ MaxWindowId \in Nat
  BY InvSplits, RequestsAssumption DEF Sound, Stack
<1>2. /\ pointer_focus \in Nat /\ kbd_focus \in Nat
      /\ pc \in {"input", "lattice", "wayland", "control", "flush"}
  BY DEF Routed
<1>3. CASE Input
  <2>1. CASE OnMotion
    <3>1. Pointer /\ pointer_focus' = PointerTarget(stack', cursor')
          /\ UNCHANGED <<content, kbd_focus, pc>>
      BY <2>1 DEF OnMotion
    <3>2. Sound(stack') /\ cursor' \in [x : Int, y : Int]
      BY <3>1, NextKeeps, InvSplitsNext DEF Next, WordsOK
    <3>3. PointerTarget(stack', cursor') \in Nat
      BY <3>2, PointerTargetIsId
    <3> QED
      BY <1>2, <3>1, <3>3, PointerKinds, RoutedKept
  <2>2. ASSUME NEW left \in BOOLEAN, NEW pressed \in BOOLEAN, OnButton(left, pressed) \/ OnAltTab
        PROVE  Routed'
    <3>1. /\ UNCHANGED <<content, pointer_focus, kbd_focus, pc>>
          /\ PressLeft \/ ReleaseLeft \/ wm_key \/ UNCHANGED stack
      BY <2>2 DEF OnButton, wm_pointer_button, OnAltTab, vars
    <3>2. Kinds(stack') = Kinds(stack)
      BY <3>1, PressLeftKinds, ReleaseLeftKinds, AltTabKinds
    <3> QED
      BY <1>2, <3>1, <3>2, RoutedKept
  <2> QED
    BY <1>3, <2>1, <2>2 DEF Input
<1>4. ASSUME NEW c \in LatticeClients, NEW role \in ClientRoles, NEW r \in ClientRects,
             on_create_window(c, role, r)
      PROVE  Routed'
  <2>1. CreateClientWindow(role, r) /\ UNCHANGED <<content, pointer_focus, kbd_focus, pc>>
    BY <1>4 DEF on_create_window, Lattice, seatVars
  <2>2. \A k \in Kinds(stack') : k \in Kinds(stack) \/ k = <<stack.next_id, role, TRUE>>
    BY <2>1, CreateClientWindowKinds
  <2>3. \A id : <<id, "NORMAL", FALSE>> # <<stack.next_id, role, TRUE>>
    BY Zenon
  <2>4. \A id : <<id, "NORMAL", FALSE>> \in Kinds(stack') => <<id, "NORMAL", FALSE>> \in Kinds(stack)
    BY <2>2, <2>3
  <2> QED
    BY <1>2, <2>1, <2>4, RoutedKept
<1>5. ASSUME NEW sz \in ContentSizes, surface_map(sz)
      PROVE  Routed'
  <2>1. /\ MapToplevel(sz) /\ content' = [content EXCEPT ![stack.next_id] = sz]
        /\ UNCHANGED <<pointer_focus, kbd_focus, pc>>
    BY <1>5 DEF surface_map, Wayland, seatVars
  <2>2. stack.next_id \in 1 .. MaxWindowId
    BY <1>1, <2>1 DEF MapToplevel
  <2>3. sz \in Size
    BY RequestsAssumption
  <2>4. Kinds(stack') = Kinds(stack) \cup {<<stack.next_id, "NORMAL", FALSE>>}
    BY <2>1, MapToplevelKinds
  <2>5. \A a : <<a, "NORMAL", FALSE>> \in Kinds(stack') =>
                 \/ a # stack.next_id /\ <<a, "NORMAL", FALSE>> \in Kinds(stack)
                 \/ a = stack.next_id /\ sz \in Size
    BY <2>3, <2>4
  <2> QED
    BY <2>1, <2>2, <2>3, <2>5, RoutedSet
<1>6. ASSUME NEW id \in 1..MaxWindowId, NEW r \in ClientRects, on_set_geometry(id, r)
      PROVE  Routed'
  <2>1. SetClientGeometry(id, r) /\ UNCHANGED <<content, pointer_focus, kbd_focus, pc>>
    BY <1>6 DEF on_set_geometry, Lattice, seatVars
  <2> QED
    BY <1>2, <2>1, GeometryRequestKinds, RoutedKept
<1>7. ASSUME NEW id \in 1..MaxWindowId, NEW sz \in CommitSizes, on_commit(id, sz)
      PROVE  Routed'
  <2>1. /\ UNCHANGED stack /\ UNCHANGED <<pointer_focus, kbd_focus, pc>>
        /\ content' = [content EXCEPT ![id] = sz]
    BY <1>7 DEF on_commit, Lattice, seatVars, vars
  <2>2. sz \in Size
    BY CommitAssumption
  <2> QED
    BY <2>1, <2>2, RoutedSet
<1>8. ASSUME NEW id \in 1..MaxWindowId, NEW sz \in ContentSizes, surface_update(id, sz)
      PROVE  Routed'
  <2>1. /\ ResizeToplevel(id, sz) /\ UNCHANGED <<pointer_focus, kbd_focus, pc>>
        /\ content' = [content EXCEPT ![id] = sz]
    BY <1>8 DEF surface_update, Wayland, seatVars
  <2>2. sz \in Size /\ Kinds(stack') = Kinds(stack)
    BY <2>1, RequestsAssumption, GeometryRequestKinds
  <2> QED
    BY <2>1, <2>2, RoutedSet
<1>9. ASSUME NEW id \in 1..MaxWindowId,
             on_destroy_window(id) \/ surface_unmap(id) \/ Reap(id)
      PROVE  Routed'
  <2>1. /\ DestroyWindow(id) /\ UNCHANGED <<pointer_focus, kbd_focus, pc>>
        /\ content' = [content EXCEPT ![id] = NoSize]
    BY <1>9 DEF on_destroy_window, surface_unmap, Reap, Lattice, seatVars
  <2> QED
    BY <2>1, RoutedDestroy
<1>10. ASSUME NEW c, client_drop(c) \/ client_reclaim(c) \/ orphan_destroy(c)
       PROVE  Routed'
  <2>1. UNCHANGED <<stack, content, pointer_focus, kbd_focus, pc>>
    BY <1>10 DEF client_drop, client_reclaim, orphan_destroy, Lattice, seatVars, vars
  <2> QED
    BY <1>2, <2>1, RoutedKept
<1>11. CASE Loop
  <2>1. UNCHANGED <<stack, content, pointer_focus>>
    BY <1>11 DEF Loop, EndInput, EndLattice, EndWayland, wl_frontend_keyboard_focus,
       EndIteration, NotifyReconfigured, vars, routing, seatVars
  <2>2. pc' \in {"input", "lattice", "wayland", "control", "flush"}
    BY <1>11 DEF Loop, EndInput, EndLattice, EndWayland, wl_frontend_keyboard_focus,
       EndIteration, Goto
  <2>3. KeyboardTarget \in Nat
    BY <1>1 DEF KeyboardTarget, Sound, Stack
  <2>4. kbd_focus' \in Nat
    BY <1>2, <1>11, <2>3 DEF Loop, EndInput, EndLattice, EndWayland,
       wl_frontend_keyboard_focus, EndIteration, routing, seatVars
  <2> QED
    BY <1>2, <2>1, <2>2, <2>4, RoutedKept
<1>12. ASSUME NEW m \in Modes, control_process(m)
       PROVE  Routed'
  <2>1. SetMode(m) /\ UNCHANGED <<content, pointer_focus, kbd_focus, pc>>
    BY <1>12 DEF control_process, routing, seatVars
  <2> QED
    BY <1>2, <2>1, SetModeKinds, RoutedKept
<1>13. CASE UNCHANGED serverVars
  <2>1. UNCHANGED <<stack, content, pointer_focus, kbd_focus, pc>>
    BY <1>13 DEF serverVars, vars, routing, seatVars
  <2> QED
    BY <1>2, <2>1, RoutedKept
<1> QED
  BY <1>3, <1>4, <1>5, <1>6, <1>7, <1>8, <1>9, <1>10, <1>11, <1>12, <1>13
     DEF ServerNext, Clients

\* Whom a button reaches are windows.
LEMMA ReachesWindows ==
  ASSUME NEW s, Sound(s), NEW p \in [x : Int, y : Int], pointer_focus \in Nat
  PROVE  ButtonReaches(s, p) \subseteq Nat
<1>1. window_at(s, p.x, p.y) = 0 \/ Exists(s, window_at(s, p.x, p.y))
  BY WindowAtFinds DEF Sound
<1>2. window_at(s, p.x, p.y) \in Nat
  BY <1>1, WindowIndexFinds DEF Sound
<1>3. \A e \in transport_pointer_motion(s, p) : e.id = window_at(s, p.x, p.y)
  BY DEF transport_pointer_motion
<1> QED
  BY <1>2, <1>3 DEF ButtonReaches, wl_frontend_pointer_button, transport_pointer_button

\* Every step of the loop.
LEMMA NextLedgers ==
  Inv /\ Routed /\ Ledgers /\ [ServerNext]_serverVars => Ledgers'
<1> SUFFICES ASSUME Inv, Routed, Ledgers, [ServerNext]_serverVars
             PROVE  Ledgers'
  OBVIOUS
<1>1. CASE Input
  <2>1. UNCHANGED owner
    BY <1>1 DEF Input, OnMotion, OnButton, OnAltTab, latticeVars
  <2>2. heard' = {} \/ heard' = ButtonReaches(stack', cursor')
    BY <1>1 DEF Input, OnMotion, OnButton, OnAltTab
  <2>3. ButtonReaches(stack', cursor') \subseteq Nat
    <3>1. Sound(stack') /\ cursor' \in [x : Int, y : Int]
      BY NextKeeps, LoopDrives, InvSplitsNext DEF WordsOK
    <3> QED
      BY <3>1, ReachesWindows DEF Routed
  <2> QED
    BY <2>1, <2>2, <2>3 DEF Ledgers
<1>2. ASSUME NEW c \in LatticeClients,
             \/ \E role \in ClientRoles, r \in ClientRects : on_create_window(c, role, r)
             \/ client_drop(c) \/ client_reclaim(c) \/ orphan_destroy(c)
      PROVE  Ledgers'
  <2>1. UNCHANGED heard
    BY <1>2 DEF on_create_window, client_drop, client_reclaim, orphan_destroy, Lattice, seatVars
  <2>2. owner' = [owner EXCEPT ![stack.next_id] = c] \/ owner' = owner
    BY <1>2 DEF on_create_window, client_drop, client_reclaim, orphan_destroy
  <2> QED
    BY <2>1, <2>2 DEF Ledgers
<1>3. ASSUME NEW id \in 1..MaxWindowId,
             \/ \E r \in ClientRects : on_set_geometry(id, r)
             \/ \E sz \in CommitSizes : on_commit(id, sz)
             \/ \E sz \in ContentSizes : surface_update(id, sz)
             \/ on_destroy_window(id) \/ Reap(id) \/ surface_unmap(id)
      PROVE  Ledgers'
  <2>1. UNCHANGED heard
    BY <1>3 DEF on_set_geometry, on_commit, surface_update, on_destroy_window, Reap,
       surface_unmap, Lattice, Wayland, seatVars
  <2>2. owner' = [owner EXCEPT ![id] = NoClient] \/ owner' = owner
    BY <1>3 DEF on_set_geometry, on_commit, surface_update, on_destroy_window, Reap,
       surface_unmap, Wayland, latticeVars
  <2> QED
    BY <2>1, <2>2 DEF Ledgers
<1>4. CASE \/ \E sz \in ContentSizes : surface_map(sz)
           \/ Loop \/ UNCHANGED serverVars
           \/ \E m \in Modes : control_process(m)
  <2>1. UNCHANGED owner /\ (heard' = heard \/ heard' = {})
    BY <1>4 DEF surface_map, Wayland, Loop, EndInput, EndLattice, EndWayland, EndIteration,
       wl_frontend_keyboard_focus, control_process, serverVars, routing, latticeVars, seatVars
  <2> QED
    BY <2>1 DEF Ledgers
<1> QED
  BY <1>1, <1>2, <1>3, <1>4 DEF ServerNext, Clients

LEMMA RoutedAlways == ServerSpec => [](Inv /\ Issued /\ Decorated /\ Routed /\ Ledgers)
<1>1. ServerInit => Inv /\ Issued /\ Decorated /\ Synced /\ Routed /\ Ledgers
  <2> SUFFICES ASSUME ServerInit
               PROVE  Inv /\ Issued /\ Decorated /\ Synced /\ Routed /\ Ledgers
    OBVIOUS
  <2>1. Inv /\ stack = window_stack_init /\ orphaned = {} /\ dying = {} /\ pc = "input"
    BY InitKeeps DEF ServerInit, Init
  <2>2. Issued
    BY <2>1, RequestsAssumption DEF window_stack_init, Issued
  <2>3. Kinds(stack) = {}
    BY <2>1 DEF window_stack_init, Kinds, Contents
  <2> QED
    BY <2>1, <2>2, <2>3 DEF ServerInit, Decorated, Synced, Routed, Ledgers
<1>2. Inv /\ Issued /\ [ServerNext]_serverVars => Inv' /\ Issued'
  BY LoopDrives, NextKeeps, NextIssued
<1> QED
  BY <1>1, <1>2, RoutingKeeps, NextRouted, NextLedgers, PTL DEF ServerSpec

\* server.c, transport.c orphan_destroy, wayland.c surface_map_or_update: the loop's
\* variables keep their types, and what the transport keeps of a dead client, or has still
\* to destroy, is a window of the stack.
THEOREM RoutingAlwaysOK == ServerSpec => []RoutingOK
BY RoutedAlways, RoutedIsOK, PTL


----------------------------------------------------------------------------
(* What is seen is what is hit.                                            *)

\* No decorated window is lower than its title bar.  Only a snapped one can be, beside a
\* taskbar whose client placed it so that wm_work_area leaves almost nothing.
TitleBarsFit ==
  \A w \in Contents(stack) : window_has_ssd(w) /\ w.snapped => w.h >= DECOR_TITLEBAR_H

\* composite and window_at agree on which window is on top of a pixel.
LEMMA PaintedIsHit ==
  ASSUME Inv, Restoring, TitleBarsFit, NEW w \in Contents(stack), NEW px \in Int, NEW py \in Int
  PROVE  InRect(TitleBar(w), px, py) \/ InRect(Content(w), px, py) <=> InRect(w, px, py)
<1>1. w \in Window /\ (window_has_ssd(w) => w.h >= DECOR_TITLEBAR_H)
  BY InvSplits, ContentsDecide DEF Restoring, Restorable, TitleBarsFit
<1>2. w.x \in Int /\ w.y \in Int /\ w.w \in Int /\ w.h \in Int /\ DECOR_TITLEBAR_H \in Nat
  BY <1>1, TitlebarAssumption DEF Window
<1>3. CASE window_has_ssd(w)
  BY <1>1, <1>2, <1>3 DEF TitleBar, Content, ContentTop, InRect
<1>4. CASE ~window_has_ssd(w)
  BY <1>2, <1>4 DEF TitleBar, Content, ContentTop, InRect
<1> QED
  BY <1>3, <1>4

\* The pixel seen, in terms of the window that is hit.
LEMMA CompositeAt ==
  ASSUME Inv, Restoring, TitleBarsFit, NEW p \in [x : Int, y : Int]
  PROVE  LET hit == window_at(stack, p.x, p.y)
             w   == window_by_id(stack, hit)
         IN  \/ hit = 0 /\ ~Exists(stack, hit) /\ composite(p) = Nothing
             \/ /\ w \in Contents(stack) /\ w.id = hit /\ Exists(stack, hit)
                /\ InRect(w, p.x, p.y)
                /\ composite(p) = IF InRect(Blitted(w), p.x, p.y)
                                  THEN [id |-> hit, x |-> p.x - w.x, y |-> p.y - ContentTop(w)]
                                  ELSE Nothing
<1> DEFINE n    == Len(stack.windows)
           over == {i \in 1 .. n : Paints(stack.windows[i], p)}
           hits == {i \in 1 .. n : InRect(stack.windows[i], p.x, p.y)}
           v    == stack.windows[Max(over)]
           hit  == window_at(stack, p.x, p.y)
<1>1. Sound(stack) /\ n \in Nat /\ DOMAIN stack.windows = 1 .. n /\ p.x \in Int /\ p.y \in Int
  BY InvSplits DEF Sound, Stack
<1>2. \A i \in 1 .. n : stack.windows[i] \in Contents(stack)
  BY DEF Contents
<1>3. over = hits
  BY <1>1, <1>2, PaintedIsHit DEF Paints
<1>4. /\ hit = IF hits = {} THEN 0 ELSE stack.windows[Max(hits)].id
      /\ composite(p) = IF over = {} \/ ~InRect(Blitted(v), p.x, p.y) THEN Nothing
                        ELSE [id |-> v.id, x |-> p.x - v.x, y |-> p.y - ContentTop(v)]
  BY <1>1 DEF window_at, composite
<1>5. ~Exists(stack, 0)
  BY <1>1, WindowIndexFinds DEF Sound
<1>6. CASE over = {}
  BY <1>3, <1>4, <1>5, <1>6
<1>7. CASE over # {}
  <2>1. over \subseteq 1 .. n
    OBVIOUS
  <2>2. Max(over) \in over
    <3> HIDE DEF over, n
    <3> QED
      BY <1>1, <1>7, <2>1, MaxOfPositions
  <2>3. v \in Contents(stack) /\ InRect(v, p.x, p.y)
    BY <1>2, <1>3, <2>2
  <2>4. hit = v.id
    BY <1>3, <1>4, <1>7
  <2>5. Exists(stack, hit) /\ window_by_id(stack, hit) = v
    BY <1>1, <2>3, <2>4, ContentsDecide
  <2>6. composite(p) = IF InRect(Blitted(v), p.x, p.y)
                       THEN [id |-> hit, x |-> p.x - v.x, y |-> p.y - ContentTop(v)]
                       ELSE Nothing
    BY <1>4, <1>7, <2>4
  <2> HIDE DEF v, hit, over
  <2> QED
    BY <2>3, <2>4, <2>5, <2>6 DEF hit
<1> QED
  BY <1>6, <1>7

\* A window the server decorates.
LEMMA SeenWayland ==
  ASSUME Inv, Decorated, Routed, NEW p \in [x : Int, y : Int],
         NEW w \in Contents(stack), w.id = window_at(stack, p.x, p.y), InRect(w, p.x, p.y),
         window_has_ssd(w)
  PROVE  /\ w.id \notin orphaned
         /\ transport_pointer_motion(stack, p) = {}
         /\ wl_frontend_pointer_motion(stack, p) =
              IF InRect(Blitted(w), p.x, p.y)
              THEN {[id |-> w.id, x |-> p.x - w.x, y |-> p.y - ContentTop(w)]}
              ELSE {}
<1> DEFINE b == content[w.id]
           T == DECOR_TITLEBAR_H
<1>1. Sound(stack) /\ w \in Window /\ Exists(stack, w.id) /\ window_by_id(stack, w.id) = w
  BY InvSplits, ContentsDecide
<1>2. IsWayland(stack, w.id) /\ ~w.app_decorated
  BY <1>1 DEF IsWayland, window_has_ssd
<1>3. <<w.id, "NORMAL", FALSE>> \in Kinds(stack)
  BY <1>1, <1>2, TransportsDisjoint
<1>4. b \in Size
  BY <1>3 DEF Routed
<1>5. w.id \notin orphaned
  BY <1>1, <1>2, TransportsDisjoint DEF Decorated
<1>6. transport_pointer_motion(stack, p) = {}
  BY <1>1, <1>2 DEF transport_pointer_motion, IsLattice
<1>7. /\ w.x \in Int /\ w.y \in Int /\ w.w \in Int /\ w.h \in Int /\ T \in Nat
      /\ b.w \in Nat /\ b.h \in Nat /\ p.x \in Int /\ p.y \in Int
      /\ b.w > 0 /\ b.h > 0
  BY <1>1, <1>4, TitlebarAssumption DEF Window, Size
<1>8. /\ Blitted(w).x = w.x /\ Blitted(w).y = w.y + T
      /\ Blitted(w).w = Min({w.w, b.w}) /\ Blitted(w).h = Min({w.h - T, b.h})
  <2>1. b # NoSize
    BY <1>4, CommitAssumption
  <2>2. /\ Content(w).x = w.x /\ Content(w).y = ContentTop(w) /\ Content(w).w = w.w
        /\ Content(w).h = w.h - (ContentTop(w) - w.y)
    BY DEF Content
  <2>3. ContentTop(w) = w.y + T
    BY DEF ContentTop
  <2>4. Content(w).h = w.h - T /\ Content(w).y = w.y + T
    BY <1>7, <2>2, <2>3
  <2>5. Blitted(w) = [Content(w) EXCEPT !.w = Min({@, b.w}), !.h = Min({@, b.h})]
    BY <2>1 DEF Blitted
  <2>6. Content(w) \in [x : Int, y : Int, w : Int, h : Int]
    BY <1>7, <2>3 DEF Content
  <2> QED
    BY <2>2, <2>4, <2>5, <2>6
<1>9. ContentTop(w) = w.y + T
  BY DEF ContentTop
<1>10. InRect(Blitted(w), p.x, p.y) <=>
         p.x - w.x \in 0 .. b.w - 1 /\ p.y - (w.y + T) \in 0 .. b.h - 1
  <2>1. ASSUME NEW m \in Int, NEW k \in Int, m > 0, k > 0
        PROVE  Min({m, k}) = IF m < k THEN m ELSE k
    <3>1. {m, k} \subseteq Nat /\ {m, k} # {}
      BY <2>1
    <3>2. Min({m, k}) \in {m, k} /\ Min({m, k}) <= m /\ Min({m, k}) <= k
      BY <3>1, MinOfNats
    <3> QED
      BY <3>2
  <2>2. w.w > 0 /\ p.x - w.x \in 0 .. w.w - 1 /\ p.y < w.y + w.h /\ w.y <= p.y
    BY <1>7 DEF InRect
  <2>3. Blitted(w).w = IF w.w < b.w THEN w.w ELSE b.w
    BY <1>7, <1>8, <2>1, <2>2
  <2>4. CASE w.h - T > 0
    <3>1. Blitted(w).h = IF w.h - T < b.h THEN w.h - T ELSE b.h
      BY <1>7, <1>8, <2>1, <2>4
    <3> QED
      BY <1>7, <1>8, <2>2, <2>3, <2>4, <3>1 DEF InRect
  <2>5. CASE ~(w.h - T > 0)
    <3>1. ~(p.y - (w.y + T) \in 0 .. b.h - 1)
      BY <1>7, <2>2, <2>5
    <3>2. Min({w.h - T, b.h}) = w.h - T
      BY <1>7, <2>5 DEF Min
    <3> QED
      BY <1>7, <1>8, <2>5, <3>1, <3>2 DEF InRect
  <2> QED
    BY <2>4, <2>5, <1>7
<1>11. PointerTarget(stack, p) = IF InRect(Blitted(w), p.x, p.y) THEN w.id ELSE 0
  BY <1>1, <1>2, <1>10 DEF PointerTarget
<1>12. w.id # 0
  BY <1>1 DEF Window
<1> QED
  BY <1>1, <1>5, <1>6, <1>9, <1>11, <1>12 DEF wl_frontend_pointer_motion


\* A window its client decorates.
LEMMA SeenLattice ==
  ASSUME Inv, Decorated, NEW p \in [x : Int, y : Int],
         NEW w \in Contents(stack), w.id = window_at(stack, p.x, p.y), InRect(w, p.x, p.y),
         ~window_has_ssd(w)
  PROVE  /\ wl_frontend_pointer_motion(stack, p) = {}
         /\ transport_pointer_motion(stack, p) =
              IF w.id \in orphaned THEN {}
              ELSE {[id |-> w.id, x |-> p.x - w.x, y |-> p.y - ContentTop(w)]}
         /\ w.id \notin orphaned /\ ~InRect(Blitted(w), p.x, p.y) => Placeholder(w.id, p)
<1>1. Sound(stack) /\ w \in Window /\ Exists(stack, w.id) /\ window_by_id(stack, w.id) = w
  BY InvSplits, ContentsDecide
<1>2. w.app_decorated
  <2>1. SUFFICES ASSUME w.app_decorated = FALSE
                 PROVE  FALSE
    BY <1>1 DEF Window
  <2>2. KindOf(w) = <<w.id, w.role, FALSE>> /\ KindOf(w) \in Kinds(stack)
    BY <2>1 DEF KindOf, Kinds
  <2>3. w.id \in Nat /\ w.role \in Role
    BY <1>1 DEF Window
  <2>4. w.role = "NORMAL"
    BY <2>2, <2>3, Zenon DEF Decorated
  <2> QED
    BY <2>1, <2>4 DEF window_has_ssd
<1>3. ~IsWayland(stack, w.id) /\ (IsLattice(stack, w.id) <=> w.id \notin orphaned)
  BY <1>1, <1>2 DEF IsWayland, IsLattice
<1>4. /\ w.x \in Int /\ w.y \in Int /\ w.w \in Int /\ w.h \in Int
      /\ p.x \in Int /\ p.y \in Int /\ w.id # 0
  BY <1>1 DEF Window
<1>5. ~Exists(stack, 0)
  BY <1>1, WindowIndexFinds DEF Sound
<1>6. PointerTarget(stack, p) = 0
  BY <1>3 DEF PointerTarget
<1>7. wl_frontend_pointer_motion(stack, p) = {}
  BY <1>6 DEF wl_frontend_pointer_motion
<1>8. ContentTop(w) = w.y /\ win_titlebar(w) = 0 /\ w.y + 0 = w.y /\ p.y - w.y - 0 = p.y - w.y
  BY <1>4 DEF ContentTop, win_titlebar
<1>9. p.y >= w.y
  BY <1>4 DEF InRect
<1>10. transport_pointer_motion(stack, p) =
         IF w.id \in orphaned THEN {}
         ELSE {[id |-> w.id, x |-> p.x - w.x, y |-> p.y - ContentTop(w)]}
  BY <1>1, <1>3, <1>8, <1>9 DEF transport_pointer_motion
<1>11. InRect(Content(w), p.x, p.y)
  <2>1. Content(w) = [x |-> w.x, y |-> w.y, w |-> w.w, h |-> w.h - (w.y - w.y)]
    BY <1>8 DEF Content
  <2> QED
    BY <1>4, <2>1 DEF InRect
<1>12. w.id \notin orphaned /\ ~InRect(Blitted(w), p.x, p.y) => Placeholder(w.id, p)
  BY <1>1, <1>3, <1>11 DEF Placeholder
<1> QED
  BY <1>7, <1>10, <1>12

\* Each pixel of the screen.
LEMMA SeenHits ==
  Inv /\ Restoring /\ Decorated /\ Routed /\ TitleBarsFit => SeenIsHit
<1> SUFFICES ASSUME Inv, Restoring, Decorated, Routed, TitleBarsFit, NEW p \in Pixels
             PROVE  LET seen  == composite(p)
                        hears == wl_frontend_pointer_motion(stack, p)
                                   \cup transport_pointer_motion(stack, p)
                    IN  /\ seen.id \notin orphaned \cup {0} => hears = {seen}
                        /\ seen.id \in orphaned => hears = {}
                        /\ \A e \in hears : Placeholder(e.id, p) \/ e = seen
  BY DEF SeenIsHit
<1> DEFINE hit   == window_at(stack, p.x, p.y)
           w     == window_by_id(stack, hit)
           at    == [id |-> hit, x |-> p.x - w.x, y |-> p.y - ContentTop(w)]
<1>1. p \in [x : Int, y : Int]
  BY InvSplits, ScreenIsSize DEF Pixels, WordsOK
<1>2. 0 \notin orphaned
  <2>1. Sound(stack)
    BY InvSplits
  <2> QED
    BY <2>1, KindsDecide DEF Decorated
<1>3. Nothing.id = 0 /\ at.id = hit
  BY DEF Nothing
<1>4. \/ hit = 0 /\ ~Exists(stack, hit) /\ composite(p) = Nothing
      \/ /\ w \in Contents(stack) /\ w.id = hit /\ InRect(w, p.x, p.y)
         /\ composite(p) = IF InRect(Blitted(w), p.x, p.y) THEN at ELSE Nothing
  BY <1>1, CompositeAt
<1>5. CASE hit = 0 /\ ~Exists(stack, hit) /\ composite(p) = Nothing
  <2>1. wl_frontend_pointer_motion(stack, p) = {} /\ transport_pointer_motion(stack, p) = {}
    BY <1>5 DEF wl_frontend_pointer_motion, PointerTarget, IsWayland,
       transport_pointer_motion, IsLattice
  <2> QED
    BY <1>2, <1>3, <1>5, <2>1
<1> HIDE DEF at, w, hit
<1>6. ASSUME w \in Contents(stack), w.id = hit, InRect(w, p.x, p.y), window_has_ssd(w),
             composite(p) = IF InRect(Blitted(w), p.x, p.y) THEN at ELSE Nothing
      PROVE  LET seen  == composite(p)
                 hears == wl_frontend_pointer_motion(stack, p)
                            \cup transport_pointer_motion(stack, p)
             IN  /\ seen.id \notin orphaned \cup {0} => hears = {seen}
                 /\ seen.id \in orphaned => hears = {}
                 /\ \A e \in hears : Placeholder(e.id, p) \/ e = seen
  <2>1. /\ hit \notin orphaned
        /\ transport_pointer_motion(stack, p) = {}
        /\ wl_frontend_pointer_motion(stack, p) =
             IF InRect(Blitted(w), p.x, p.y) THEN {at} ELSE {}
    BY <1>1, <1>6, SeenWayland DEF hit, at
  <2> QED
    BY <1>2, <1>3, <1>6, <2>1
<1>7. ASSUME w \in Contents(stack), w.id = hit, InRect(w, p.x, p.y), ~window_has_ssd(w),
             composite(p) = IF InRect(Blitted(w), p.x, p.y) THEN at ELSE Nothing
      PROVE  LET seen  == composite(p)
                 hears == wl_frontend_pointer_motion(stack, p)
                            \cup transport_pointer_motion(stack, p)
             IN  /\ seen.id \notin orphaned \cup {0} => hears = {seen}
                 /\ seen.id \in orphaned => hears = {}
                 /\ \A e \in hears : Placeholder(e.id, p) \/ e = seen
  <2>1. /\ wl_frontend_pointer_motion(stack, p) = {}
        /\ transport_pointer_motion(stack, p) = IF hit \in orphaned THEN {} ELSE {at}
        /\ hit \notin orphaned /\ ~InRect(Blitted(w), p.x, p.y) => Placeholder(hit, p)
    BY <1>1, <1>7, SeenLattice DEF hit, at
  <2> QED
    BY <1>2, <1>3, <1>7, <2>1
<1> QED
  BY <1>4, <1>5, <1>6, <1>7

\* transport.c "The client buffer's top-left maps to (w->x, w->y + titlebar)": for every
\* overlap, drag, resize and screen a motion reaches the client whose pixel is seen there,
\* at that pixel of its buffer, and no other, as long as no title bar hangs out of its
\* window; then it is drawn over a window that input still goes to.
THEOREM SeenIsAlwaysHit == ServerSpec => [](TitleBarsFit => SeenIsHit)
<1>1. ServerSpec => []Restoring
  <2>1. Init => Inv /\ Restoring
    BY InitKeeps DEF Init, window_stack_init, Restoring, Contents
  <2> QED
    BY <2>1, NextKeeps, NextRestoring, DrivesWindowManager, PTL DEF Spec
<1>2. Inv /\ Restoring /\ Decorated /\ Routed => (TitleBarsFit => SeenIsHit)
  BY SeenHits
<1> QED
  BY <1>1, <1>2, RoutedAlways, PTL


----------------------------------------------------------------------------
(* Whom a press reaches.                                                   *)

\* apply_mode_cb clamps the cursor, so it is on the screen whatever the modes.
LEMMA NextOnScreen == Inv /\ OnScreen(cursor, screen) /\ [Next]_vars => OnScreen(cursor, screen)'
<1> SUFFICES ASSUME Inv, OnScreen(cursor, screen), [Next]_vars
             PROVE  OnScreen(cursor', screen')
  BY DEF OnScreen
<1>1. CASE Pointer
  BY <1>1, PointerIsMotion, MoveCursorContents DEF OnScreen
<1>2. ASSUME NEW m \in Modes, SetMode(m)
      PROVE  OnScreen(cursor', screen')
  <2>1. m.w \in Nat /\ m.h \in Nat /\ m.w > 0 /\ m.h > 0
    BY ScreenIsSize
  <2>2. cursor.x \in Nat /\ cursor.y \in Nat
    BY InvSplits, ScreenIsSize DEF OnScreen, WordsOK
  <2>3. /\ screen' = m
        /\ cursor'.x = IF cursor.x >= m.w THEN m.w - 1 ELSE cursor.x
        /\ cursor'.y = IF cursor.y >= m.h THEN m.h - 1 ELSE cursor.y
    BY <1>2 DEF SetMode
  <2> QED
    BY <2>1, <2>2, <2>3 DEF OnScreen
<1>3. CASE ~Pointer /\ ~\E m \in Modes : SetMode(m)
  <2>1. UNCHANGED <<screen, cursor>>
    BY <1>3, PressLeftContents, ReleaseLeftContents DEF Next, Requests, wm_key,
       NotifyReconfigured, CreateClientWindow, SetClientGeometry, MapToplevel,
       ResizeToplevel, DestroyWindow, vars
  <2> QED
    BY <2>1
<1> QED
  BY <1>1, <1>2, <1>3

\* A window still under the cursor is hit once it is focused, resized or not.
LEMMA FocusedIsHit ==
  ASSUME NEW s, Sound(s), NEW gx \in Int, NEW gy \in Int, NEW id, Exists(s, id),
         window_by_id(s, id).role # "DESKTOP",
         NEW t, Sound(t), SameShape(window_focus(s, id), t), InRect(window_by_id(t, id), gx, gy)
  PROVE  window_at(t, gx, gy) = id
<1> DEFINE f == window_focus(s, id)
           n == Len(t.windows)
<1>1. Sound(f)
  BY FocusSound
<1>2. f.windows # << >> /\ f.windows[Len(f.windows)] = window_by_id(s, id)
  BY FocusedOnTop
<1>3. window_by_id(s, id).id = id
  BY WindowIndexFinds DEF Sound
<1> HIDE DEF f
<1>4. Len(f.windows) \in Nat /\ Len(f.windows) > 0 /\ n = Len(f.windows)
  <2>1. f.windows \in Seq(Window)
    BY <1>1 DEF Sound, Stack
  <2> QED
    BY <1>2, <2>1 DEF SameShape, f
<1>5. t.windows[n].id = id
  BY <1>2, <1>3, <1>4 DEF SameShape, f
<1>6. t.windows[n] \in Contents(t) /\ t.windows # << >>
  <2>1. t.windows \in Seq(Window)
    BY DEF Sound, Stack
  <2> QED
    BY <1>4, <2>1 DEF Contents
<1>7. window_by_id(t, id) = t.windows[n]
  BY <1>5, <1>6, ContentsDecide
<1> QED
  BY <1>5, <1>6, <1>7, TopHits DEF Sound

\* A press that finds no handle focuses and does nothing else.
LEMMA PressLeftPasses ==
  ASSUME Inv, PressLeft,
         ~OnHandle(window_by_id(stack, window_at(stack, cursor.x, cursor.y)))
  PROVE  stack' = window_focus(stack, window_at(stack, cursor.x, cursor.y))
<1> DEFINE id == window_at(stack, cursor.x, cursor.y)
           s1 == window_focus(stack, id)
<1>1. Sound(stack) /\ Exists(stack, id)
  BY InvSplits, PressLeftShape
<1>2. Sound(s1) /\ Contents(s1) = Contents(stack)
  BY <1>1, FocusSound, FocusContents
<1>3. stack' = s1 \/ OnHandle(window_by_id(s1, id))
  BY DEF PressLeft
<1> HIDE DEF s1, id
<1>4. window_by_id(s1, id) = window_by_id(stack, id)
  BY <1>1, <1>2, ContentsDecide
<1> QED
  BY <1>3, <1>4 DEF s1, id

\* The window hit is the one the press focuses, and stays under the cursor.
LEMMA PressHits ==
  ASSUME Inv, Restoring, OnScreen(cursor, screen), PressLeft
  PROVE  LET hit == window_at(stack, cursor.x, cursor.y)
         IN  /\ Exists(stack, hit) /\ stack'.focus_id = hit
             /\ window_at(stack', cursor.x, cursor.y) = hit
             /\ UNCHANGED cursor
             /\ ~moving /\ moving' => OnHandle(window_by_id(stack, hit))
<1> DEFINE hit == window_at(stack, cursor.x, cursor.y)
           cx  == cursor.x
           cy  == cursor.y
           z   == window_by_id(stack, hit)
<1>1. WordsOK /\ Sound(stack) /\ Sound(stack') /\ cx \in Int /\ cy \in Int
  <2>1. WordsOK /\ Sound(stack) /\ Sound(stack')
    BY InvSplits, NextKeeps, InvSplitsNext DEF Next
  <2> QED
    BY <2>1 DEF WordsOK
<1>2. UNCHANGED cursor /\ Exists(stack, hit) /\ SameShape(window_focus(stack, hit), stack')
  BY PressLeftContents, PressLeftShape
<1>3. hit # 0 /\ stack'.focus_id = hit
  BY <1>1, <1>2, FocusSound, WindowIndexFinds DEF SameShape, Sound
<1>4. InRect(z, cx, cy) /\ z \in Contents(stack) /\ z.id = hit
  BY <1>1, <1>3, WindowAtHits, ContentsDecide DEF Sound
<1>5. \A w \in Contents(stack) : w.id = hit => w = z
  BY <1>1, <1>4, ContentsDecide
<1>6. \/ Contents(stack') = Contents(stack) /\ UNCHANGED drag
      \/ \E w \in Contents(stack) :
           w.id = hit /\ OnHandle(w) /\ Contents(stack') = Contents(stack)
      \/ \E w \in Contents(stack), v \in Window :
           /\ w.id = hit /\ OnHandle(w) /\ w.snapped
           /\ SameButRect([w EXCEPT !.snapped = FALSE], v)
           /\ v.x = Unsnapped(w).x /\ v.y = Unsnapped(w).y
           /\ v.w = IF Unsnapped(w).w > 0 THEN Unsnapped(w).w ELSE w.w
           /\ v.h = IF Unsnapped(w).h > 0 THEN Unsnapped(w).h ELSE w.h
           /\ Swapped(stack, stack', w, v)
  BY PressLeftContents
<1>7. ~moving /\ moving' => OnHandle(z)
  BY <1>5, <1>6 DEF drag
<1> HIDE DEF hit, z, cx, cy
<1>8. CASE Contents(stack') = Contents(stack)
  <2>1. window_by_id(stack', hit) = z
    BY <1>1, <1>4, <1>8, ContentsDecide
  <2>2. CASE z.role # "DESKTOP"
    BY <1>1, <1>2, <1>3, <1>4, <1>7, <2>1, <2>2, FocusedIsHit DEF z, hit, cx, cy
  <2>3. CASE z.role = "DESKTOP"
    <3>1. ~OnHandle(z)
      BY <2>3 DEF OnHandle, window_has_ssd
    <3>2. stack' = window_focus(stack, hit)
      BY <3>1, <1>5, PressLeftPasses DEF hit, z
    <3>3. stack'.windows = stack.windows
      <4>1. window_focus(stack, hit) = [stack EXCEPT !.focus_id = hit]
        BY <1>2, <2>3 DEF window_focus, z
      <4>2. stack \in Stack
        BY <1>1 DEF Sound
      <4> QED
        BY <3>2, <4>1, <4>2, OneField
    <3>4. window_at(stack', cx, cy) = window_at(stack, cx, cy)
      BY <3>3 DEF window_at
    <3> QED
      BY <1>2, <1>3, <1>7, <3>4 DEF hit, z, cx, cy
  <2> QED
    BY <2>2, <2>3
<1>9. ASSUME NEW v \in Window, OnHandle(z), z.snapped,
             SameButRect([z EXCEPT !.snapped = FALSE], v),
             v.x = Unsnapped(z).x, v.y = Unsnapped(z).y,
             v.w = IF Unsnapped(z).w > 0 THEN Unsnapped(z).w ELSE z.w,
             v.h = IF Unsnapped(z).h > 0 THEN Unsnapped(z).h ELSE z.h,
             Swapped(stack, stack', z, v)
      PROVE  window_at(stack', cx, cy) = hit
  <2>1. z \in Window /\ z.saved.w > 0 /\ z.saved.h >= DECOR_TITLEBAR_H
    BY <1>1, <1>4, <1>9, ContentsDecide DEF Restoring, Restorable
  <2>2. v.id = hit /\ v \in Contents(stack') /\ z.role = "NORMAL"
    BY <1>4, <1>9, <2>1 DEF SameButRect, Window, Swapped, OnHandle, window_has_ssd
  <2>3. window_by_id(stack', hit) = v
    BY <1>1, <2>2, ContentsDecide
  <2>4. /\ Unsnapped(z).x <= cx /\ cx < Unsnapped(z).x + z.saved.w
        /\ Unsnapped(z).y <= cy /\ cy - Unsnapped(z).y < DECOR_TITLEBAR_H
        /\ Unsnapped(z) \in Rect
    BY <2>1, UnsnappedUnderPointer DEF cx, cy
  <2>5. z.saved.w \in Int /\ z.saved.h \in Int /\ z.saved.h > 0
    BY <2>1, TitlebarAssumption DEF Window, Rect
  <2>6. v.w = z.saved.w /\ v.h = z.saved.h
    BY <1>9, <2>1, <2>5 DEF Unsnapped
  <2>7. InRect(v, cx, cy)
    BY <1>1, <1>9, <2>1, <2>4, <2>5, <2>6, TitlebarAssumption DEF InRect, Rect
  <2> QED
    BY <1>1, <1>2, <2>2, <2>3, <2>7, FocusedIsHit DEF z
<1> QED
  BY <1>2, <1>3, <1>5, <1>6, <1>7, <1>8, <1>9 DEF z, hit, cx, cy

\* From the state a motion left, a press of the left button.
LEMMA PressReaches ==
  ASSUME Inv, Restoring, OnScreen(cursor, screen), Routed, PointerFresh, PressLeft
  PROVE  LET hit == window_at(stack, cursor.x, cursor.y)
         IN  /\ stack'.focus_id = hit
             /\ ButtonReaches(stack', cursor') \subseteq {hit}
             /\ ~moving /\ moving' => ButtonReaches(stack', cursor') = {}
<1> DEFINE hit == window_at(stack, cursor.x, cursor.y)
<1>1. /\ Exists(stack, hit) /\ stack'.focus_id = hit
      /\ window_at(stack', cursor.x, cursor.y) = hit
      /\ UNCHANGED cursor
      /\ ~moving /\ moving' => OnHandle(window_by_id(stack, hit))
  BY PressHits
<1>2. Sound(stack) /\ Sound(stack')
  BY InvSplits, NextKeeps, InvSplitsNext DEF Next
<1>3. pointer_focus \in {0, hit}
  BY DEF PointerFresh, PointerTarget
<1>4. ~IsWayland(stack', 0)
  BY <1>2, WindowIndexFinds DEF IsWayland, Sound
<1>5. \/ transport_pointer_motion(stack', cursor) = {}
      \/ /\ IsLattice(stack', hit)
         /\ \A e \in transport_pointer_motion(stack', cursor) : e.id = hit
  BY <1>1 DEF transport_pointer_motion
<1>6. transport_pointer_button(stack', cursor) \subseteq {hit}
  BY <1>5 DEF transport_pointer_button
<1>7. wl_frontend_pointer_button(stack') \subseteq {hit}
  BY <1>3, <1>4 DEF wl_frontend_pointer_button
<1>8. ASSUME ~moving, moving'
      PROVE  ButtonReaches(stack', cursor) = {}
  <2>1. OnHandle(window_by_id(stack, hit))
    BY <1>1, <1>8
  <2>2. <<hit, "NORMAL", FALSE>> \in Kinds(stack)
    BY <1>1, <1>2, <2>1, TransportsDisjoint DEF OnHandle, IsWayland
  <2>3. <<hit, "NORMAL", FALSE>> \in Kinds(stack')
    BY <2>2, PressLeftKinds
  <2>4. window_by_id(stack', hit).app_decorated = FALSE
    BY <1>2, <2>3, KindsDecide
  <2>5. transport_pointer_button(stack', cursor) = {}
    BY <1>5, <2>4 DEF transport_pointer_button, IsLattice
  <2>6. pointer_focus = 0
    <3>1. content[hit] \in Size
      BY <2>2 DEF Routed
    <3>2. window_by_id(stack, hit) \in Window /\ cursor.y \in Int
      BY <1>1, <1>2, InvSplits, WindowIndexFinds DEF Sound, WordsOK
    <3>3. window_by_id(stack, hit).y \in Int
      BY <3>2 DEF Window
    <3>4. cursor.y - (window_by_id(stack, hit).y + DECOR_TITLEBAR_H)
            \notin 0 .. content[hit].h - 1
      BY <2>1, <3>1, <3>2, <3>3, TitlebarAssumption DEF OnHandle, Size
    <3> QED
      BY <3>4 DEF PointerFresh, PointerTarget
  <2>7. wl_frontend_pointer_button(stack') = {}
    BY <1>4, <2>6 DEF wl_frontend_pointer_button
  <2> QED
    BY <2>5, <2>7 DEF ButtonReaches
<1> QED
  BY <1>1, <1>6, <1>7, <1>8 DEF ButtonReaches

\* A button the window manager makes nothing of reaches the window under the cursor.
LEMMA OtherPressReaches ==
  ASSUME Inv, PointerFresh
  PROVE  ButtonReaches(stack, cursor) \subseteq {window_at(stack, cursor.x, cursor.y)} \ {0}
<1> DEFINE hit == window_at(stack, cursor.x, cursor.y)
<1>1. pointer_focus \in {0, hit}
  BY DEF PointerFresh, PointerTarget
<1>2. ~Exists(stack, 0)
  BY InvSplits, WindowIndexFinds DEF Sound
<1>3. wl_frontend_pointer_button(stack) \subseteq {hit} \ {0}
  BY <1>1, <1>2 DEF wl_frontend_pointer_button, IsWayland
<1>4. transport_pointer_button(stack, cursor) \subseteq {hit} \ {0}
  BY <1>2 DEF transport_pointer_button, transport_pointer_motion, IsLattice
<1> QED
  BY <1>3, <1>4 DEF ButtonReaches

\* server.c on_input forwards every button after the window manager has seen it: on every
\* screen and for every set of clients a press reaches at most the window that was under
\* the cursor, a left one at most the window it focuses, of whichever transport, and nobody
\* when it starts a drag.
THEOREM PressAlwaysReachesHit == ServerSpec => PressReachesHit
<1>1. ServerSpec => [](Restoring /\ OnScreen(cursor, screen))
  <2>1. Init => Inv /\ Restoring /\ OnScreen(cursor, screen)
    <3>1. ASSUME NEW n \in Nat, n > 0
          PROVE  n \div 2 \in 0 .. n - 1
      BY <3>1
    <3>2. BootMode.w \in Nat /\ BootMode.h \in Nat /\ BootMode.w > 0 /\ BootMode.h > 0
      BY ScreenIsSize, ModesAssumption
    <3> QED
      BY <3>1, <3>2, InitKeeps DEF Init, window_stack_init, Restoring, Contents, OnScreen
  <2> QED
    BY <2>1, NextKeeps, NextRestoring, NextOnScreen, DrivesWindowManager, PTL DEF Spec
<1>2. ASSUME Inv, Routed, Restoring, OnScreen(cursor, screen), PointerFresh,
             NEW left \in BOOLEAN, OnButton(left, TRUE)
      PROVE  /\ heard' \subseteq {window_at(stack, cursor.x, cursor.y)}
             /\ left => heard' \subseteq {stack'.focus_id}
             /\ ~moving /\ moving' => heard' = {}
  <2>1. heard' = ButtonReaches(stack', cursor')
    BY <1>2 DEF OnButton
  <2>2. CASE left /\ PressLeft
    BY <1>2, <2>1, <2>2, PressReaches
  <2>3. CASE /\ ~left \/ window_at(stack, cursor.x, cursor.y) = 0
             /\ UNCHANGED vars
    <3>1. stack' = stack /\ cursor' = cursor /\ moving' = moving
      BY <2>3 DEF vars
    <3>2. heard' \subseteq {window_at(stack, cursor.x, cursor.y)} \ {0}
      BY <1>2, <2>1, <3>1, OtherPressReaches
    <3> QED
      BY <2>3, <3>1, <3>2
  <2> QED
    BY <1>2, <2>2, <2>3 DEF OnButton, wm_pointer_button
<1>3. ASSUME Inv, Routed, Restoring, OnScreen(cursor, screen), [ServerNext]_serverVars
      PROVE  [\A left \in BOOLEAN : OnButton(left, TRUE) /\ PointerFresh =>
                /\ heard' \subseteq {window_at(stack, cursor.x, cursor.y)}
                /\ left => heard' \subseteq {stack'.focus_id}
                /\ ~moving /\ moving' => heard' = {}]_serverVars
  BY <1>2, <1>3
<1> QED
  BY <1>1, <1>3, RoutedAlways, PTL DEF ServerSpec, PressReachesHit
=============================================================================
