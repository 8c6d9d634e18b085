---------------------------- MODULE WaylandProofs ----------------------------
(***************************************************************************)
(* The Wayland frontend for any number of clients, surfaces and windows,   *)
(* any buffers and any title bar: types, one window per mapped toplevel    *)
(* with the pixels its surface holds, repaints, and who was told of the    *)
(* focus.                                                                  *)
(***************************************************************************)
EXTENDS Wayland, WindowStackProofs, FiniteSetTheorems

\* The words beside the stack.
Words ==
  /\ surf \in [Surfaces -> Surface]
  /\ objects \in [Surfaces -> SUBSET Object]
  /\ handshake \in [Surfaces -> {"none", "new", "waiting", "configured"}]
  /\ bound \subseteq Clients /\ dying \subseteq Clients
  /\ pointer_focus \in Nat /\ kbd_focus \in Nat
  /\ pointer_told \in [Clients -> SUBSET Nat]
  /\ keyboard_told \in [Clients -> SUBSET Nat]
  /\ cascade \in 0 .. Len(Cascade) - 1
  /\ fe_dirty \in BOOLEAN /\ dirty \in BOOLEAN /\ current \in BOOLEAN
  /\ cursor \in Points
  /\ pc \in {"frame", "input", "dispatch", "sync", "flush"}

\* The inductive invariant for the types: a stack returns stacks only if it is sound.
Typed == Words /\ Sound(stack)

LEMMA TypedIsTypeOK == Typed => TypeOK
  BY DEF Typed, Words, Sound, TypeOK

----------------------------------------------------------------------------
(* The windows of a stack as the frontend knows them: id and pixels.       *)

Bufs(s) == {<<w.id, w.buf>> : w \in Contents(s)}

\* A window is found by its id, and has one buffer.
LEMMA BufsDecide ==
  ASSUME NEW s, Sound(s), NEW id
  PROVE  /\ Exists(s, id) => <<id, window_by_id(s, id).buf>> \in Bufs(s)
         /\ \A b : <<id, b>> \in Bufs(s) =>
              /\ Exists(s, id) /\ window_by_id(s, id).buf = b
              /\ id \in Nat \ {0} /\ id < s.next_id /\ b \in Nat
<1>1. ASSUME NEW b, <<id, b>> \in Bufs(s)
      PROVE  /\ Exists(s, id) /\ window_by_id(s, id).buf = b
             /\ id \in Nat \ {0} /\ id < s.next_id /\ b \in Nat
  <2>1. PICK v \in Contents(s) : <<id, b>> = <<v.id, v.buf>>
    BY <1>1 DEF Bufs
  <2> QED
    BY <2>1, ContentsDecide DEF Window
<1> QED
  BY <1>1, ContentsDecide DEF Bufs

\* window_focus.
LEMMA FocusBufs ==
  ASSUME NEW s, Sound(s), NEW id
  PROVE  Bufs(window_focus(s, id)) = Bufs(s)
  BY FocusContents DEF Bufs

\* window_focus_cycle.
LEMMA CycleBufs ==
  ASSUME NEW s, Sound(s), NEW dir \in {-1, 1}
  PROVE  Bufs(window_focus_cycle(s, dir)) = Bufs(s)
  BY CycleFocuses, FocusBufs

\* Replacing a window in place.
LEMMA UpdateBufs ==
  ASSUME NEW s, Sound(s), NEW id, Exists(s, id), NEW w \in Window, w.id = id
  PROVE  /\ \A p \in Bufs(Update(s, id, w)) : p = <<id, w.buf>> \/ (p \in Bufs(s) /\ p[1] # id)
         /\ <<id, w.buf>> \in Bufs(Update(s, id, w))
         /\ \A p \in Bufs(s) : p[1] # id => p \in Bufs(Update(s, id, w))
<1> DEFINE old == window_by_id(s, id)
           t   == Update(s, id, w)
<1>1. Contents(t) = (Contents(s) \ {old}) \cup {w}
  BY UpdateContents
<1>2. old.id = id /\ \A v \in Contents(s) : v.id = id => v = old
  BY ContentsDecide
<1> HIDE DEF old, t
<1> QED
  BY <1>1, <1>2 DEF Bufs, t

\* Drags and snaps move and resize.
LEMMA SetGeometryBufs ==
  ASSUME NEW s, Sound(s), NEW id, NEW r \in Rect
  PROVE  Bufs(window_set_geometry(s, id, r)) = Bufs(s)
<1>1. CASE ~Exists(s, id)
  BY <1>1 DEF window_set_geometry
<1>2. CASE Exists(s, id)
  <2> DEFINE w == window_by_id(s, id)
             t == window_set_geometry(s, id, r)
  <2>1. PICK v : SameButRect(w, v) /\ Contents(t) = (Contents(s) \ {w}) \cup {v}
    BY <1>2, GeometryContents DEF Swapped
  <2>2. w \in Contents(s) /\ v.id = w.id /\ v.buf = w.buf
    BY <1>2, <2>1, ContentsDecide DEF SameButRect
  <2> HIDE DEF w, t
  <2> QED
    BY <2>1, <2>2 DEF Bufs, t
<1> QED
  BY <1>1, <1>2

\* window_create.
LEMMA CreateBufs ==
  ASSUME NEW s, Sound(s), ~IsFull(s), NEW role \in Role, NEW r \in Rect
  PROVE  /\ Bufs(window_create(s, role, r)) = Bufs(s) \cup {<<s.next_id, 0>>}
         /\ Exists(window_create(s, role, r), s.next_id)
<1> DEFINE t  == window_create(s, role, r)
           nw == NewWindow(s.next_id, role, r)
<1>1. nw.id = s.next_id /\ nw.buf = 0
  BY DEF NewWindow
<1>2. Contents(t) = Contents(s) \cup {nw} /\ Exists(t, s.next_id)
  BY CreateContents
<1> HIDE DEF t, nw
<1>3. Bufs(t) = Bufs(s) \cup {<<nw.id, nw.buf>>}
  BY <1>2 DEF Bufs
<1> QED
  BY <1>1, <1>2, <1>3 DEF t

\* window_destroy.
LEMMA DestroyBufs ==
  ASSUME NEW s, Sound(s), NEW id
  PROVE  Bufs(window_destroy(s, id)) = {p \in Bufs(s) : p[1] # id}
  BY DestroyContents DEF Bufs

----------------------------------------------------------------------------
(* What the steps do to the stack.                                         *)

\* wm.c.
LEMMA AfterWmKeeps ==
  ASSUME NEW s, Sound(s), NEW t \in AfterWm(s)
  PROVE  Sound(t) /\ t.next_id = s.next_id /\ Bufs(t) = Bufs(s)
<1>1. CASE t = s
  BY <1>1
<1>2. CASE \E r \in WmRects : t = window_set_geometry(s, s.focus_id, r)
  BY <1>2, WmRectsAssumption, SetGeometrySound, SetGeometryBufs
<1> QED
  BY <1>1, <1>2 DEF AfterWm

LEMMA FocusingKeeps ==
  ASSUME NEW s, Sound(s), NEW t \in Focusing(s)
  PROVE  Sound(t) /\ t.next_id = s.next_id /\ Bufs(t) = Bufs(s)
<1>1. 1 \in {-1, 1} /\ -1 \in {-1, 1}
  OBVIOUS
<1>2. CASE t = window_focus(s, window_at(s, cursor.x, cursor.y))
  BY <1>2, FocusSound, FocusBufs
<1>3. CASE t = window_focus_cycle(s, 1)
  BY <1>1, <1>3, CycleSound, CycleBufs
<1>4. CASE t = window_focus_cycle(s, -1)
  BY <1>1, <1>4, CycleSound, CycleBufs
<1> QED
  BY <1>2, <1>3, <1>4 DEF Focusing

\* A copy of pixels has an address, which is not 0.
LEMMA FreshIsAddress ==
  ASSUME Words
  PROVE  Fresh \in Nat \ {0}
<1> DEFINE n    == Cardinality(Surfaces)
           f    == [s \in Surfaces |-> surf[s].content]
           free == (1 .. n + 1) \ Heap
<1>1. IsFiniteSet(Surfaces) /\ n \in Nat
  BY SurfacesAssumption, FS_CardinalityType
<1>2. f \in Surjection(Surfaces, Heap)
  BY DEF Surjection, Heap
<1>3. IsFiniteSet(Heap) /\ Cardinality(Heap) \in Nat /\ Cardinality(Heap) <= n
  BY <1>1, <1>2, FS_Surjection, FS_CardinalityType
<1>4. Cardinality(1 .. n + 1) = n + 1
  BY <1>1, FS_Interval
<1> HIDE DEF n
<1>5. ~(1 .. n + 1 \subseteq Heap)
  <2>1. 1 .. n + 1 \in SUBSET Heap => Cardinality(1 .. n + 1) <= Cardinality(Heap)
    BY <1>3, FS_Subset
  <2> QED
    BY <1>1, <1>3, <1>4, <2>1
<1>6. free # {} /\ free \subseteq Nat \ {0} /\ free \subseteq Nat
  BY <1>1, <1>5
<1> HIDE DEF free
<1>7. Min(free) \in free
  BY <1>6, MinOfNats
<1> QED
  BY <1>6, <1>7 DEF Fresh, free, n


\* A new window of a surface, with its pixels.
LEMMA MappedKeeps ==
  ASSUME Typed, ~IsFull(stack), NEW r \in Surface
  PROVE  /\ Sound(Mapped(r)) /\ Mapped(r).next_id = stack.next_id + 1
         /\ \A p \in Bufs(Mapped(r)) : p = <<stack.next_id, r.content>> \/ p \in Bufs(stack)
         /\ <<stack.next_id, r.content>> \in Bufs(Mapped(r))
         /\ Bufs(stack) \subseteq Bufs(Mapped(r))
<1> DEFINE id == stack.next_id
           st == window_create(stack, "NORMAL", MapRect(r))
           w  == window_by_id(st, id)
           v  == [w EXCEPT !.buf = r.content]
           su == Update(st, id, v)
<1>1. MapRect(r) \in Rect
  <2>1. cascade + 1 \in 1 .. Len(Cascade)
    BY CascadeAssumption DEF Typed, Words
  <2> DEFINE Place == [x : Int, y : Int]
  <2>2. Cascade \in Seq(Place)
    BY CascadeAssumption
  <2> HIDE DEF Place
  <2>3. Cascade[cascade + 1] \in Place
    BY <2>1, <2>2
  <2>4. Cascade[cascade + 1].x \in Int /\ Cascade[cascade + 1].y \in Int
    BY <2>3 DEF Place
  <2>5. r.cw \in Int /\ r.ch + DECOR_TITLEBAR_H \in Int
    BY TitlebarAssumption DEF Surface
  <2> QED
    BY <2>4, <2>5 DEF MapRect, Rect
<1>2. "NORMAL" \in Role /\ Sound(stack) /\ id \in Nat
  BY DEF Role, Typed, Sound, Stack
<1>3. /\ Sound(st) /\ st.next_id = id + 1
      /\ Bufs(st) = Bufs(stack) \cup {<<id, 0>>} /\ Exists(st, id)
  BY <1>1, <1>2, CreateSound, CreateBufs
<1> HIDE DEF st
<1>4. w \in Window /\ w.id = id
  BY <1>3, WindowIndexFinds DEF Sound
<1>5. v \in Window /\ v.id = id /\ v.buf = r.content
  BY <1>4 DEF Window, Surface
<1> HIDE DEF w, v
<1>6. Sound(su) /\ su.next_id = id + 1
  BY <1>3, <1>5, UpdateSound
<1>7. /\ \A p \in Bufs(su) : p = <<id, r.content>> \/ (p \in Bufs(st) /\ p[1] # id)
      /\ <<id, r.content>> \in Bufs(su)
      /\ \A p \in Bufs(st) : p[1] # id => p \in Bufs(su)
  BY <1>3, <1>5, UpdateBufs
<1>8. \A p \in Bufs(stack) : p[1] # id
  <2>1. ASSUME NEW p \in Bufs(stack) PROVE p[1] # id
    <3>1. PICK u \in Contents(stack) : p = <<u.id, u.buf>>
      BY DEF Bufs
    <3> QED
      BY <1>2, <3>1, ContentsDecide DEF Window
  <2> QED
    BY <2>1
<1> HIDE DEF su
<1>9. Mapped(r) = window_focus(su, id)
  BY DEF Mapped, su, st, v, w
<1>10. /\ Sound(window_focus(su, id)) /\ window_focus(su, id).next_id = su.next_id
       /\ Bufs(window_focus(su, id)) = Bufs(su)
  BY <1>6, FocusSound, FocusBufs
<1> HIDE DEF id
<1>11. /\ \A p \in Bufs(su) : p = <<id, r.content>> \/ p \in Bufs(stack)
       /\ Bufs(stack) \subseteq Bufs(su)
  BY <1>3, <1>7, <1>8
<1> QED
  BY <1>6, <1>7, <1>9, <1>10, <1>11 DEF id

\* The window of a surface with another copy.
LEMMA ShownKeeps ==
  ASSUME NEW s, Sound(s), NEW r \in Surface, Exists(s, r.server_id)
  PROVE  LET t == Update(s, r.server_id, Show(window_by_id(s, r.server_id), r))
         IN  /\ Sound(t) /\ t.next_id = s.next_id
             /\ \A p \in Bufs(t) : \/ p = <<r.server_id, r.content>>
                                   \/ p \in Bufs(s) /\ p[1] # r.server_id
             /\ <<r.server_id, r.content>> \in Bufs(t)
             /\ \A p \in Bufs(s) : p[1] # r.server_id => p \in Bufs(t)
<1> DEFINE id == r.server_id
           w  == window_by_id(s, id)
           v  == Show(w, r)
<1>1. w \in Window /\ w.id = id
  BY WindowIndexFinds DEF Sound
<1>2. r.cw \in Int /\ r.ch + DECOR_TITLEBAR_H \in Int /\ r.content \in Nat
  BY TitlebarAssumption DEF Surface
<1> HIDE DEF w
<1>3. v \in Window /\ v.id = id /\ v.buf = r.content
  BY <1>1, <1>2 DEF Show, Window
<1> HIDE DEF v
<1>4. Sound(Update(s, id, v)) /\ Update(s, id, v).next_id = s.next_id
  BY <1>3, UpdateSound
<1>5. /\ \A p \in Bufs(Update(s, id, v)) : p = <<id, r.content>> \/ (p \in Bufs(s) /\ p[1] # id)
      /\ <<id, r.content>> \in Bufs(Update(s, id, v))
      /\ \A p \in Bufs(s) : p[1] # id => p \in Bufs(Update(s, id, v))
  BY <1>3, UpdateBufs
<1> QED
  BY <1>4, <1>5 DEF v, w

----------------------------------------------------------------------------
(* Types.                                                                  *)

\* What the requests make of a surface.
LEMMA SurfacesAreSurfaces ==
  ASSUME Words
  PROVE  /\ NewSurface \in Surface
         /\ \A r \in Surface : Consumed(r) \in Surface
         /\ \A s \in Surfaces : Emptied(s) \in Surface /\ Consumed(Emptied(s)) \in Surface
         /\ \A s \in Surfaces : \A r \in copy_shm_buffer(s) :
              /\ r \in Surface /\ r.server_id = surf[s].server_id
              /\ r.content = surf[s].content \/ r.content # 0
<1>1. NoBuffer \in Buffer
  BY DEF NoBuffer, Buffer
<1>2. NewSurface \in Surface
  BY <1>1 DEF NewSurface, Surface
<1>3. ASSUME NEW r \in Surface
      PROVE  /\ Consumed(r) \in Surface /\ Consumed(r).server_id = r.server_id
             /\ Consumed(r).content = r.content
  BY <1>1 DEF Consumed, Surface
<1>4. ASSUME NEW s \in Surfaces
      PROVE  Emptied(s) \in Surface
  BY DEF Words, Emptied, Surface
<1>5. ASSUME NEW s \in Surfaces, NEW r \in copy_shm_buffer(s)
      PROVE  /\ r \in Surface /\ r.server_id = surf[s].server_id
             /\ r.content = surf[s].content \/ r.content # 0
  <2> DEFINE q == Consumed(surf[s])
             b == surf[s].pending_buffer
             f == Fresh
  <2>1. /\ surf[s] \in Surface /\ b \in Buffer
        /\ q \in Surface /\ q.server_id = surf[s].server_id /\ q.content = surf[s].content
    BY <1>3 DEF Words, Surface
  <2>2. b.w \in Nat /\ b.h \in Nat
    BY <2>1 DEF Buffer
  <2>3. f \in Nat \ {0}
    BY FreshIsAddress
  <2>4. r = q \/ r = [q EXCEPT !.content = f, !.cw = b.w, !.ch = b.h]
    BY DEF copy_shm_buffer
  <2> HIDE DEF q, b, f
  <2> QED
    BY <2>1, <2>2, <2>3, <2>4 DEF Surface
<1> QED
  BY <1>2, <1>3, <1>4, <1>5

\* The ledgers.
LEMMA RefocusTyped ==
  ASSUME NEW told \in [Clients -> SUBSET Nat], NEW old, NEW new \in Nat
  PROVE  Refocus(told, old, new) \in [Clients -> SUBSET Nat]
  BY DEF Refocus

LEMMA PointerTargetIsId ==
  ASSUME NEW s, Sound(s), NEW p \in Points
  PROVE  PointerTarget(s, p) \in Nat /\ PointerTarget(s, p) < s.next_id
<1> DEFINE hit == window_at(s, p.x, p.y)
<1>1. p.x \in Int /\ p.y \in Int /\ s \in Stack /\ s.next_id \in Nat \ {0}
  BY PointsAssumption DEF Sound, Stack
<1>2. hit = 0 \/ Exists(s, hit)
  BY <1>1, WindowAtFinds
<1> HIDE DEF hit
<1>3. hit \in Nat /\ hit < s.next_id
  <2>1. CASE Exists(s, hit)
    <3>1. <<hit, window_by_id(s, hit).buf>> \in Bufs(s)
      BY <2>1, BufsDecide
    <3> QED
      BY <3>1, BufsDecide
  <2>2. CASE hit = 0
    BY <1>1, <2>2
  <2> QED
    BY <1>2, <2>1, <2>2
<1> QED
  BY <1>1, <1>3 DEF PointerTarget, hit


\* A surface without window takes nothing from the stack.
LEMMA UnmapKeeps ==
  ASSUME Typed, NEW s \in Surfaces, surface_unmap(s)
  PROVE  /\ Sound(stack') /\ stack'.next_id = stack.next_id
         /\ Bufs(stack') = {p \in Bufs(stack) : p[1] # surf[s].server_id}
         /\ fe_dirty' \in BOOLEAN /\ current' \in BOOLEAN
         /\ pointer_focus' \in Nat /\ kbd_focus' \in Nat
         /\ pointer_told' \in [Clients -> SUBSET Nat]
         /\ keyboard_told' \in [Clients -> SUBSET Nat]
<1> DEFINE id == surf[s].server_id
<1>1. /\ Sound(stack) /\ fe_dirty \in BOOLEAN /\ current \in BOOLEAN
      /\ pointer_focus \in Nat /\ kbd_focus \in Nat
      /\ pointer_told \in [Clients -> SUBSET Nat]
      /\ keyboard_told \in [Clients -> SUBSET Nat]
  BY DEF Typed, Words
<1>2. ASSUME id = 0
      PROVE  /\ Sound(stack') /\ stack'.next_id = stack.next_id
             /\ Bufs(stack') = {p \in Bufs(stack) : p[1] # id}
  <2>1. \A p \in Bufs(stack) : p[1] # 0
    <3>1. ASSUME NEW p \in Bufs(stack) PROVE p[1] # 0
      <4>1. PICK w \in Contents(stack) : p = <<w.id, w.buf>>
        BY DEF Bufs
      <4> QED
        BY <1>1, <4>1, ContentsDecide DEF Window
    <3> QED
      BY <3>1
  <2>2. stack' = stack
    BY <1>2 DEF surface_unmap
  <2> QED
    BY <1>1, <1>2, <2>1, <2>2
<1>3. ASSUME id # 0
      PROVE  /\ Sound(stack') /\ stack'.next_id = stack.next_id
             /\ Bufs(stack') = {p \in Bufs(stack) : p[1] # id}
  <2>1. stack' = window_destroy(stack, id)
    BY <1>3 DEF surface_unmap
  <2> QED
    BY <1>1, <2>1, DestroySound, DestroyBufs
<1>4. /\ fe_dirty' \in BOOLEAN /\ current' \in BOOLEAN
      /\ pointer_focus' = pointer_focus /\ kbd_focus' = kbd_focus
      /\ pointer_told' \in [Clients -> SUBSET Nat]
      /\ keyboard_told' \in [Clients -> SUBSET Nat]
  BY <1>1 DEF surface_unmap, MarkUnmapped
<1> QED
  BY <1>1, <1>2, <1>3, <1>4

LEMMA DestroySurfaceTyped ==
  ASSUME Typed, NEW s \in Surfaces, DestroySurface(s),
         handshake' \in [Surfaces -> {"none", "new", "waiting", "configured"}],
         UNCHANGED <<clients, dirty, cursor, pc>>
  PROVE  Typed'
<1>1. surf' \in [Surfaces -> Surface]
  BY SurfacesAreSurfaces DEF DestroySurface, Typed, Words
<1>2. objects' \in [Surfaces -> SUBSET Object]
  BY DEF DestroySurface, Typed, Words
<1> QED
  BY <1>1, <1>2, UnmapKeeps DEF DestroySurface, Typed, Words, clients

\* Requests that leave the windows and their pixels alone.
LEMMA QuietTyped ==
  ASSUME Typed, UNCHANGED <<scene, focus, cascade, dirty, cursor, pc>>,
         surf' \in [Surfaces -> Surface], objects' \in [Surfaces -> SUBSET Object],
         handshake' \in [Surfaces -> {"none", "new", "waiting", "configured"}],
         bound' \subseteq Clients, dying' \subseteq Clients
  PROVE  Typed'
  BY DEF Typed, Words, scene, focus

\* The two outcomes of a commit that shows pixels.
LEMMA ShowsTyped ==
  ASSUME Typed, NEW s \in Surfaces, NEW r \in copy_shm_buffer(s),
         surface_update(s, r) \/ surface_map(s, r),
         Request, UNCHANGED <<objects, handshake, clients, focus>>
  PROVE  Typed'
<1>1. /\ Sound(stack) /\ r \in Surface /\ r.server_id = surf[s].server_id
      /\ stack.next_id \in Nat
  BY SurfacesAreSurfaces DEF Typed, Sound, Stack
<1>2. /\ cascade \in 0 .. Len(Cascade) - 1 /\ Len(Cascade) \in Nat \ {0}
      /\ surf \in [Surfaces -> Surface]
      /\ fe_dirty \in BOOLEAN /\ current \in BOOLEAN
  BY CascadeAssumption DEF Typed, Words
<1>3. /\ Sound(stack') /\ surf' \in [Surfaces -> Surface]
      /\ cascade' \in 0 .. Len(Cascade) - 1
      /\ fe_dirty' \in BOOLEAN /\ current' \in BOOLEAN
  <2>1. CASE surface_update(s, r)
    <3>1. Sound(stack')
      BY <1>1, <2>1, ShownKeeps DEF surface_update
    <3> QED
      BY <1>1, <1>2, <2>1, <3>1 DEF surface_update
  <2>2. CASE surface_map(s, r)
    <3>1. cascade' \in 0 .. Len(Cascade) - 1
      BY <1>2, <2>2 DEF surface_map
    <3>2. CASE stack' = Mapped(r) /\ ~IsFull(stack)
      <4>1. Sound(stack')
        BY <1>1, <3>2, MappedKeeps
      <4>2. [r EXCEPT !.server_id = stack.next_id] \in Surface
        BY <1>1 DEF Surface
      <4> QED
        BY <1>1, <1>2, <2>2, <3>1, <4>1, <4>2 DEF surface_map, scene
    <3>3. CASE UNCHANGED scene
      <4>1. [r EXCEPT !.server_id = stack.next_id] \in Surface
        BY <1>1 DEF Surface
      <4> QED
        BY <1>1, <1>2, <2>2, <3>1, <3>3, <4>1 DEF surface_map, scene
    <3> QED
      BY <2>2, <3>2, <3>3 DEF surface_map
  <2> QED
    BY <2>1, <2>2
<1> QED
  BY <1>3 DEF Typed, Words, Request, focus, clients


\* What clients ask for and what becomes of them.
LEMMA ClientTyped == ASSUME Typed, Client PROVE Typed'
<1> USE DEF Request, clients
<1>1. /\ surf \in [Surfaces -> Surface] /\ objects \in [Surfaces -> SUBSET Object]
      /\ handshake \in [Surfaces -> {"none", "new", "waiting", "configured"}]
      /\ bound \subseteq Clients /\ dying \subseteq Clients
      /\ "surface" \in Object /\ "xdg_surface" \in Object /\ "xdg_toplevel" \in Object
  BY DEF Typed, Words, Object
<1>2. ASSUME NEW c \in Clients, seat_get(c)
      PROVE  Typed'
  BY <1>1, <1>2, QuietTyped DEF seat_get
<1>3. ASSUME NEW c \in Clients, ClientDies(c)
      PROVE  Typed'
  BY <1>3 DEF ClientDies, Typed, Words, scene
<1>4. ASSUME NEW s \in Surfaces, comp_create_surface(s)
      PROVE  Typed'
  <2>1. NewSurface \in Surface
    BY SurfacesAreSurfaces DEF Typed
  <2> QED
    BY <1>1, <1>4, <2>1, QuietTyped DEF comp_create_surface
<1>5. ASSUME NEW s \in Surfaces, wm_get_xdg_surface(s) \/ xs_get_toplevel(s)
      PROVE  Typed'
  BY <1>1, <1>5, QuietTyped DEF wm_get_xdg_surface, xs_get_toplevel
<1>6. ASSUME NEW s \in Surfaces, NEW b \in Offers[s], surf_attach(s, b)
      PROVE  Typed'
  <2>1. b \in Buffer /\ surf[s] \in Surface
    BY <1>1, OffersAssumption
  <2>2. [surf[s] EXCEPT !.attached = TRUE, !.pending_buffer = b] \in Surface
    BY <2>1 DEF Surface
  <2>3. surf' \in [Surfaces -> Surface]
    BY <1>1, <1>6, <2>2 DEF surf_attach
  <2> QED
    BY <1>1, <1>6, <2>3, QuietTyped DEF surf_attach
<1>7. ASSUME NEW s \in Surfaces, CommitInitial(s)
      PROVE  Typed'
  <2>1. [surf[s] EXCEPT !.initial_configured = TRUE] \in Surface
    BY <1>1 DEF Surface
  <2>2. surf' \in [Surfaces -> Surface]
    BY <1>1, <1>7, <2>1 DEF CommitInitial
  <2> QED
    BY <1>1, <1>7, <2>2, QuietTyped DEF CommitInitial
<1>8. ASSUME NEW s \in Surfaces, CommitBare(s)
      PROVE  Typed'
  BY <1>1, <1>8, QuietTyped DEF CommitBare
<1>9. ASSUME NEW s \in Surfaces, CommitNull(s)
      PROVE  Typed'
  <2>1. surf' \in [Surfaces -> Surface]
    BY <1>1, <1>9, SurfacesAreSurfaces DEF CommitNull, Typed
  <2>2. handshake' \in [Surfaces -> {"none", "new", "waiting", "configured"}]
    BY <1>1, <1>9 DEF CommitNull
  <2> QED
    BY <1>9, <2>1, <2>2, UnmapKeeps DEF CommitNull, Typed, Words
<1>10. ASSUME NEW s \in Surfaces, CommitOther(s)
       PROVE  Typed'
  <2>1. surf' \in [Surfaces -> Surface]
    BY <1>1, <1>10, SurfacesAreSurfaces DEF CommitOther, Typed
  <2> QED
    BY <1>1, <1>10, <2>1, QuietTyped DEF CommitOther
<1>11. ASSUME NEW s \in Surfaces, CommitShm(s)
       PROVE  Typed'
  <2>1. PICK r \in copy_shm_buffer(s) :
          \/ surface_update(s, r) \/ surface_map(s, r)
          \/ surf' = [surf EXCEPT ![s] = r] /\ UNCHANGED <<scene, cascade>>
    BY <1>11 DEF CommitShm
  <2>2. CASE surface_update(s, r) \/ surface_map(s, r)
    BY <1>11, <2>2, ShowsTyped DEF CommitShm
  <2>3. CASE surf' = [surf EXCEPT ![s] = r] /\ UNCHANGED <<scene, cascade>>
    <3>1. surf' \in [Surfaces -> Surface]
      BY <1>1, <2>3, SurfacesAreSurfaces DEF Typed
    <3> QED
      BY <1>1, <1>11, <2>3, <3>1, QuietTyped DEF CommitShm
  <2> QED
    BY <2>1, <2>2, <2>3
<1>12. ASSUME NEW s \in Surfaces, toplevel_resource_destroy(s)
       PROVE  Typed'
  <2>1. surf' \in [Surfaces -> Surface]
    BY <1>1, <1>12, SurfacesAreSurfaces DEF toplevel_resource_destroy, ToplevelUnmaps, Typed
  <2>2. objects' \in [Surfaces -> SUBSET Object]
    BY <1>1, <1>12 DEF toplevel_resource_destroy
  <2> QED
    BY <1>12, <2>1, <2>2, UnmapKeeps
       DEF toplevel_resource_destroy, ToplevelUnmaps, Typed, Words
<1>13. ASSUME NEW s \in Surfaces, xdg_surface_resource_destroy(s)
       PROVE  Typed'
  BY <1>1, <1>13, QuietTyped DEF xdg_surface_resource_destroy
<1>14. ASSUME NEW s \in Surfaces, surface_resource_destroy(s) \/ SurfaceDies(s)
       PROVE  Typed'
  BY <1>1, <1>14, DestroySurfaceTyped DEF surface_resource_destroy, SurfaceDies
<1>15. CASE ClientGone
  BY <1>1, <1>15, QuietTyped DEF ClientGone
<1> HIDE DEF Request, clients
<1> QED
  BY <1>2, <1>3, <1>4, <1>5, <1>6, <1>7, <1>8, <1>9, <1>10, <1>11, <1>12, <1>13, <1>14,
     <1>15 DEF Client

\* The iteration.
LEMMA LoopTyped == ASSUME Typed, Loop PROVE Typed'
<1> USE DEF scene, clients, focus
<1>1. Sound(stack) /\ stack.next_id \in Nat /\ stack.focus_id \in Nat
  BY DEF Typed, Sound, Stack
<1>2. CASE Frame
  BY <1>2 DEF Frame, Typed, Words
<1>3. ASSUME NEW p \in Points, wl_frontend_pointer_motion(p)
      PROVE  Typed'
  <2>1. PICK st \in AfterWm(stack) :
          /\ stack' = st /\ pointer_focus' = PointerTarget(st, p)
          /\ pointer_told' = Refocus(pointer_told, pointer_focus, PointerTarget(st, p))
    BY <1>3 DEF wl_frontend_pointer_motion
  <2>2. Sound(st)
    BY <1>1, AfterWmKeeps
  <2>3. PointerTarget(st, p) \in Nat
    BY <2>2, PointerTargetIsId
  <2>4. pointer_told' \in [Clients -> SUBSET Nat]
    BY <2>1, <2>3, RefocusTyped DEF Typed, Words
  <2> QED
    BY <1>3, <2>1, <2>2, <2>3, <2>4 DEF wl_frontend_pointer_motion, Painted, Typed, Words
<1>4. CASE ButtonOrAltTab
  <2>1. PICK st \in Focusing(stack) : stack' \in AfterWm(st)
    BY <1>4 DEF ButtonOrAltTab
  <2>2. Sound(stack')
    BY <1>1, <2>1, FocusingKeeps, AfterWmKeeps
  <2> QED
    BY <1>4, <2>2 DEF ButtonOrAltTab, Painted, Typed, Words
<1>5. CASE OtherCreates
  <2>1. PICK r \in WmRects :
          stack' = window_focus(window_create(stack, "NORMAL", r), stack.next_id)
    BY <1>5 DEF OtherCreates
  <2>2. r \in Rect /\ "NORMAL" \in Role
    BY WmRectsAssumption DEF Role
  <2>3. Sound(window_create(stack, "NORMAL", r))
    BY <1>1, <2>2, CreateSound
  <2>4. Sound(stack')
    BY <2>1, <2>3, FocusSound
  <2> QED
    BY <1>5, <2>4 DEF OtherCreates, Painted, Typed, Words
<1>6. CASE OtherDestroys
  <2>1. Sound(stack')
    BY <1>1, <1>6, DestroySound DEF OtherDestroys
  <2> QED
    BY <1>6, <2>1 DEF OtherDestroys, Painted, Typed, Words
<1>7. CASE EndInput \/ wl_frontend_dispatch \/ wl_frontend_flush
  BY <1>7 DEF EndInput, wl_frontend_dispatch, wl_frontend_flush, Typed, Words
<1>8. CASE wl_frontend_keyboard_focus
  <2>1. KeyboardTarget \in Nat
    BY <1>1 DEF KeyboardTarget
  <2>2. keyboard_told' \in [Clients -> SUBSET Nat]
    BY <1>8, <2>1, RefocusTyped DEF wl_frontend_keyboard_focus, Typed, Words
  <2> QED
    BY <1>8, <2>1, <2>2 DEF wl_frontend_keyboard_focus, Typed, Words
<1> QED
  BY <1>2, <1>3, <1>4, <1>5, <1>6, <1>7, <1>8 DEF Loop

LEMMA InitTyped == Init => Typed
<1> SUFFICES ASSUME Init PROVE Typed
  OBVIOUS
<1>1. Sound(stack)
  BY WinMaxAssumption
     DEF Init, window_stack_init, Sound, Stack, UniqueIds, FocusLive, CountBounded
<1>2. NewSurface \in Surface
  BY DEF NewSurface, NoBuffer, Buffer, Surface
<1>3. 0 \in 0 .. Len(Cascade) - 1
  BY CascadeAssumption
<1> QED
  BY <1>1, <1>2, <1>3 DEF Init, Typed, Words

LEMMA NextTyped == Typed /\ [Next]_vars => Typed'
<1> SUFFICES ASSUME Typed, [Next]_vars PROVE Typed'
  OBVIOUS
<1>1. CASE UNCHANGED vars
  BY <1>1 DEF vars, scene, focus, clients, Typed, Words
<1> QED
  BY <1>1, ClientTyped, LoopTyped DEF Next

LEMMA TypedAlways == Spec => []Typed
BY InitTyped, NextTyped, PTL DEF Spec

\* Every variable of the frontend keeps its type, whatever clients ask for.
THEOREM FrontendTypes == Spec => []TypeOK
BY TypedAlways, TypedIsTypeOK, PTL


----------------------------------------------------------------------------
(* One window to a toplevel.                                               *)

\* A surface with a window has a toplevel and pixels, and the window shows them.
Windowed == \A s \in Surfaces : surf[s].server_id # 0 =>
  /\ Has(s, "xdg_toplevel") /\ surf[s].content # 0
  /\ <<surf[s].server_id, surf[s].content>> \in Bufs(stack)

\* No two surfaces have the same window.
Apart == \A s, t \in Surfaces : s # t /\ surf[s].server_id # 0 =>
           surf[s].server_id # surf[t].server_id

\* Pixels on screen are of a surface that is there.
Sampled == \A p \in Bufs(stack) : p[2] # 0 => \E s \in Surfaces : surf[s].server_id = p[1]

Windows == Windowed /\ Apart /\ Sampled

LEMMA WindowsSay == Typed /\ Windows => WindowPerToplevel /\ PixelsLive
<1> SUFFICES ASSUME Typed, Windows PROVE WindowPerToplevel /\ PixelsLive
  OBVIOUS
<1>1. Sound(stack) /\ stack \in Stack /\ DOMAIN stack.windows = 1 .. Len(stack.windows)
  BY DEF Typed, Sound, Stack
<1>2. ASSUME NEW i \in DOMAIN stack.windows
      PROVE  /\ <<stack.windows[i].id, stack.windows[i].buf>> \in Bufs(stack)
             /\ stack.windows[i].id # 0
  <2>1. stack.windows[i] \in Contents(stack)
    BY <1>1, <1>2 DEF Contents
  <2> QED
    BY <1>1, <2>1, ContentsDecide DEF Bufs, Window
<1>3. ASSUME NEW s \in Surfaces, surf[s].server_id # 0
      PROVE  Exists(stack, surf[s].server_id)
  BY <1>1, <1>3, BufsDecide DEF Windows, Windowed
<1>4. ASSUME NEW i \in DOMAIN stack.windows, stack.windows[i].buf # 0
      PROVE  surface_by_window(stack.windows[i].id) # {}
  BY <1>2, <1>4 DEF Windows, Sampled, surface_by_window
<1>5. ASSUME NEW i \in DOMAIN stack.windows, NEW s \in surface_by_window(stack.windows[i].id)
      PROVE  stack.windows[i].buf = surf[s].content
  <2>1. s \in Surfaces /\ surf[s].server_id = stack.windows[i].id /\ surf[s].server_id # 0
    BY <1>5 DEF surface_by_window
  <2>2. /\ <<stack.windows[i].id, surf[s].content>> \in Bufs(stack)
        /\ <<stack.windows[i].id, stack.windows[i].buf>> \in Bufs(stack)
    BY <1>2, <2>1 DEF Windows, Windowed
  <2> QED
    BY <1>1, <2>2, BufsDecide
<1>6. PixelsLive
  BY <1>5 DEF PixelsLive
<1> QED
  BY <1>3, <1>4, <1>6 DEF WindowPerToplevel, Windows, Windowed, Apart

\* A step that changes neither windows nor pixels, nor takes a role from a window.
LEMMA WindowsKept ==
  ASSUME Windows, Bufs(stack') = Bufs(stack),
         \A s \in Surfaces :
           /\ surf'[s].server_id = surf[s].server_id
           /\ surf[s].server_id # 0 => surf'[s].content = surf[s].content
           /\ surf[s].server_id # 0 /\ Has(s, "xdg_toplevel") => Has(s, "xdg_toplevel")'
  PROVE  Windows'
<1>1. Windowed'
  BY DEF Windows, Windowed
<1>2. Apart'
  BY DEF Windows, Apart
<1>3. Sampled'
  BY DEF Windows, Sampled
<1> QED
  BY <1>1, <1>2, <1>3 DEF Windows

\* surface_unmap takes a surface's window and leaves the others'.
LEMMA UnmapWindows ==
  ASSUME Typed, Windows, NEW s \in Surfaces, surface_unmap(s), surf'[s].server_id = 0,
         \A t \in Surfaces \ {s} : surf'[t] = surf[t] /\ objects'[t] = objects[t]
  PROVE  Windows'
<1>1. Bufs(stack') = {p \in Bufs(stack) : p[1] # surf[s].server_id}
  BY UnmapKeeps
<1>2. Windowed'
  <2> SUFFICES ASSUME NEW t \in Surfaces, surf'[t].server_id # 0
               PROVE  /\ "xdg_toplevel" \in objects'[t] /\ surf'[t].content # 0
                      /\ <<surf'[t].server_id, surf'[t].content>> \in Bufs(stack')
    BY DEF Windowed, Has
  <2>1. t # s /\ surf'[t] = surf[t] /\ objects'[t] = objects[t]
    OBVIOUS
  <2>2. surf[t].server_id # surf[s].server_id
    BY <2>1 DEF Windows, Apart
  <2> QED
    BY <1>1, <2>1, <2>2 DEF Windows, Windowed, Has
<1>3. Apart'
  BY DEF Windows, Apart
<1>4. Sampled'
  <2> SUFFICES ASSUME NEW p \in Bufs(stack'), p[2] # 0
               PROVE  \E t \in Surfaces : surf'[t].server_id = p[1]
    BY DEF Sampled
  <2>1. p \in Bufs(stack) /\ p[1] # surf[s].server_id
    BY <1>1
  <2>2. PICK t \in Surfaces : surf[t].server_id = p[1]
    BY <2>1 DEF Windows, Sampled
  <2>3. t # s
    BY <2>1, <2>2
  <2> QED
    BY <2>2, <2>3
<1> QED
  BY <1>2, <1>3, <1>4 DEF Windows

\* A commit to a surface that has a window.
LEMMA UpdateWindows ==
  ASSUME Typed, Windows, NEW s \in Surfaces, NEW r \in copy_shm_buffer(s),
         surface_update(s, r), UNCHANGED objects
  PROVE  Windows'
<1> DEFINE id == surf[s].server_id
<1>1. /\ Sound(stack) /\ r \in Surface /\ r.server_id = id /\ id # 0
      /\ r.content = surf[s].content \/ r.content # 0
      /\ surf' = [surf EXCEPT ![s] = r] /\ surf \in [Surfaces -> Surface]
  BY SurfacesAreSurfaces DEF Typed, Words, surface_update
<1>2. /\ Has(s, "xdg_toplevel") /\ surf[s].content # 0
      /\ <<id, surf[s].content>> \in Bufs(stack)
  BY <1>1 DEF Windows, Windowed
<1>3. Exists(stack, id)
  BY <1>1, <1>2, BufsDecide
<1>4. /\ \A p \in Bufs(stack') : p = <<id, r.content>> \/ (p \in Bufs(stack) /\ p[1] # id)
      /\ <<id, r.content>> \in Bufs(stack')
      /\ \A p \in Bufs(stack) : p[1] # id => p \in Bufs(stack')
  <2>1. stack' = Update(stack, r.server_id, Show(window_by_id(stack, r.server_id), r))
    BY <1>1, <1>3 DEF surface_update
  <2>2. Exists(stack, r.server_id)
    BY <1>1, <1>3
  <2> HIDE DEF id
  <2> QED
    BY <1>1, <2>1, <2>2, ShownKeeps
<1>5. \A t \in Surfaces : surf'[t] = IF t = s THEN r ELSE surf[t]
  BY <1>1
<1>6. Windowed'
  <2> SUFFICES ASSUME NEW t \in Surfaces, surf'[t].server_id # 0
               PROVE  /\ "xdg_toplevel" \in objects[t] /\ surf'[t].content # 0
                      /\ <<surf'[t].server_id, surf'[t].content>> \in Bufs(stack')
    BY DEF Windowed, Has
  <2>1. CASE t = s
    BY <1>1, <1>2, <1>4, <1>5, <2>1 DEF Has
  <2>2. CASE t # s
    <3>1. surf[t].server_id # id /\ surf'[t] = surf[t]
      BY <1>1, <1>5, <2>2 DEF Windows, Apart
    <3> HIDE DEF id
    <3> QED
      BY <1>4, <3>1 DEF Windows, Windowed, Has
  <2> QED
    BY <2>1, <2>2
<1>7. \A t \in Surfaces : surf'[t].server_id = surf[t].server_id
  BY <1>1, <1>5
<1>8. Apart'
  BY <1>7 DEF Windows, Apart
<1>9. Sampled'
  <2> SUFFICES ASSUME NEW p \in Bufs(stack'), p[2] # 0
               PROVE  \E t \in Surfaces : surf'[t].server_id = p[1]
    BY DEF Sampled
  <2>1. CASE p = <<id, r.content>>
    BY <1>7, <2>1
  <2>2. CASE p \in Bufs(stack)
    BY <1>7, <2>2 DEF Windows, Sampled
  <2> QED
    BY <1>4, <2>1, <2>2
<1> QED
  BY <1>6, <1>8, <1>9 DEF Windows

\* The first content of a toplevel.
LEMMA MapWindows ==
  ASSUME Typed, Windows, NEW s \in Surfaces, NEW r \in copy_shm_buffer(s),
         surface_map(s, r), UNCHANGED objects, r.content # 0, Has(s, "xdg_toplevel")
  PROVE  Windows'
<1> DEFINE id == stack.next_id
           z  == 0
<1>1. /\ Sound(stack) /\ r \in Surface /\ r.server_id = 0 /\ id \in Nat \ {0}
      /\ surf[s].server_id = 0 /\ surf \in [Surfaces -> Surface]
  BY SurfacesAreSurfaces DEF Typed, Words, surface_map, Sound, Stack
<1>2. CASE UNCHANGED scene /\ surf' = [surf EXCEPT ![s] = r]
  <2>1. \A t \in Surfaces : surf'[t] = IF t = s THEN r ELSE surf[t]
    BY <1>1, <1>2
  <2> QED
    BY <1>1, <1>2, <2>1, WindowsKept DEF scene, Has
<1>3. CASE /\ ~IsFull(stack) /\ stack' = Mapped(r)
           /\ surf' = [surf EXCEPT ![s] = [r EXCEPT !.server_id = id]]
  <2> DEFINE q == [r EXCEPT !.server_id = id]
  <2>1. q.server_id = id /\ q.content = r.content
    BY <1>1 DEF Surface
  <2>2. \A t \in Surfaces : surf'[t] = IF t = s THEN q ELSE surf[t]
    BY <1>1, <1>3
  <2>3. /\ \A p \in Bufs(stack') : p = <<id, r.content>> \/ p \in Bufs(stack)
        /\ <<id, r.content>> \in Bufs(stack')
        /\ Bufs(stack) \subseteq Bufs(stack')
    BY <1>1, <1>3, MappedKeeps
  <2>4. ASSUME NEW t \in Surfaces, surf[t].server_id # 0
        PROVE  surf[t].server_id # id
    <3>1. <<surf[t].server_id, surf[t].content>> \in Bufs(stack)
      BY <2>4 DEF Windows, Windowed
    <3>2. surf[t].server_id < id /\ surf[t].server_id \in Nat
      BY <1>1, <3>1, BufsDecide
    <3> QED
      BY <1>1, <3>2
  <2> HIDE DEF q, id
  <2>5. Windowed'
    <3> SUFFICES ASSUME NEW t \in Surfaces, surf'[t].server_id # 0
                 PROVE  /\ "xdg_toplevel" \in objects[t] /\ surf'[t].content # 0
                        /\ <<surf'[t].server_id, surf'[t].content>> \in Bufs(stack')
      BY DEF Windowed, Has
    <3>1. CASE t = s
      BY <2>1, <2>2, <2>3, <3>1 DEF Has
    <3>2. CASE t # s
      BY <2>2, <2>3, <3>2 DEF Windows, Windowed, Has
    <3> QED
      BY <3>1, <3>2
  <2>6. Apart'
    <3> SUFFICES ASSUME NEW t \in Surfaces, NEW u \in Surfaces, t # u, surf'[t].server_id # 0
                 PROVE  surf'[t].server_id # surf'[u].server_id
      BY DEF Apart
    <3> QED
      BY <1>1, <2>1, <2>2, <2>4 DEF Windows, Apart
  <2>7. Sampled'
    <3> SUFFICES ASSUME NEW p \in Bufs(stack'), p[2] # 0
                 PROVE  \E t \in Surfaces : surf'[t].server_id = p[1]
      BY DEF Sampled
    <3>1. CASE p = <<id, r.content>>
      BY <2>1, <2>2, <3>1
    <3>2. CASE p \in Bufs(stack)
      <4>1. PICK t \in Surfaces : surf[t].server_id = p[1]
        BY <3>2 DEF Windows, Sampled
      <4>2. p[1] # 0
        <5>1. PICK w \in Contents(stack) : p = <<w.id, w.buf>>
          BY <3>2 DEF Bufs
        <5> QED
          BY <1>1, <5>1, ContentsDecide DEF Window
      <4> QED
        BY <1>1, <2>2, <4>1, <4>2
    <3> QED
      BY <2>3, <3>1, <3>2
  <2> QED
    BY <2>5, <2>6, <2>7 DEF Windows
<1> QED
  BY <1>2, <1>3 DEF surface_map


LEMMA NextWindows == Typed /\ Windows /\ [Next]_vars => Windows'
<1> SUFFICES ASSUME Typed, Windows, [Next]_vars PROVE Windows'
  OBVIOUS
<1>1. /\ surf \in [Surfaces -> Surface] /\ objects \in [Surfaces -> SUBSET Object]
      /\ Sound(stack)
  BY DEF Typed, Words
<1>2. CASE UNCHANGED <<stack, surf, objects>>
  BY <1>2, WindowsKept DEF Has
<1>3. ASSUME NEW s \in Surfaces,
             \/ comp_create_surface(s) \/ wm_get_xdg_surface(s) \/ xs_get_toplevel(s)
             \/ xdg_surface_resource_destroy(s)
      PROVE  Windows'
  <2>1. stack' = stack
    BY <1>3 DEF comp_create_surface, wm_get_xdg_surface, xs_get_toplevel,
                xdg_surface_resource_destroy, scene
  <2>2. CASE comp_create_surface(s)
    <3>1. surf[s].server_id = 0
      BY <2>2 DEF comp_create_surface, Windows, Windowed, Has
    <3>2. \A t \in Surfaces : surf'[t] = IF t = s THEN NewSurface ELSE surf[t]
      BY <1>1, <2>2 DEF comp_create_surface
    <3>3. \A t \in Surfaces \ {s} : objects'[t] = objects[t]
      BY <1>1, <2>2 DEF comp_create_surface
    <3>4. NewSurface.server_id = 0
      BY DEF NewSurface
    <3> QED
      BY <2>1, <3>1, <3>2, <3>3, <3>4, WindowsKept DEF Has
  <2>3. CASE ~comp_create_surface(s)
    <3>1. surf' = surf
      BY <1>3, <2>3 DEF wm_get_xdg_surface, xs_get_toplevel, xdg_surface_resource_destroy
    <3>2. \A t \in Surfaces : Has(t, "xdg_toplevel") => Has(t, "xdg_toplevel")'
      BY <1>1, <1>3, <2>3 DEF wm_get_xdg_surface, xs_get_toplevel,
                              xdg_surface_resource_destroy, Has
    <3> QED
      BY <2>1, <3>1, <3>2, WindowsKept
  <2> QED
    BY <2>2, <2>3
<1>4. ASSUME NEW s \in Surfaces, NEW r \in Surface, UNCHANGED <<stack, objects>>,
             r.server_id = surf[s].server_id,
             surf[s].server_id # 0 => r.content = surf[s].content,
             surf' = [surf EXCEPT ![s] = r]
      PROVE  Windows'
  <2>1. \A t \in Surfaces : surf'[t] = IF t = s THEN r ELSE surf[t]
    BY <1>1, <1>4
  <2> QED
    BY <1>4, <2>1, WindowsKept DEF Has
<1>5. ASSUME NEW s \in Surfaces, NEW b \in Offers[s], surf_attach(s, b)
      PROVE  Windows'
  <2> DEFINE r == [surf[s] EXCEPT !.attached = TRUE, !.pending_buffer = b]
  <2>1. b \in Buffer /\ surf[s] \in Surface
    BY <1>1, OffersAssumption
  <2>2. r \in Surface /\ r.server_id = surf[s].server_id /\ r.content = surf[s].content
    BY <2>1 DEF Surface
  <2>3. surf' = [surf EXCEPT ![s] = r]
    BY <1>1, <1>5 DEF surf_attach
  <2> HIDE DEF r
  <2> QED
    BY <1>4, <1>5, <2>2, <2>3 DEF surf_attach, scene
<1>6. ASSUME NEW s \in Surfaces, CommitInitial(s)
      PROVE  Windows'
  <2> DEFINE r == [surf[s] EXCEPT !.initial_configured = TRUE]
  <2>1. r \in Surface /\ r.server_id = surf[s].server_id /\ r.content = surf[s].content
    BY <1>1 DEF Surface
  <2>2. surf' = [surf EXCEPT ![s] = r]
    BY <1>1, <1>6 DEF CommitInitial
  <2> HIDE DEF r
  <2> QED
    BY <1>4, <1>6, <2>1, <2>2 DEF CommitInitial, scene
<1>7. ASSUME NEW s \in Surfaces, CommitOther(s)
      PROVE  Windows'
  <2> DEFINE r == Consumed(surf[s])
  <2>1. r \in Surface /\ r.server_id = surf[s].server_id /\ r.content = surf[s].content
    BY <1>1 DEF Surface, Consumed, NoBuffer, Buffer
  <2>2. surf' = [surf EXCEPT ![s] = r]
    BY <1>1, <1>7 DEF CommitOther
  <2> HIDE DEF r
  <2> QED
    BY <1>4, <1>7, <2>1, <2>2 DEF CommitOther, scene
<1>8. ASSUME NEW s \in Surfaces, surface_unmap(s), NEW r, r.server_id = 0,
             surf' = [surf EXCEPT ![s] = r],
             \A t \in Surfaces \ {s} : objects'[t] = objects[t]
      PROVE  Windows'
  <2>1. \A t \in Surfaces : surf'[t] = IF t = s THEN r ELSE surf[t]
    BY <1>1, <1>8
  <2> QED
    BY <1>8, <2>1, UnmapWindows
<1>9. ASSUME NEW s \in Surfaces
      PROVE  NewSurface.server_id = 0 /\ Emptied(s).server_id = 0
             /\ Consumed(Emptied(s)).server_id = 0
  <2>1. Emptied(s) \in Surface /\ Emptied(s).server_id = 0
    BY <1>1, SurfacesAreSurfaces DEF Emptied, Surface, Typed
  <2>2. Consumed(Emptied(s)).server_id = Emptied(s).server_id
    BY <2>1 DEF Consumed, Surface
  <2> QED
    BY <2>1, <2>2 DEF NewSurface
<1>10. ASSUME NEW s \in Surfaces, CommitNull(s)
       PROVE  Windows'
  BY <1>8, <1>9, <1>10 DEF CommitNull
<1>11. ASSUME NEW s \in Surfaces, toplevel_resource_destroy(s)
       PROVE  Windows'
  <2>1. \A t \in Surfaces \ {s} : objects'[t] = objects[t]
    BY <1>1, <1>11 DEF toplevel_resource_destroy
  <2> QED
    BY <1>8, <1>9, <1>11, <2>1 DEF toplevel_resource_destroy, ToplevelUnmaps
<1>12. ASSUME NEW s \in Surfaces, surface_resource_destroy(s) \/ SurfaceDies(s)
       PROVE  Windows'
  <2>1. DestroySurface(s)
    BY <1>12 DEF surface_resource_destroy, SurfaceDies
  <2>2. \A t \in Surfaces \ {s} : objects'[t] = objects[t]
    BY <1>1, <2>1 DEF DestroySurface
  <2> QED
    BY <1>8, <1>9, <2>1, <2>2 DEF DestroySurface
<1>13. ASSUME NEW s \in Surfaces, CommitShm(s)
       PROVE  Windows'
  <2>1. PICK r \in copy_shm_buffer(s) :
          \/ /\ r.content # 0 /\ Has(s, "xdg_toplevel")
             /\ surface_update(s, r) \/ surface_map(s, r)
          \/ /\ ~(r.content # 0 /\ Has(s, "xdg_toplevel"))
             /\ surf' = [surf EXCEPT ![s] = r] /\ UNCHANGED <<scene, cascade>>
    BY <1>13 DEF CommitShm
  <2>2. UNCHANGED objects
    BY <1>13 DEF CommitShm
  <2>3. CASE /\ r.content # 0 /\ Has(s, "xdg_toplevel")
             /\ surface_update(s, r) \/ surface_map(s, r)
    BY <2>2, <2>3, UpdateWindows, MapWindows
  <2>4. CASE /\ ~(r.content # 0 /\ Has(s, "xdg_toplevel"))
             /\ surf' = [surf EXCEPT ![s] = r] /\ UNCHANGED <<scene, cascade>>
    <3>1. /\ r \in Surface /\ r.server_id = surf[s].server_id
          /\ r.content = surf[s].content \/ r.content # 0
      BY SurfacesAreSurfaces DEF Typed
    <3>2. surf[s].server_id = 0
      BY <2>4, <3>1 DEF Windows, Windowed
    <3> QED
      BY <1>4, <2>2, <2>4, <3>1, <3>2 DEF scene
  <2> QED
    BY <2>1, <2>3, <2>4
<1>14. CASE Client
  <2>1. ASSUME NEW c \in Clients, seat_get(c) \/ ClientDies(c)
        PROVE  Windows'
    BY <1>2, <2>1 DEF seat_get, ClientDies, scene
  <2>2. ASSUME NEW s \in Surfaces, CommitBare(s)
        PROVE  Windows'
    BY <1>2, <2>2 DEF CommitBare, scene
  <2>3. CASE ClientGone
    BY <1>2, <2>3 DEF ClientGone, scene
  <2> QED
    BY <1>3, <1>5, <1>6, <1>7, <1>10, <1>11, <1>12, <1>13, <1>14, <2>1, <2>2, <2>3 DEF Client
<1>15. CASE Loop
  <2>1. ASSUME UNCHANGED <<surf, objects>>, Bufs(stack') = Bufs(stack)
        PROVE  Windows'
    BY <2>1, WindowsKept DEF Has
  <2>2. CASE Frame \/ EndInput \/ wl_frontend_dispatch \/ wl_frontend_keyboard_focus
             \/ wl_frontend_flush
    BY <1>2, <2>2 DEF Frame, EndInput, wl_frontend_dispatch, wl_frontend_keyboard_focus,
                      wl_frontend_flush, scene
  <2>3. ASSUME NEW p \in Points, wl_frontend_pointer_motion(p)
        PROVE  Windows'
    BY <1>1, <2>1, <2>3, AfterWmKeeps DEF wl_frontend_pointer_motion
  <2>4. CASE ButtonOrAltTab
    <3>1. PICK st \in Focusing(stack) : stack' \in AfterWm(st)
      BY <2>4 DEF ButtonOrAltTab
    <3>2. Sound(st) /\ Bufs(st) = Bufs(stack)
      BY <1>1, <3>1, FocusingKeeps
    <3> QED
      BY <2>1, <2>4, <3>1, <3>2, AfterWmKeeps DEF ButtonOrAltTab
  <2>5. CASE OtherCreates
    <3>1. PICK r \in WmRects :
            stack' = window_focus(window_create(stack, "NORMAL", r), stack.next_id)
      BY <2>5 DEF OtherCreates
    <3>2. r \in Rect /\ "NORMAL" \in Role /\ ~IsFull(stack)
      BY <2>5, WmRectsAssumption DEF Role, OtherCreates
    <3>3. Bufs(stack') = Bufs(stack) \cup {<<stack.next_id, 0>>}
      <4>1. /\ Sound(window_create(stack, "NORMAL", r))
            /\ Bufs(window_create(stack, "NORMAL", r)) = Bufs(stack) \cup {<<stack.next_id, 0>>}
        BY <1>1, <3>2, CreateSound, CreateBufs
      <4> QED
        BY <3>1, <4>1, FocusBufs
    <3>4. UNCHANGED <<surf, objects>>
      BY <2>5 DEF OtherCreates
    <3> QED
      BY <3>3, <3>4 DEF Windows, Windowed, Apart, Sampled, Has
  <2>6. CASE OtherDestroys
    <3>1. PICK i \in DOMAIN stack.windows :
            /\ surface_by_window(stack.windows[i].id) = {}
            /\ stack' = window_destroy(stack, stack.windows[i].id)
      BY <2>6 DEF OtherDestroys
    <3> DEFINE id == stack.windows[i].id
    <3>2. Bufs(stack') = {p \in Bufs(stack) : p[1] # id}
      BY <1>1, <3>1, DestroyBufs
    <3>3. \A s \in Surfaces : surf[s].server_id # 0 => surf[s].server_id # id
      BY <3>1 DEF surface_by_window
    <3>4. UNCHANGED <<surf, objects>>
      BY <2>6 DEF OtherDestroys
    <3> HIDE DEF id
    <3> QED
      BY <3>2, <3>3, <3>4 DEF Windows, Windowed, Apart, Sampled, Has
  <2> QED
    BY <1>15, <2>2, <2>3, <2>4, <2>5, <2>6 DEF Loop
<1>16. CASE UNCHANGED vars
  BY <1>2, <1>16 DEF vars, scene
<1> QED
  BY <1>14, <1>15, <1>16 DEF Next

LEMMA WindowsAlways == Spec => [](Typed /\ Windows)
<1>1. Init => Windows
  BY DEF Init, window_stack_init, NewSurface, Windows, Windowed, Apart, Sampled, Bufs, Contents
<1> QED
  BY <1>1, InitTyped, NextTyped, NextWindows, PTL DEF Spec

\* A mapped surface has a toplevel and a window of its own, and no window with pixels
\* outlives its surface: whatever clients ask for, and whoever dies when.
THEOREM OneWindowPerToplevel == Spec => []WindowPerToplevel
BY WindowsAlways, WindowsSay, PTL

\* The compositor samples the copy the surface holds now, whatever realloc moved and
\* surface_unmap freed.
THEOREM PixelsStayLive == Spec => []PixelsLive
BY WindowsAlways, WindowsSay, PTL

----------------------------------------------------------------------------
(* Repaints: the screen is right, or someone remembers that it is not.     *)

Owed == dirty \/ current \/ fe_dirty

LEMMA UnmapOwes ==
  ASSUME NEW s \in Surfaces, surface_unmap(s), Owed, UNCHANGED dirty
  PROVE  Owed'
  BY DEF surface_unmap, MarkUnmapped, Owed

LEMMA NextOwed == Owed /\ [Next]_vars => Owed'
<1> SUFFICES ASSUME Owed, [Next]_vars PROVE Owed'
  OBVIOUS
<1>1. CASE UNCHANGED <<dirty, current, fe_dirty>>
  BY <1>1 DEF Owed
<1>2. CASE UNCHANGED scene /\ UNCHANGED dirty
  BY <1>1, <1>2 DEF scene
<1>3. ASSUME NEW s \in Surfaces, CommitShm(s)
      PROVE  Owed'
  <2>1. /\ UNCHANGED dirty
        /\ UNCHANGED scene \/ fe_dirty' = TRUE
    BY <1>3 DEF CommitShm, Request, surface_update, surface_map
  <2> QED
    BY <1>2, <2>1 DEF Owed
<1>4. ASSUME NEW s \in Surfaces,
             \/ CommitNull(s) \/ toplevel_resource_destroy(s)
             \/ surface_resource_destroy(s) \/ SurfaceDies(s)
      PROVE  Owed'
  <2>1. surface_unmap(s) /\ UNCHANGED dirty
    BY <1>4 DEF CommitNull, toplevel_resource_destroy, ToplevelUnmaps, surface_resource_destroy,
                SurfaceDies, DestroySurface, Request
  <2> QED
    BY <2>1, UnmapOwes
<1>5. CASE Client
  <2>1. ASSUME NEW c \in Clients, seat_get(c) \/ ClientDies(c)
        PROVE  Owed'
    BY <1>2, <2>1 DEF seat_get, ClientDies, Request
  <2>2. ASSUME NEW s \in Surfaces,
               \/ comp_create_surface(s) \/ wm_get_xdg_surface(s) \/ xs_get_toplevel(s)
               \/ \E b \in Offers[s] : surf_attach(s, b)
               \/ CommitInitial(s) \/ CommitBare(s) \/ CommitOther(s)
               \/ xdg_surface_resource_destroy(s)
        PROVE  Owed'
    <3>1. UNCHANGED scene /\ UNCHANGED dirty
      BY <2>2 DEF comp_create_surface, wm_get_xdg_surface, xs_get_toplevel, surf_attach,
                  CommitInitial, CommitBare, CommitOther, xdg_surface_resource_destroy, Request
    <3> QED
      BY <1>2, <3>1
  <2>3. CASE ClientGone
    BY <1>2, <2>3 DEF ClientGone
  <2> QED
    BY <1>3, <1>4, <1>5, <2>1, <2>2, <2>3 DEF Client
<1>6. CASE Loop
  <2>1. CASE Frame
    BY <2>1 DEF Frame, Owed
  <2>2. CASE wl_frontend_dispatch
    BY <2>2 DEF wl_frontend_dispatch, Owed
  <2>3. CASE EndInput \/ wl_frontend_keyboard_focus \/ wl_frontend_flush
    BY <1>2, <2>3 DEF EndInput, wl_frontend_keyboard_focus, wl_frontend_flush
  <2>4. CASE \/ \E p \in Points : wl_frontend_pointer_motion(p)
             \/ ButtonOrAltTab \/ OtherCreates \/ OtherDestroys
    <3>1. dirty' = TRUE
      BY <2>4 DEF wl_frontend_pointer_motion, ButtonOrAltTab, OtherCreates, OtherDestroys, Painted
    <3> QED
      BY <3>1 DEF Owed
  <2> QED
    BY <1>6, <2>1, <2>2, <2>3, <2>4 DEF Loop
<1>7. CASE UNCHANGED vars
  BY <1>2, <1>7 DEF vars
<1> QED
  BY <1>5, <1>6, <1>7 DEF Next

\* No change of the scene is forgotten: a loop that goes to sleep has drawn it, or has
\* it marked for the next dispatch.
THEOREM NoRepaintLost == Spec => []SceneRepainted
<1>1. Init => Owed
  BY DEF Init, Owed
<1>2. Owed => SceneRepainted
  BY DEF Owed, SceneRepainted
<1> QED
  BY <1>1, <1>2, NextOwed, PTL DEF Spec

----------------------------------------------------------------------------
(* Who was told of the focus.                                              *)

\* Client c, with the seat's objects, has the window id.
Holds(c, id, sf, bd) == id # 0 /\ c \in bd /\ \E s \in Surfaces : sf[s].server_id = id /\ Owner[s] = c

\* Nobody has entered a window that is not his and in focus; he has, if his seat came first.
Ledger(told, id, sf, bd) ==
  \A c \in Clients :
    /\ \A i \in told[c] : i = id /\ Holds(c, id, sf, bd)
    /\ SeatFirst /\ Holds(c, id, sf, bd) => id \in told[c]

Ledgers == /\ Ledger(keyboard_told, kbd_focus, surf, bound)
           /\ Ledger(pointer_told, pointer_focus, surf, bound)

\* Such a client has it before it has a surface, until it is gone.
SeatHeld == SeatFirst => \A s \in Surfaces : objects[s] # {} => Owner[s] \in bound \cup dying

\* Focus is on windows that exist or existed.
FocusIssued == pointer_focus < stack.next_id /\ kbd_focus < stack.next_id

Announced == Ledgers /\ SeatHeld /\ FocusIssued

LEMMA LedgersSay == SeatFirst /\ Ledgers => EventsAreAnnounced
  BY DEF Ledgers, Ledger, Holds, EventsAreAnnounced, Told, OwnersOf, surface_by_window

\* The windows of the clients with the seat stay whose they are.
LEMMA LedgerKept ==
  ASSUME NEW told, NEW id, NEW sf, NEW sg, NEW bd, Ledger(told, id, sf, bd),
         \A s \in Surfaces : sg[s].server_id = id <=> sf[s].server_id = id
  PROVE  Ledger(told, id, sg, bd)
  BY DEF Ledger, Holds

\* Focus moves.
LEMMA RefocusLedger ==
  ASSUME NEW told \in [Clients -> SUBSET Nat], NEW old, NEW new, Ledger(told, old, surf, bound)
  PROVE  Ledger(Refocus(told, old, new), new, surf, bound)
<1>1. \A c \in Clients : Refocus(told, old, new)[c]
         = (told[c] \ {old}) \cup {i \in {new} : c \in bound \cap OwnersOf(new)}
  BY DEF Refocus
<1>2. \A c \in Clients : Refocus(told, old, new)[c]
         = {i \in {new} : c \in bound \cap OwnersOf(new)}
  BY <1>1 DEF Ledger
<1>3. \A c \in Clients : c \in bound \cap OwnersOf(new) <=> Holds(c, new, surf, bound)
  BY DEF Holds, OwnersOf, surface_by_window
<1> QED
  BY <1>2, <1>3 DEF Ledger

\* A window goes, and its surface has none.
LEMMA UnmapLedger ==
  ASSUME NEW told \in [Clients -> SUBSET Nat], NEW id, NEW s \in Surfaces, NEW sg,
         Ledger(told, id, surf, bound), Apart, sg[s].server_id = 0,
         \A t \in Surfaces \ {s} : sg[t].server_id = surf[t].server_id,
         NEW left, \A c \in Clients : left[c] = told[c] \ ({surf[s].server_id} \ {0})
  PROVE  Ledger(left, id, sg, bound)
<1>1. CASE id = 0
  BY <1>1 DEF Ledger, Holds
<1>2. CASE id # 0 /\ id = surf[s].server_id
  <2>1. ~\E t \in Surfaces : sg[t].server_id = id
    BY <1>2 DEF Apart
  <2>2. \A c \in Clients : left[c] = {}
    BY <1>2 DEF Ledger
  <2> QED
    BY <2>1, <2>2 DEF Ledger, Holds
<1>3. CASE id # 0 /\ id # surf[s].server_id
  <2>1. \A c \in Clients : \A i : i \in left[c] <=> i \in told[c]
    BY <1>3 DEF Ledger
  <2>2. \A t \in Surfaces : sg[t].server_id = id <=> surf[t].server_id = id
    BY <1>3
  <2> QED
    BY <2>1, <2>2 DEF Ledger, Holds
<1> QED
  BY <1>1, <1>2, <1>3

LEMMA UnmapAnnounced ==
  ASSUME Typed, Windows, Announced, NEW s \in Surfaces, surface_unmap(s),
         surf'[s].server_id = 0, UNCHANGED clients,
         \A t \in Surfaces \ {s} : surf'[t] = surf[t],
         \A t \in Surfaces : objects'[t] # {} => objects[t] # {}
  PROVE  Announced'
<1>1. /\ pointer_told \in [Clients -> SUBSET Nat]
      /\ keyboard_told \in [Clients -> SUBSET Nat]
      /\ Apart /\ UNCHANGED <<bound, dying, pointer_focus, kbd_focus>>
  BY DEF Typed, Words, Windows, surface_unmap, clients
<1>2. /\ \A c \in Clients : pointer_told'[c] = pointer_told[c] \ ({surf[s].server_id} \ {0})
      /\ \A c \in Clients : keyboard_told'[c] = keyboard_told[c] \ ({surf[s].server_id} \ {0})
  BY DEF surface_unmap
<1>3. Ledger(pointer_told', pointer_focus, surf', bound)
  BY <1>1, <1>2, UnmapLedger DEF Announced, Ledgers
<1>4. Ledger(keyboard_told', kbd_focus, surf', bound)
  BY <1>1, <1>2, UnmapLedger DEF Announced, Ledgers
<1>5. Ledgers'
  BY <1>1, <1>3, <1>4 DEF Ledgers
<1>6. SeatHeld'
  BY <1>1 DEF Announced, SeatHeld
<1>7. FocusIssued'
  BY <1>1, UnmapKeeps DEF Announced, FocusIssued
<1> QED
  BY <1>5, <1>6, <1>7 DEF Announced

\* Steps that leave the ledgers, the seats and the windows' surfaces alone.
LEMMA QuietAnnounced ==
  ASSUME Typed, Announced, UNCHANGED <<clients, focus>>, stack'.next_id \in Nat,
         stack.next_id <= stack'.next_id,
         \A s \in Surfaces : \/ surf'[s].server_id = surf[s].server_id
                             \/ surf[s].server_id = 0 /\ surf'[s].server_id = stack.next_id,
         SeatHeld'
  PROVE  Announced'
<1>1. /\ UNCHANGED <<bound, pointer_focus, kbd_focus, pointer_told, keyboard_told>>
      /\ pointer_focus \in Nat /\ kbd_focus \in Nat /\ stack.next_id \in Nat
      /\ pointer_focus < stack.next_id /\ kbd_focus < stack.next_id
  BY DEF Typed, Words, Sound, Stack, focus, clients, Announced, FocusIssued
<1>2. FocusIssued'
  BY <1>1 DEF FocusIssued
<1>3. ASSUME NEW told, NEW id \in Nat, id < stack.next_id, Ledger(told, id, surf, bound)
      PROVE  Ledger(told, id, surf', bound)
  <2>1. CASE id = 0
    BY <1>3, <2>1 DEF Ledger, Holds
  <2>2. CASE id # 0
    <3>1. \A s \in Surfaces : surf'[s].server_id = id <=> surf[s].server_id = id
      BY <1>1, <1>3, <2>2
    <3> QED
      BY <1>3, <3>1, LedgerKept
  <2> QED
    BY <2>1, <2>2
<1>4. Ledgers'
  BY <1>1, <1>3 DEF Announced, Ledgers
<1> QED
  BY <1>2, <1>4 DEF Announced

\* The requests that make or end no window.
LEMMA RequestAnnounced ==
  ASSUME Typed, Windows, Announced, UNCHANGED <<stack, focus>>,
         \A s \in Surfaces : surf'[s].server_id = surf[s].server_id,
         UNCHANGED clients,
         \A s \in Surfaces : objects'[s] # {} => \/ objects[s] # {}
                                                 \/ SeatFirst => Owner[s] \in bound
  PROVE  Announced'
<1>1. SeatHeld'
  BY DEF Announced, SeatHeld, clients
<1>2. stack'.next_id \in Nat /\ stack.next_id <= stack'.next_id
  BY DEF Typed, Sound, Stack
<1> QED
  BY <1>1, <1>2, QuietAnnounced

\* A client that binds the seat has no window yet, if seats come first.
LEMMA SeatAnnounced ==
  ASSUME Typed, Windows, Announced, NEW c \in Clients, seat_get(c)
  PROVE  Announced'
<1>1. /\ bound' = bound \cup {c} /\ dying = {} /\ c \notin bound
      /\ UNCHANGED <<stack, surf, objects, dying, pointer_focus, kbd_focus,
                     pointer_told, keyboard_told>>
  BY DEF seat_get, Request, scene, focus
<1>2. ASSUME NEW told, NEW id, Ledger(told, id, surf, bound)
      PROVE  Ledger(told, id, surf, bound')
  <2>1. SeatFirst => \A s \in Surfaces : Owner[s] = c => surf[s].server_id = 0
    BY <1>1 DEF Announced, SeatHeld, Windows, Windowed, Has
  <2> QED
    BY <1>1, <1>2, <2>1 DEF Ledger, Holds
<1>3. Ledgers'
  BY <1>1, <1>2 DEF Announced, Ledgers
<1>4. SeatHeld' /\ FocusIssued'
  BY <1>1 DEF Announced, SeatHeld, FocusIssued
<1> QED
  BY <1>3, <1>4 DEF Announced

\* The dead are told nothing.
LEMMA DeathAnnounced ==
  ASSUME Typed, Windows, Announced, NEW c \in Clients, ClientDies(c)
  PROVE  Announced'
<1>1. /\ bound' = bound \ {c} /\ dying = {} /\ dying' = {c}
      /\ UNCHANGED <<stack, surf, objects, pointer_focus, kbd_focus>>
  BY DEF ClientDies, scene
<1>2. /\ pointer_told \in [Clients -> SUBSET Nat]
      /\ keyboard_told \in [Clients -> SUBSET Nat]
      /\ pointer_told' = [pointer_told EXCEPT ![c] = {}]
      /\ keyboard_told' = [keyboard_told EXCEPT ![c] = {}]
  BY DEF Typed, Words, ClientDies
<1>3. ASSUME NEW told \in [Clients -> SUBSET Nat], NEW id, Ledger(told, id, surf, bound)
      PROVE  Ledger([told EXCEPT ![c] = {}], id, surf, bound \ {c})
  BY <1>3 DEF Ledger, Holds
<1>4. Ledgers'
  BY <1>1, <1>2, <1>3 DEF Announced, Ledgers
<1>5. SeatHeld' /\ FocusIssued'
  BY <1>1 DEF Announced, SeatHeld, FocusIssued
<1> QED
  BY <1>4, <1>5 DEF Announced

\* A commit of pixels makes at most one window, with the next id.
LEMMA ShmAnnounced ==
  ASSUME Typed, Windows, Announced, NEW s \in Surfaces, CommitShm(s)
  PROVE  Announced'
<1>1. PICK r \in copy_shm_buffer(s) :
        \/ surface_update(s, r) \/ surface_map(s, r)
        \/ surf' = [surf EXCEPT ![s] = r] /\ UNCHANGED scene
  BY DEF CommitShm
<1>2. /\ UNCHANGED <<objects, clients, focus>> /\ SeatHeld'
      /\ Sound(stack) /\ stack.next_id \in Nat /\ surf \in [Surfaces -> Surface]
      /\ r \in Surface /\ r.server_id = surf[s].server_id
  BY SurfacesAreSurfaces DEF CommitShm, Typed, Words, Sound, Stack, clients, Announced, SeatHeld
<1>3. CASE surface_update(s, r)
  <2>1. stack'.next_id = stack.next_id
    BY <1>2, <1>3, ShownKeeps DEF surface_update
  <2>2. \A t \in Surfaces : surf'[t].server_id = surf[t].server_id
    BY <1>2, <1>3 DEF surface_update
  <2> QED
    BY <1>2, <2>1, <2>2, QuietAnnounced
<1>4. CASE UNCHANGED scene /\ surf' = [surf EXCEPT ![s] = r]
  <2>1. \A t \in Surfaces : surf'[t].server_id = surf[t].server_id
    BY <1>2, <1>4
  <2> QED
    BY <1>2, <1>4, <2>1, QuietAnnounced DEF scene
<1>5. CASE surface_map(s, r) /\ ~(UNCHANGED scene /\ surf' = [surf EXCEPT ![s] = r])
  <2> DEFINE q == [r EXCEPT !.server_id = stack.next_id]
  <2>1. /\ surf[s].server_id = 0 /\ ~IsFull(stack) /\ stack' = Mapped(r)
        /\ surf' = [surf EXCEPT ![s] = q]
    BY <1>5 DEF surface_map
  <2>2. stack'.next_id = stack.next_id + 1
    BY <1>2, <2>1, MappedKeeps
  <2>3. q.server_id = stack.next_id
    BY <1>2 DEF Surface
  <2> HIDE DEF q
  <2>4. \A t \in Surfaces : surf'[t] = IF t = s THEN q ELSE surf[t]
    BY <1>2, <2>1
  <2> QED
    BY <1>2, <2>1, <2>2, <2>3, <2>4, QuietAnnounced
<1> QED
  BY <1>1, <1>3, <1>4, <1>5

LEMMA ClientAnnounced == ASSUME Typed, Windows, Announced, Client PROVE Announced'
<1>1. /\ surf \in [Surfaces -> Surface] /\ objects \in [Surfaces -> SUBSET Object]
  BY DEF Typed, Words
<1>2. ASSUME NEW s \in Surfaces,
             \/ wm_get_xdg_surface(s) \/ xs_get_toplevel(s) \/ CommitBare(s)
             \/ xdg_surface_resource_destroy(s)
      PROVE  Announced'
  <2>1. UNCHANGED <<stack, focus, surf, clients>>
    BY <1>2 DEF wm_get_xdg_surface, xs_get_toplevel, CommitBare,
                xdg_surface_resource_destroy, scene
  <2>2. \A t \in Surfaces : objects'[t] # {} => objects[t] # {}
    BY <1>1, <1>2 DEF wm_get_xdg_surface, xs_get_toplevel, CommitBare,
                      xdg_surface_resource_destroy, Has
  <2> QED
    BY <2>1, <2>2, RequestAnnounced
<1>3. ASSUME NEW s \in Surfaces, comp_create_surface(s)
      PROVE  Announced'
  <2>1. surf[s].server_id = 0 /\ NewSurface.server_id = 0
    BY <1>3 DEF comp_create_surface, Windows, Windowed, Has, NewSurface
  <2>2. \A t \in Surfaces : surf'[t] = IF t = s THEN NewSurface ELSE surf[t]
    BY <1>1, <1>3 DEF comp_create_surface
  <2>3. /\ \A t \in Surfaces \ {s} : objects'[t] = objects[t]
        /\ SeatFirst => Owner[s] \in bound
        /\ UNCHANGED <<stack, focus, clients>>
    BY <1>1, <1>3 DEF comp_create_surface, scene
  <2> QED
    BY <2>1, <2>2, <2>3, RequestAnnounced
<1>4. ASSUME NEW s \in Surfaces,
             \/ \E b \in Offers[s] : surf_attach(s, b)
             \/ CommitInitial(s) \/ CommitOther(s)
      PROVE  Announced'
  <2>1. UNCHANGED <<stack, focus, objects, clients>>
    BY <1>4 DEF surf_attach, CommitInitial, CommitOther, scene
  <2>2. surf[s] \in Surface
    BY <1>1
  <2>3. \E r : r.server_id = surf[s].server_id /\ surf' = [surf EXCEPT ![s] = r]
    <3>1. CASE \E b \in Offers[s] : surf_attach(s, b)
      <4>1. PICK b : surf' = [surf EXCEPT ![s].attached = TRUE, ![s].pending_buffer = b]
        BY <3>1 DEF surf_attach
      <4> DEFINE r == [surf[s] EXCEPT !.attached = TRUE, !.pending_buffer = b]
      <4>2. r.server_id = surf[s].server_id
        BY <2>2 DEF Surface
      <4>3. surf' = [surf EXCEPT ![s] = r]
        BY <1>1, <4>1
      <4> HIDE DEF r
      <4> QED
        BY <4>2, <4>3
    <3>2. CASE CommitInitial(s)
      <4> DEFINE r == [surf[s] EXCEPT !.initial_configured = TRUE]
      <4>1. r.server_id = surf[s].server_id
        BY <2>2 DEF Surface
      <4>2. surf' = [surf EXCEPT ![s] = r]
        BY <1>1, <3>2 DEF CommitInitial
      <4> HIDE DEF r
      <4> QED
        BY <4>1, <4>2
    <3>3. CASE CommitOther(s)
      <4>1. Consumed(surf[s]).server_id = surf[s].server_id
        BY <2>2 DEF Consumed, Surface
      <4>2. surf' = [surf EXCEPT ![s] = Consumed(surf[s])]
        BY <1>1, <3>3 DEF CommitOther
      <4> QED
        BY <4>1, <4>2
    <3> QED
      BY <1>4, <3>1, <3>2, <3>3
  <2>4. \A t \in Surfaces : surf'[t].server_id = surf[t].server_id
    BY <1>1, <2>3
  <2> QED
    BY <2>1, <2>4, RequestAnnounced
<1>5. ASSUME NEW s \in Surfaces, NEW r, r.server_id = 0, surf' = [surf EXCEPT ![s] = r],
             surface_unmap(s), UNCHANGED clients,
             \A t \in Surfaces : objects'[t] # {} => objects[t] # {}
      PROVE  Announced'
  <2>1. \A t \in Surfaces : surf'[t] = IF t = s THEN r ELSE surf[t]
    BY <1>1, <1>5
  <2> QED
    BY <1>5, <2>1, UnmapAnnounced
<1>6. ASSUME NEW s \in Surfaces
      PROVE  NewSurface.server_id = 0 /\ Emptied(s).server_id = 0
             /\ Consumed(Emptied(s)).server_id = 0
  <2>1. Emptied(s) \in Surface /\ Emptied(s).server_id = 0
    BY <1>1, SurfacesAreSurfaces DEF Emptied, Surface, Typed
  <2>2. Consumed(Emptied(s)).server_id = Emptied(s).server_id
    BY <2>1 DEF Consumed, Surface
  <2> QED
    BY <2>1, <2>2 DEF NewSurface
<1>7. ASSUME NEW s \in Surfaces, CommitNull(s)
      PROVE  Announced'
  BY <1>5, <1>6, <1>7 DEF CommitNull
<1>8. ASSUME NEW s \in Surfaces, toplevel_resource_destroy(s)
      PROVE  Announced'
  <2>1. \A t \in Surfaces : objects'[t] # {} => objects[t] # {}
    BY <1>1, <1>8 DEF toplevel_resource_destroy
  <2> QED
    BY <1>5, <1>6, <1>8, <2>1 DEF toplevel_resource_destroy, ToplevelUnmaps
<1>9. ASSUME NEW s \in Surfaces, surface_resource_destroy(s) \/ SurfaceDies(s)
      PROVE  Announced'
  <2>1. DestroySurface(s) /\ UNCHANGED clients
    BY <1>9 DEF surface_resource_destroy, SurfaceDies
  <2>2. \A t \in Surfaces : objects'[t] # {} => objects[t] # {}
    BY <1>1, <2>1 DEF DestroySurface
  <2> QED
    BY <1>5, <1>6, <2>1, <2>2 DEF DestroySurface
<1>10. CASE ClientGone
  <2>1. /\ UNCHANGED <<stack, surf, objects, bound, focus>> /\ dying' = {}
        /\ \A s \in Surfaces : Owner[s] \in dying => objects[s] = {}
    BY <1>10 DEF ClientGone, scene
  <2> QED
    BY <2>1 DEF Announced, Ledgers, SeatHeld, FocusIssued, focus
<1> QED
  BY <1>2, <1>3, <1>4, <1>7, <1>8, <1>9, <1>10, SeatAnnounced, DeathAnnounced, ShmAnnounced
     DEF Client

\* Input, the other transport and the loop make, focus and end other windows.
LEMMA LoopAnnounced == ASSUME Typed, Windows, Announced, Loop PROVE Announced'
<1>1. /\ Sound(stack) /\ stack.next_id \in Nat
      /\ pointer_told \in [Clients -> SUBSET Nat]
      /\ keyboard_told \in [Clients -> SUBSET Nat]
      /\ pointer_focus \in Nat /\ kbd_focus \in Nat
  BY DEF Typed, Words, Sound, Stack
<1>2. UNCHANGED <<surf, objects, clients, bound, dying>> /\ SeatHeld'
  BY DEF Loop, Frame, wl_frontend_pointer_motion, ButtonOrAltTab, OtherCreates, OtherDestroys,
         EndInput, wl_frontend_dispatch, wl_frontend_keyboard_focus, wl_frontend_flush,
         clients, Announced, SeatHeld
<1>3. ASSUME UNCHANGED focus, stack'.next_id \in Nat, stack.next_id <= stack'.next_id
      PROVE  Announced'
  BY <1>2, <1>3, QuietAnnounced
<1>4. CASE Frame \/ EndInput \/ wl_frontend_dispatch \/ wl_frontend_flush
  <2>1. UNCHANGED <<stack, focus>>
    BY <1>4 DEF Frame, EndInput, wl_frontend_dispatch, wl_frontend_flush, scene
  <2> QED
    BY <1>1, <1>3, <2>1
<1>5. CASE ButtonOrAltTab
  <2>1. PICK st \in Focusing(stack) : stack' \in AfterWm(st)
    BY <1>5 DEF ButtonOrAltTab
  <2>2. Sound(st) /\ st.next_id = stack.next_id
    BY <1>1, <2>1, FocusingKeeps
  <2>3. stack'.next_id = stack.next_id
    BY <2>1, <2>2, AfterWmKeeps
  <2> QED
    BY <1>1, <1>3, <1>5, <2>3 DEF ButtonOrAltTab
<1>6. CASE OtherCreates
  <2>1. PICK r \in WmRects :
          stack' = window_focus(window_create(stack, "NORMAL", r), stack.next_id)
    BY <1>6 DEF OtherCreates
  <2>2. r \in Rect /\ "NORMAL" \in Role /\ ~IsFull(stack)
    BY <1>6, WmRectsAssumption DEF Role, OtherCreates
  <2>3. stack'.next_id = stack.next_id + 1
    BY <1>1, <2>1, <2>2, CreateSound, FocusSound
  <2> QED
    BY <1>1, <1>3, <1>6, <2>3 DEF OtherCreates
<1>7. CASE OtherDestroys
  <2>1. PICK id : stack' = window_destroy(stack, id)
    BY <1>7 DEF OtherDestroys
  <2>2. stack'.next_id = stack.next_id
    BY <1>1, <2>1, DestroySound
  <2> QED
    BY <1>1, <1>3, <1>7, <2>2 DEF OtherDestroys
<1>8. ASSUME NEW p \in Points, wl_frontend_pointer_motion(p)
      PROVE  Announced'
  <2>1. PICK st \in AfterWm(stack) :
          /\ stack' = st
          /\ pointer_focus' = PointerTarget(st, p)
          /\ pointer_told' = Refocus(pointer_told, pointer_focus, PointerTarget(st, p))
    BY <1>8 DEF wl_frontend_pointer_motion
  <2>2. Sound(st) /\ st.next_id = stack.next_id
    BY <1>1, AfterWmKeeps
  <2>3. pointer_focus' < stack'.next_id /\ stack'.next_id = stack.next_id
    BY <2>1, <2>2, PointerTargetIsId
  <2>4. UNCHANGED <<kbd_focus, keyboard_told>>
    BY <1>8 DEF wl_frontend_pointer_motion
  <2>5. Ledger(pointer_told', pointer_focus', surf, bound)
    BY <1>1, <2>1, RefocusLedger DEF Announced, Ledgers
  <2>6. Ledgers'
    BY <1>2, <2>4, <2>5 DEF Announced, Ledgers
  <2>7. FocusIssued'
    BY <2>3, <2>4 DEF Announced, FocusIssued
  <2> QED
    BY <1>2, <2>6, <2>7 DEF Announced
<1>9. CASE wl_frontend_keyboard_focus
  <2>1. UNCHANGED <<stack, pointer_focus, pointer_told>> /\ kbd_focus' = KeyboardTarget
    BY <1>9 DEF wl_frontend_keyboard_focus, scene
  <2>2. KeyboardTarget < stack.next_id
    <3>1. CASE KeyboardTarget = 0
      BY <1>1, <3>1 DEF Sound, Stack
    <3>2. CASE KeyboardTarget # 0
      <4>1. PICK s \in Surfaces : surf[s].server_id = KeyboardTarget
        BY <3>2 DEF KeyboardTarget, surface_by_window
      <4>2. <<KeyboardTarget, surf[s].content>> \in Bufs(stack)
        BY <3>2, <4>1 DEF Windows, Windowed
      <4> QED
        BY <1>1, <4>2, BufsDecide
    <3> QED
      BY <3>1, <3>2
  <2>3. Ledger(keyboard_told', kbd_focus', surf, bound)
    <3>1. CASE KeyboardTarget = kbd_focus
      BY <1>9, <2>1, <3>1 DEF wl_frontend_keyboard_focus, Announced, Ledgers
    <3>2. CASE KeyboardTarget # kbd_focus
      <4>1. keyboard_told' = Refocus(keyboard_told, kbd_focus, KeyboardTarget)
        BY <1>9, <3>2 DEF wl_frontend_keyboard_focus
      <4> QED
        BY <1>1, <2>1, <4>1, RefocusLedger DEF Announced, Ledgers
    <3> QED
      BY <3>1, <3>2
  <2>4. Ledgers'
    BY <1>2, <2>1, <2>3 DEF Announced, Ledgers
  <2>5. FocusIssued'
    BY <2>1, <2>2 DEF Announced, FocusIssued
  <2> QED
    BY <1>2, <2>4, <2>5 DEF Announced
<1> QED
  BY <1>4, <1>5, <1>6, <1>7, <1>8, <1>9 DEF Loop

LEMMA AnnouncedAlways == Spec => []Announced
<1>1. Init => Announced
  BY DEF Init, window_stack_init, NewSurface, Announced, Ledgers, Ledger, Holds, SeatHeld,
         FocusIssued
<1>2. Typed /\ Windows /\ Announced /\ [Next]_vars => Announced'
  <2> SUFFICES ASSUME Typed, Windows, Announced, [Next]_vars PROVE Announced'
    OBVIOUS
  <2>1. CASE UNCHANGED vars
    BY <2>1 DEF vars, scene, focus, clients, Announced, Ledgers, SeatHeld, FocusIssued
  <2> QED
    BY <2>1, ClientAnnounced, LoopAnnounced DEF Next
<1> QED
  BY <1>1, <1>2, WindowsAlways, PTL DEF Spec

\* A client with the seat's objects, as long as it lives, has been told of the focus on
\* a window of its own; a client that binds the seat only after its window got the focus
\* is not, hence the hypothesis.
THEOREM FocusIsAnnounced == ASSUME SeatFirst PROVE Spec => []EventsAreAnnounced
<1>1. Announced => EventsAreAnnounced
  BY LedgersSay DEF Announced
<1> QED
  BY <1>1, AnnouncedAlways, PTL

\* Whatever clients do in whatever order: nobody has entered a window that is another
\* client's, or that has lost the focus.
NobodyElseTold ==
  \A c \in Clients :
    /\ \A id \in keyboard_told[c] : id = kbd_focus /\ c \in bound \cap OwnersOf(id)
    /\ \A id \in pointer_told[c] : id = pointer_focus /\ c \in bound \cap OwnersOf(id)

\* wl_frontend_keyboard_focus and the pointer's: a leave event for every enter event.
THEOREM NobodyElseIsTold == Spec => []NobodyElseTold
<1>1. Announced => NobodyElseTold
  BY DEF Announced, Ledgers, Ledger, Holds, NobodyElseTold, OwnersOf, surface_by_window
<1> QED
  BY <1>1, AnnouncedAlways, PTL


----------------------------------------------------------------------------
(* The xdg handshake: who may be left waiting for a configure event.       *)

\* A toplevel's xdg_surface is there, so is that of a handshake, and a handshake past its
\* first commit is one of a surface configured once.
Handshakes ==
  \A s \in Surfaces :
    /\ Has(s, "xdg_toplevel") => Has(s, "xdg_surface")
    /\ handshake[s] # "none" => Has(s, "xdg_surface")
    /\ handshake[s] \in {"waiting", "configured"} => surf[s].initial_configured

\* Steps that take no surface's configure back, and objects and handshakes as they are.
LEMMA HandshakesKept ==
  ASSUME Handshakes, UNCHANGED <<objects, handshake>>,
         \A s \in Surfaces : surf[s].initial_configured => surf'[s].initial_configured
  PROVE  Handshakes'
  BY DEF Handshakes, Has

LEMMA NextHandshakes == Typed /\ WindowPerToplevel /\ Handshakes /\ [Next]_vars => Handshakes'
<1> SUFFICES ASSUME Typed, WindowPerToplevel, Handshakes, [Next]_vars
             PROVE  Handshakes'
  OBVIOUS
<1>1. /\ surf \in [Surfaces -> Surface]
      /\ objects \in [Surfaces -> SUBSET Object] /\ DOMAIN handshake = Surfaces
  BY TypedIsTypeOK DEF TypeOK
<1>2. CASE UNCHANGED <<surf, objects, handshake>>
  BY <1>2 DEF Handshakes, Has
<1>3. ASSUME NEW s \in Surfaces, NEW r, surf' = [surf EXCEPT ![s] = r],
             surf[s].initial_configured => r.initial_configured,
             UNCHANGED <<objects, handshake>>
      PROVE  Handshakes'
  BY <1>1, <1>3, HandshakesKept
<1>4. ASSUME NEW s \in Surfaces
      PROVE  /\ surf[s] \in Surface /\ Emptied(s).initial_configured = surf[s].initial_configured
             /\ \A r \in Surface : Consumed(r).initial_configured = r.initial_configured
             /\ Consumed(Emptied(s)).initial_configured = surf[s].initial_configured
  BY <1>1 DEF Surface, Emptied, Consumed
<1>5. ASSUME NEW s \in Surfaces, comp_create_surface(s) \/ DestroySurface(s),
             \/ handshake' = [handshake EXCEPT ![s] = "none"]
             \/ UNCHANGED handshake /\ ~Has(s, "xdg_surface")
      PROVE  Handshakes'
  <2>1. /\ surf' = [surf EXCEPT ![s] = NewSurface]
        /\ objects' = [objects EXCEPT ![s] = {}] \/ objects' = [objects EXCEPT ![s] = {"surface"}]
    BY <1>5 DEF comp_create_surface, DestroySurface
  <2>2. "xdg_surface" \notin objects'[s] /\ "xdg_toplevel" \notin objects'[s]
    BY <1>1, <2>1
  <2>3. handshake'[s] = "none"
    BY <1>1, <1>5 DEF Handshakes, Has
  <2>4. ASSUME NEW t \in Surfaces, t # s
        PROVE  surf'[t] = surf[t] /\ objects'[t] = objects[t] /\ handshake'[t] = handshake[t]
    BY <1>1, <1>5, <2>1, <2>4
  <2> QED
    BY <2>2, <2>3, <2>4 DEF Handshakes, Has
<1>6. ASSUME NEW s \in Surfaces, comp_create_surface(s)
      PROVE  Handshakes'
  BY <1>5, <1>6 DEF comp_create_surface, Has
<1>7. ASSUME NEW s \in Surfaces, surface_resource_destroy(s) \/ SurfaceDies(s)
      PROVE  Handshakes'
  <2>1. CASE surface_resource_destroy(s)
    BY <1>5, <2>1 DEF surface_resource_destroy, Has
  <2>2. CASE SurfaceDies(s)
    BY <1>5, <2>2 DEF SurfaceDies
  <2> QED
    BY <1>7, <2>1, <2>2
<1>8. ASSUME NEW s \in Surfaces,
             \/ wm_get_xdg_surface(s) \/ xs_get_toplevel(s) \/ xdg_surface_resource_destroy(s)
      PROVE  Handshakes'
  BY <1>1, <1>8 DEF wm_get_xdg_surface, xs_get_toplevel, xdg_surface_resource_destroy,
                    Handshakes, Has
<1>9. ASSUME NEW s \in Surfaces, toplevel_resource_destroy(s)
      PROVE  Handshakes'
  <2>1. /\ objects' = [objects EXCEPT ![s] = @ \ {"xdg_toplevel"}] /\ UNCHANGED handshake
        /\ surf' = [surf EXCEPT ![s] = Emptied(s)]
    BY <1>9 DEF toplevel_resource_destroy, ToplevelUnmaps
  <2>2. ASSUME NEW t \in Surfaces
        PROVE  /\ surf'[t].initial_configured = surf[t].initial_configured
               /\ Has(t, "xdg_surface")' <=> Has(t, "xdg_surface")
               /\ Has(t, "xdg_toplevel")' => Has(t, "xdg_toplevel")
    BY <1>1, <1>4, <2>1 DEF Has
  <2> QED
    BY <2>1, <2>2 DEF Handshakes
<1>10. ASSUME NEW s \in Surfaces, CommitInitial(s)
       PROVE  Handshakes'
  <2>1. /\ surf' = [surf EXCEPT ![s].initial_configured = TRUE] /\ UNCHANGED objects
        /\ handshake' = [handshake EXCEPT ![s] = "configured"] /\ Has(s, "xdg_surface")
    BY <1>10 DEF CommitInitial, InitialCommit
  <2>2. /\ surf'[s].initial_configured
        /\ \A t \in Surfaces : t # s => surf'[t] = surf[t] /\ handshake'[t] = handshake[t]
    BY <1>1, <2>1 DEF Surface
  <2> QED
    BY <1>1, <2>1, <2>2 DEF Handshakes, Has
<1>11. ASSUME NEW s \in Surfaces, CommitBare(s)
       PROVE  Handshakes'
  <2>1. /\ UNCHANGED <<surf, objects>>
        /\ handshake' = [handshake EXCEPT ![s] = IF @ = "new" THEN "waiting" ELSE @]
        /\ Has(s, "xdg_surface") => surf[s].initial_configured
    BY <1>11 DEF CommitBare, InitialCommit
  <2>2. handshake[s] = "new" => surf[s].initial_configured
    BY <2>1 DEF Handshakes
  <2>3. handshake'[s] = (IF handshake[s] = "new" THEN "waiting" ELSE handshake[s])
    BY <1>1, <2>1
  <2>4. \A t \in Surfaces : t # s => handshake'[t] = handshake[t]
    BY <1>1, <2>1
  <2> QED
    BY <2>1, <2>2, <2>3, <2>4 DEF Handshakes, Has
<1>12. ASSUME NEW s \in Surfaces, CommitNull(s)
       PROVE  Handshakes'
  <2>1. /\ surf' = [surf EXCEPT ![s] = Consumed(Emptied(s))] /\ UNCHANGED objects
        /\ handshake' = [handshake EXCEPT ![s] = IF surf[s].server_id = 0 THEN @ ELSE "new"]
    BY <1>12 DEF CommitNull
  <2>2. surf[s].server_id # 0 => Has(s, "xdg_surface")
    BY DEF WindowPerToplevel, Handshakes
  <2>3. \A t \in Surfaces : surf'[t].initial_configured = surf[t].initial_configured
    BY <1>1, <1>4, <2>1
  <2>4. /\ handshake'[s] = (IF surf[s].server_id = 0 THEN handshake[s] ELSE "new")
        /\ \A t \in Surfaces : t # s => handshake'[t] = handshake[t]
    BY <1>1, <2>1
  <2> QED
    BY <2>1, <2>2, <2>3, <2>4 DEF Handshakes, Has
<1>13. ASSUME NEW s \in Surfaces, CommitShm(s)
       PROVE  Handshakes'
  <2>1. PICK r \in copy_shm_buffer(s) :
          \/ surf' = [surf EXCEPT ![s] = r]
          \/ surf' = [surf EXCEPT ![s] = [r EXCEPT !.server_id = stack.next_id]]
    BY <1>13 DEF CommitShm, surface_update, surface_map
  <2> DEFINE q == Consumed(surf[s])
  <2>2. /\ q.initial_configured = surf[s].initial_configured
        /\ DOMAIN q = DOMAIN surf[s] /\ "initial_configured" \in DOMAIN q
    BY <1>4 DEF Consumed, Surface
  <2>3. \/ r = q
        \/ \E c, w, h : r = [q EXCEPT !.content = c, !.cw = w, !.ch = h]
    BY DEF copy_shm_buffer
  <2> HIDE DEF q
  <2>4. r.initial_configured = q.initial_configured /\ "initial_configured" \in DOMAIN r
    BY <2>2, <2>3
  <2>5. [r EXCEPT !.server_id = stack.next_id].initial_configured = r.initial_configured
    BY <2>4
  <2>6. UNCHANGED <<objects, handshake>>
    BY <1>13 DEF CommitShm
  <2> QED
    BY <1>3, <2>1, <2>2, <2>4, <2>5, <2>6
<1>14. ASSUME NEW s \in Surfaces, CommitOther(s) \/ \E b \in Offers[s] : surf_attach(s, b)
       PROVE  Handshakes'
  <2>1. CASE CommitOther(s)
    BY <1>3, <1>4, <2>1 DEF CommitOther
  <2>2. CASE \E b \in Offers[s] : surf_attach(s, b)
    <3>1. PICK b : surf_attach(s, b)
      BY <2>2
    <3>2. /\ surf' = [surf EXCEPT ![s].attached = TRUE, ![s].pending_buffer = b]
          /\ UNCHANGED <<objects, handshake>>
      BY <3>1 DEF surf_attach
    <3>3. \A t \in Surfaces : surf'[t].initial_configured = surf[t].initial_configured
      BY <1>1, <3>2 DEF Surface
    <3> QED
      BY <3>2, <3>3, HandshakesKept
  <2> QED
    BY <1>14, <2>1, <2>2
<1>15. CASE (\E c \in Clients : seat_get(c) \/ ClientDies(c)) \/ ClientGone \/ UNCHANGED vars
  BY <1>2, <1>15 DEF seat_get, ClientDies, ClientGone, vars, scene
<1>16. CASE Loop
  BY <1>2, <1>16
     DEF Loop, Frame, wl_frontend_pointer_motion, ButtonOrAltTab, OtherCreates, OtherDestroys,
         EndInput, wl_frontend_dispatch, wl_frontend_keyboard_focus, wl_frontend_flush
<1> QED
  BY <1>6, <1>7, <1>8, <1>9, <1>10, <1>11, <1>12, <1>13, <1>14, <1>15, <1>16 DEF Next, Client

\* surf_commit "first commit": how far the missing configure event reaches.  Whatever a
\* client asks for and in which order, only a surface that was configured once before is
\* left waiting; the first role of each surface gets its answer.
FirstShowAnswered ==
  \A s \in Surfaces : handshake[s] = "waiting" => surf[s].initial_configured

THEOREM FirstShowsAnswered == Spec => []FirstShowAnswered
<1>1. Init => Handshakes
  BY DEF Init, Handshakes, Has
<1>2. Handshakes => FirstShowAnswered
  BY DEF Handshakes, FirstShowAnswered
<1> QED
  BY <1>1, <1>2, NextHandshakes, TypedAlways, OneWindowPerToplevel, PTL DEF Spec
=============================================================================
