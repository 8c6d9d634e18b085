------------------------------ MODULE Wayland ------------------------------
(***************************************************************************)
(* The Wayland frontend, src/src/wayland.c, inside the iteration of        *)
(* server_run that drives it: surfaces and their roles, the handshake of   *)
(* xdg-shell, the copy of a client's pixels that the compositor reads,     *)
(* pointer and keyboard focus, and the repaint a scene change asks for.    *)
(*                                                                         *)
(* A client keeps to xdg-shell while it lives (no role for a surface with  *)
(* a buffer, no buffer before the first configure, roles destroyed before  *)
(* their surface); it may die at any moment.  Frame callbacks, decorations *)
(* and titles change no state that a property relates and are left out.    *)
(***************************************************************************)
EXTENDS WindowStack

CONSTANTS Surfaces, Clients, Owner,  \* wl_surface objects and whose they are
          Offers,       \* the buffers each surface's client may attach
          Cascade,      \* where new windows are placed, in turn
          WmRects,      \* where wm.c's drags and snaps put a window
          Points,       \* pointer positions
          SeatFirst,    \* do clients bind wl_seat before they make a surface?
          MaxWindowId   \* bound: windows created over a behaviour

ASSUME SurfacesAssumption == IsFiniteSet(Surfaces)
ASSUME OwnerAssumption == Owner \in [Surfaces -> Clients]

\* A buffer argument: none, wl_shm of some size, or of another kind.
Buffer == [kind : {"null", "other"}, w : {0}, h : {0}]
            \cup [kind : {"shm"}, w : Nat \ {0}, h : Nat \ {0}]

NoBuffer == [kind |-> "null", w |-> 0, h |-> 0]

ASSUME OffersAssumption == Offers \in [Surfaces -> SUBSET Buffer]
ASSUME CascadeAssumption == Cascade \in Seq([x : Int, y : Int]) /\ Cascade # << >>
ASSUME WmRectsAssumption == WmRects \subseteq Rect
ASSUME PointsAssumption == Points \subseteq [x : Int, y : Int]

VARIABLES stack,
          surf,           \* struct fe_surface, by surface
          objects,        \* the protocol objects a surface's client holds
          handshake,      \* what its xdg_surface was last sent
          bound,          \* clients with a wl_pointer and a wl_keyboard
          dying,          \* the client libwayland is destroying, if any
          pointer_focus, kbd_focus,
          pointer_told, keyboard_told,  \* windows entered and not left, by client
          cascade,        \* fe->cascade modulo its period
          fe_dirty,       \* fe->dirty
          dirty,          \* the loop's ctx.dirty
          current,        \* the last frame drawn shows the scene as it is
          cursor,         \* where the pointer is
          pc              \* where server_run is

focus == <<pointer_focus, kbd_focus, pointer_told, keyboard_told>>
scene == <<stack, fe_dirty, current>>
clients == <<bound, dying>>
vars  == <<scene, surf, objects, handshake, clients, focus, cascade, dirty, cursor, pc>>

\* A surface as calloc leaves it.
NewSurface == [attached |-> FALSE, pending_buffer |-> NoBuffer, initial_configured |-> FALSE,
               content |-> 0, cw |-> 0, ch |-> 0, server_id |-> 0]

Init ==
  /\ stack = window_stack_init
  /\ surf = [s \in Surfaces |-> NewSurface]
  /\ objects = [s \in Surfaces |-> {}]
  /\ handshake = [s \in Surfaces |-> "none"]
  /\ bound = {} /\ dying = {}
  /\ pointer_focus = 0 /\ kbd_focus = 0
  /\ pointer_told = [c \in Clients |-> {}]
  /\ keyboard_told = [c \in Clients |-> {}]
  /\ cascade = 0
  /\ fe_dirty = FALSE /\ dirty = TRUE /\ current = FALSE
  /\ cursor \in Points
  /\ pc = "frame"

----------------------------------------------------------------------------
(* Helpers.                                                                *)

\* The surface of a window, as a set of at most one.
surface_by_window(id) == {s \in Surfaces : id # 0 /\ surf[s].server_id = id}

OwnersOf(id) == {Owner[s] : s \in surface_by_window(id)}

\* Fault: the surface entered is told, the one left is not.
Refocus_NoLeave(told, old, new) ==
  [c \in Clients |-> told[c] \cup {id \in {new} : c \in bound \cap OwnersOf(new)}]

\* What clients have been told once focus went from window old to window new.
Refocus(told, old, new) ==
  [c \in Clients |-> (told[c] \ {old}) \cup {id \in {new} : c \in bound \cap OwnersOf(new)}]

\* surface_unmap leaves the surface without window and content.
Emptied(s) == [surf[s] EXCEPT !.content = 0, !.cw = 0, !.ch = 0, !.server_id = 0]

\* Fault: a window goes without asking for a repaint.
MarkUnmapped_Quiet(s) == UNCHANGED fe_dirty

MarkUnmapped(s) == fe_dirty' = (fe_dirty \/ surf[s].server_id # 0)

\* What surface_unmap takes from the stack.  A window that is gone leaves the ledger.
surface_unmap(s) ==
  LET id == surf[s].server_id
  IN  /\ stack' = IF id # 0 THEN window_destroy(stack, id) ELSE stack
      /\ MarkUnmapped(s)
      /\ current' = (current /\ id = 0)
      /\ pointer_told' = [c \in Clients |-> pointer_told[c] \ ({id} \ {0})]
      /\ keyboard_told' = [c \in Clients |-> keyboard_told[c] \ ({id} \ {0})]
      /\ UNCHANGED <<pointer_focus, kbd_focus>>

----------------------------------------------------------------------------
(* Requests, handled by wl_frontend_dispatch one after the other.          *)

Has(s, object) == object \in objects[s]

Request == pc = "dispatch" /\ dying = {} /\ UNCHANGED <<dirty, cursor, pc>>

\* wl_seat: a pointer and a keyboard, kept while the client lives.
seat_get(c) ==
  /\ Request /\ c \notin bound
  /\ bound' = bound \cup {c}
  /\ UNCHANGED <<scene, surf, objects, handshake, dying, focus, cascade>>

comp_create_surface(s) ==
  /\ Request /\ objects[s] = {}
  /\ SeatFirst => Owner[s] \in bound
  /\ objects' = [objects EXCEPT ![s] = {"surface"}]
  /\ surf' = [surf EXCEPT ![s] = NewSurface]
  /\ UNCHANGED <<scene, handshake, clients, focus, cascade>>

wm_get_xdg_surface(s) ==
  /\ Request /\ Has(s, "surface") /\ ~Has(s, "xdg_surface")
  /\ ~surf[s].attached /\ surf[s].content = 0
  /\ objects' = [objects EXCEPT ![s] = @ \cup {"xdg_surface"}]
  /\ handshake' = [handshake EXCEPT ![s] = "new"]
  /\ UNCHANGED <<scene, surf, clients, focus, cascade>>

xs_get_toplevel(s) ==
  /\ Request /\ Has(s, "xdg_surface") /\ ~Has(s, "xdg_toplevel")
  /\ objects' = [objects EXCEPT ![s] = @ \cup {"xdg_toplevel"}]
  /\ UNCHANGED <<scene, surf, handshake, clients, focus, cascade>>

\* surf_commit answers the first commit of a surface with a role and returns.
InitialCommit(s) == Has(s, "xdg_surface") /\ ~surf[s].initial_configured

surf_attach(s, buffer) ==
  /\ Request /\ Has(s, "surface") /\ ~InitialCommit(s)
  /\ surf' = [surf EXCEPT ![s].attached = TRUE, ![s].pending_buffer = buffer]
  /\ UNCHANGED <<scene, objects, handshake, clients, focus, cascade>>

CommitInitial(s) ==
  /\ Request /\ Has(s, "surface") /\ InitialCommit(s)
  /\ surf' = [surf EXCEPT ![s].initial_configured = TRUE]
  /\ handshake' = [handshake EXCEPT ![s] = "configured"]
  /\ UNCHANGED <<scene, objects, clients, focus, cascade>>

\* The client of a new xdg_surface then waits for its configure event.
CommitBare(s) ==
  /\ Request /\ Has(s, "surface") /\ ~InitialCommit(s) /\ ~surf[s].attached
  /\ handshake' = [handshake EXCEPT ![s] = IF @ = "new" THEN "waiting" ELSE @]
  /\ UNCHANGED <<scene, surf, objects, clients, focus, cascade>>

Consumed(r) == [r EXCEPT !.attached = FALSE, !.pending_buffer = NoBuffer]

\* A null buffer unmaps; xdg-shell then starts its handshake again.
CommitNull(s) ==
  /\ Request /\ Has(s, "surface") /\ ~InitialCommit(s)
  /\ surf[s].attached /\ surf[s].pending_buffer.kind = "null"
  /\ surface_unmap(s)
  /\ surf' = [surf EXCEPT ![s] = Consumed(Emptied(s))]
  /\ handshake' = [handshake EXCEPT ![s] = IF surf[s].server_id = 0 THEN @ ELSE "new"]
  /\ UNCHANGED <<objects, clients, cascade>>

\* A buffer that is not wl_shm is released unread.
CommitOther(s) ==
  /\ Request /\ Has(s, "surface") /\ ~InitialCommit(s)
  /\ surf[s].attached /\ surf[s].pending_buffer.kind = "other"
  /\ surf' = [surf EXCEPT ![s] = Consumed(@)]
  /\ UNCHANGED <<scene, objects, handshake, clients, focus, cascade>>

\* Copies live in the heap; realloc moves one to an address not in use.
Heap  == {surf[s].content : s \in Surfaces}
Fresh == Min((1 .. Cardinality(Surfaces) + 1) \ Heap)

\* What copy_shm_buffer may leave: a copy, in place when the size is the same, or
\* the old one when there is no memory for another.
copy_shm_buffer(s) ==
  LET r == Consumed(surf[s])
      b == surf[s].pending_buffer
  IN  IF b.w = r.cw /\ b.h = r.ch THEN {r}
      ELSE {r, [r EXCEPT !.content = Fresh, !.cw = b.w, !.ch = b.h]}

\* Fault: the size follows a commit, the pointer to the pixels does not.
Show_SizeOnly(w, r) == [w EXCEPT !.w = r.cw, !.h = r.ch + DECOR_TITLEBAR_H]

\* The window of a mapped surface follows its copy.
Show(w, r) ==
  [w EXCEPT !.buf = r.content, !.w = r.cw, !.h = r.ch + DECOR_TITLEBAR_H]

MapRect(r) == [x |-> Cascade[cascade + 1].x, y |-> Cascade[cascade + 1].y,
               w |-> r.cw, h |-> r.ch + DECOR_TITLEBAR_H]

\* The stack after the first content of a surface: one window more, focused.
Mapped(r) ==
  LET id == stack.next_id
      st == window_create(stack, "NORMAL", MapRect(r))
  IN  window_focus(Update(st, id, [window_by_id(st, id) EXCEPT !.buf = r.content]), id)

\* r is the surface with its new copy.
surface_update(s, r) ==
  /\ surf[s].server_id # 0
  /\ stack' = IF Exists(stack, r.server_id)
              THEN Update(stack, r.server_id, Show(window_by_id(stack, r.server_id), r))
              ELSE stack
  /\ surf' = [surf EXCEPT ![s] = r]
  /\ fe_dirty' = TRUE /\ current' = FALSE
  /\ UNCHANGED cascade

surface_map(s, r) ==
  /\ surf[s].server_id = 0
  /\ cascade' = (cascade + 1) % Len(Cascade)
  /\ \/ /\ ~IsFull(stack) /\ stack.next_id <= MaxWindowId
        /\ stack' = Mapped(r)
        /\ surf' = [surf EXCEPT ![s] = [r EXCEPT !.server_id = stack.next_id]]
        /\ fe_dirty' = TRUE /\ current' = FALSE
     \/ /\ IsFull(stack)
        /\ surf' = [surf EXCEPT ![s] = r]
        /\ UNCHANGED scene

CommitShm(s) ==
  /\ Request /\ Has(s, "surface") /\ ~InitialCommit(s)
  /\ surf[s].attached /\ surf[s].pending_buffer.kind = "shm"
  /\ \E r \in copy_shm_buffer(s) :
       \/ /\ r.content # 0 /\ Has(s, "xdg_toplevel")
          /\ surface_update(s, r) \/ surface_map(s, r)
       \/ /\ ~(r.content # 0 /\ Has(s, "xdg_toplevel"))
          /\ surf' = [surf EXCEPT ![s] = r]
          /\ UNCHANGED <<scene, cascade>>
  /\ UNCHANGED <<objects, handshake, clients, focus>>

\* Fault: a window outlives its xdg_toplevel.
ToplevelUnmaps_Not(s) == UNCHANGED <<scene, surf, focus>>

ToplevelUnmaps(s) == surface_unmap(s) /\ surf' = [surf EXCEPT ![s] = Emptied(s)]

toplevel_resource_destroy(s) ==
  /\ Request /\ Has(s, "xdg_toplevel")
  /\ objects' = [objects EXCEPT ![s] = @ \ {"xdg_toplevel"}]
  /\ ToplevelUnmaps(s)
  /\ UNCHANGED <<handshake, clients, cascade>>

xdg_surface_resource_destroy(s) ==
  /\ Request /\ Has(s, "xdg_surface") /\ ~Has(s, "xdg_toplevel")
  /\ objects' = [objects EXCEPT ![s] = @ \ {"xdg_surface"}]
  /\ handshake' = [handshake EXCEPT ![s] = "none"]
  /\ UNCHANGED <<scene, surf, clients, focus, cascade>>

DestroySurface(s) ==
  /\ surface_unmap(s)
  /\ objects' = [objects EXCEPT ![s] = {}]
  /\ surf' = [surf EXCEPT ![s] = NewSurface]
  /\ UNCHANGED cascade

surface_resource_destroy(s) ==
  /\ Request /\ objects[s] = {"surface"}
  /\ DestroySurface(s)
  /\ UNCHANGED <<handshake, clients>>

\* libwayland destroys a client whose hang-up it reads or whom it fails to flush to,
\* object by object, and nothing else runs meanwhile.  Its seat's objects go first
\* here: no event is sent before the others are gone.
ClientDies(c) ==
  /\ pc \in {"dispatch", "flush"} /\ dying = {}
  /\ c \in bound \/ \E s \in Surfaces : Owner[s] = c /\ objects[s] # {}
  /\ dying' = {c}
  /\ bound' = bound \ {c}
  /\ pointer_told' = [pointer_told EXCEPT ![c] = {}]
  /\ keyboard_told' = [keyboard_told EXCEPT ![c] = {}]
  /\ UNCHANGED <<scene, surf, objects, handshake, pointer_focus, kbd_focus, cascade,
                 dirty, cursor, pc>>

\* A dead client's wl_surface goes before its roles, whose ids are greater.  Their
\* destructors then run on a freed fe_surface, whose words nothing has overwritten:
\* no effect.
SurfaceDies(s) ==
  /\ Owner[s] \in dying /\ objects[s] # {}
  /\ DestroySurface(s)
  /\ handshake' = [handshake EXCEPT ![s] = "none"]
  /\ UNCHANGED <<clients, dirty, cursor, pc>>

ClientGone ==
  /\ dying # {}
  /\ \A s \in Surfaces : Owner[s] \in dying => objects[s] = {}
  /\ dying' = {}
  /\ UNCHANGED <<scene, surf, objects, handshake, bound, focus, cascade, dirty, cursor, pc>>

----------------------------------------------------------------------------
(* The loop: a frame, input, the other transport, dispatch, focus, flush.  *)

Frame ==
  /\ pc = "frame"
  /\ pc' = "input"
  /\ dirty' = FALSE
  /\ current' = (current \/ dirty)
  /\ UNCHANGED <<stack, fe_dirty, surf, objects, handshake, clients, focus, cascade, cursor>>

Painted == dirty' = TRUE /\ current' = FALSE

\* wm.c may drag, snap or unsnap the focused window.
AfterWm(st) == {st} \cup {window_set_geometry(st, st.focus_id, r) : r \in WmRects}

\* The window whose content, below the title bar, is under p: 0 for none.
PointerTarget(st, p) ==
  LET hit == window_at(st, p.x, p.y)
  IN  IF \E s \in surface_by_window(hit) :
           /\ p.x - window_by_id(st, hit).x \in 0 .. surf[s].cw - 1
           /\ p.y - (window_by_id(st, hit).y + DECOR_TITLEBAR_H) \in 0 .. surf[s].ch - 1
      THEN hit ELSE 0

wl_frontend_pointer_motion(p) ==
  /\ pc = "input"
  /\ \E st \in AfterWm(stack) :
       /\ stack' = st
       /\ pointer_focus' = PointerTarget(st, p)
       /\ pointer_told' = Refocus(pointer_told, pointer_focus, PointerTarget(st, p))
  /\ cursor' = p
  /\ Painted
  /\ UNCHANGED <<surf, objects, handshake, clients, kbd_focus, keyboard_told, cascade,
                 fe_dirty, pc>>

\* A button focuses what is under the cursor; Alt-Tab the next application.
Focusing(st) == {window_focus(st, window_at(st, cursor.x, cursor.y)),
                 window_focus_cycle(st, 1), window_focus_cycle(st, -1)}

ButtonOrAltTab ==
  /\ pc = "input"
  /\ \E st \in Focusing(stack) : stack' \in AfterWm(st)
  /\ Painted
  /\ UNCHANGED <<surf, objects, handshake, clients, focus, cascade, fe_dirty, cursor, pc>>

\* transport_process: windows of the other transport.
OtherCreates ==
  /\ pc = "input" /\ ~IsFull(stack) /\ stack.next_id <= MaxWindowId
  /\ \E r \in WmRects :
       stack' = window_focus(window_create(stack, "NORMAL", r), stack.next_id)
  /\ Painted
  /\ UNCHANGED <<surf, objects, handshake, clients, focus, cascade, fe_dirty, cursor, pc>>

OtherDestroys ==
  /\ pc = "input"
  /\ \E i \in DOMAIN stack.windows :
       /\ surface_by_window(stack.windows[i].id) = {}
       /\ stack' = window_destroy(stack, stack.windows[i].id)
  /\ Painted
  /\ UNCHANGED <<surf, objects, handshake, clients, focus, cascade, fe_dirty, cursor, pc>>

\* The frontend's descriptor is readable, or it is not.
EndInput ==
  /\ pc = "input"
  /\ pc' \in {"dispatch", "sync"}
  /\ UNCHANGED <<scene, surf, objects, handshake, clients, focus, cascade, dirty, cursor>>

wl_frontend_dispatch ==
  /\ pc = "dispatch" /\ dying = {}
  /\ pc' = "sync"
  /\ dirty' = (dirty \/ fe_dirty)
  /\ fe_dirty' = FALSE
  /\ UNCHANGED <<stack, current, surf, objects, handshake, clients, focus, cascade, cursor>>

KeyboardTarget == IF surface_by_window(stack.focus_id) = {} THEN 0 ELSE stack.focus_id

wl_frontend_keyboard_focus ==
  /\ pc = "sync"
  /\ pc' = "flush"
  /\ kbd_focus' = KeyboardTarget
  /\ keyboard_told' = IF KeyboardTarget = kbd_focus THEN keyboard_told
                      ELSE Refocus(keyboard_told, kbd_focus, KeyboardTarget)
  /\ UNCHANGED <<scene, surf, objects, handshake, clients, pointer_focus, pointer_told,
                 cascade, dirty, cursor>>

wl_frontend_flush ==
  /\ pc = "flush" /\ dying = {}
  /\ pc' = "frame"
  /\ UNCHANGED <<scene, surf, objects, handshake, clients, focus, cascade, dirty, cursor>>

----------------------------------------------------------------------------
Client == \/ \E c \in Clients : seat_get(c) \/ ClientDies(c)
          \/ \E s \in Surfaces :
               \/ comp_create_surface(s) \/ wm_get_xdg_surface(s) \/ xs_get_toplevel(s)
               \/ \E b \in Offers[s] : surf_attach(s, b)
               \/ CommitInitial(s) \/ CommitBare(s) \/ CommitNull(s) \/ CommitOther(s)
               \/ CommitShm(s)
               \/ toplevel_resource_destroy(s) \/ xdg_surface_resource_destroy(s)
               \/ surface_resource_destroy(s) \/ SurfaceDies(s)
          \/ ClientGone

Loop == \/ Frame \/ (\E p \in Points : wl_frontend_pointer_motion(p)) \/ ButtonOrAltTab
        \/ OtherCreates \/ OtherDestroys \/ EndInput
        \/ wl_frontend_dispatch \/ wl_frontend_keyboard_focus \/ wl_frontend_flush

Next == Client \/ Loop

Spec == Init /\ [][Next]_vars

----------------------------------------------------------------------------
(* Properties.                                                             *)

Object == {"surface", "xdg_surface", "xdg_toplevel"}

Surface == [attached : BOOLEAN, pending_buffer : Buffer, initial_configured : BOOLEAN,
            content : Nat, cw : Nat, ch : Nat, server_id : Nat]

\* Type invariant.
TypeOK ==
  /\ stack \in Stack
  /\ surf \in [Surfaces -> Surface]
  /\ objects \in [Surfaces -> SUBSET Object]
  /\ handshake \in [Surfaces -> {"none", "new", "waiting", "configured"}]
  /\ bound \subseteq Clients /\ dying \subseteq Clients
  /\ pointer_focus \in Nat /\ kbd_focus \in Nat
  /\ pointer_told \in [Clients -> SUBSET Nat]
  /\ keyboard_told \in [Clients -> SUBSET Nat]
  /\ cascade \in 0 .. Len(Cascade) - 1
  /\ fe_dirty \in BOOLEAN /\ dirty \in BOOLEAN /\ current \in BOOLEAN
  /\ cursor \in Points
  /\ pc \in {"frame", "input", "dispatch", "sync", "flush"}

\* wayland.c "Each xdg_toplevel becomes a server-owned glacier window": a mapped
\* surface has a toplevel and a window of its own, and no window is left behind
\* by a toplevel, a surface or a client that is gone.
WindowPerToplevel ==
  /\ \A s \in Surfaces :
       surf[s].server_id # 0 => /\ Has(s, "xdg_toplevel")
                                /\ Exists(stack, surf[s].server_id)
                                /\ surf[s].content # 0
  /\ \A s, t \in Surfaces :
       s # t => surf[s].server_id # surf[t].server_id \/ surf[s].server_id = 0
  /\ \A i \in DOMAIN stack.windows :
       stack.windows[i].buf # 0 => surface_by_window(stack.windows[i].id) # {}

\* composite reads pixels through the window's own pointer: it always is the copy
\* the surface holds now, never one that realloc moved or surface_unmap freed.
PixelsLive ==
  \A i \in DOMAIN stack.windows : \A s \in surface_by_window(stack.windows[i].id) :
     stack.windows[i].buf = surf[s].content

\* wayland.h "Returns true if the scene changed": when the loop sleeps, the screen
\* shows the scene, or (a client died during the flush) the change is remembered
\* for the next dispatch.
SceneRepainted == pc = "input" /\ ~dirty => current \/ fe_dirty

Told(told, id) ==
  \A c \in Clients : told[c] = {i \in {id} : c \in bound \cap OwnersOf(id)}

\* Keys and buttons go to the client of kbd_focus and pointer_focus: that client,
\* and no other, has been told that this window was entered.
EventsAreAnnounced == Told(keyboard_told, kbd_focus) /\ Told(pointer_told, pointer_focus)

\* wayland.c "after the client's initial (bufferless) commit, the server sends the
\* first configure": no client is left waiting for one.
ConfigureAnswered == \A s \in Surfaces : handshake[s] # "waiting"
============================================================================
