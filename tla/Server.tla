-------------------------------- MODULE Server --------------------------------
(***************************************************************************)
(* One iteration of server_run (src/src/server.c) as both kinds of clients *)
(* see it: a batch of input goes through the window manager to the Wayland *)
(* frontend and to the CrystallineLattice transport, then each transport   *)
(* changes the stack they share, then the focus is synchronised.  What     *)
(* composite paints is compared with where input is sent.                  *)
(*                                                                         *)
(* The window manager and the requests are WindowManager's actions; what   *)
(* is added is who hears of what.  A window is known by its transport: its *)
(* client decorates it (CrystallineLattice) or the server does (Wayland).  *)
(***************************************************************************)
EXTENDS WindowManager

CONSTANTS CommitSizes,    \* buffer sizes CrystallineLattice clients commit
          NoSize,         \* of a window whose client handed over no pixels yet
          LatticeClients, \* CrystallineLattice clients, told apart by their tokens
          NoClient,       \* whose window no CrystallineLattice client's is
          CL_MAX_CLIENTS  \* connections, and places for dead shells' windows

ASSUME CommitAssumption == CommitSizes \subseteq Size /\ NoSize \notin Size
ASSUME ClientsAssumption == NoClient \notin LatticeClients /\ CL_MAX_CLIENTS \in Nat \ {0}

VARIABLES content,        \* size of the pixels a window's client handed over
          owner,          \* which CrystallineLattice client's a window is
          orphaned,       \* windows of dead shells, kept by the transport
          dying,          \* windows client_drop or orphan_destroy has still to destroy
          pointer_focus,  \* fe->pointer_focus, set by the last motion
          kbd_focus,      \* fe->kbd_focus, set at the end of an iteration
          heard,          \* ledger: the windows the button event just handled reached
          pc              \* where server_run is

latticeVars == <<owner, orphaned, dying>>
seatVars == <<pointer_focus, kbd_focus, heard>>
routing == <<content, latticeVars, seatVars>>
serverVars == <<vars, routing, pc>>

Ids == {stack.windows[i].id : i \in DOMAIN stack.windows}

ServerInit ==
  /\ Init
  /\ content = [id \in 1..MaxWindowId |-> NoSize]
  /\ owner = [id \in 1..MaxWindowId |-> NoClient]
  /\ orphaned = {} /\ dying = {} /\ heard = {}
  /\ pointer_focus = 0 /\ kbd_focus = 0
  /\ pc = "input"

----------------------------------------------------------------------------
(* What is on screen: composite paints the windows bottom first.           *)

\* Where a window's content starts: below the title bar, if it wears one.
ContentTop(w) == IF window_has_ssd(w) THEN w.y + DECOR_TITLEBAR_H ELSE w.y

TitleBar(w) == [x |-> w.x, y |-> w.y, w |-> w.w,
                h |-> IF window_has_ssd(w) THEN DECOR_TITLEBAR_H ELSE 0]

Content(w) == [x |-> w.x, y |-> ContentTop(w), w |-> w.w, h |-> w.h - (ContentTop(w) - w.y)]

\* blit_buffer clips the buffer to the window's content.
Blitted(w) == LET c == Content(w)
                  b == content[w.id]
              IN  IF b = NoSize THEN [c EXCEPT !.h = 0]
                  ELSE [c EXCEPT !.w = Min({@, b.w}), !.h = Min({@, b.h})]

Paints(w, p) == InRect(TitleBar(w), p.x, p.y) \/ InRect(Content(w), p.x, p.y)

Nothing == [id |-> 0, x |-> 0, y |-> 0]

\* Fault: the lowest window is painted last.
composite_TopFirst(p) ==
  LET over == {i \in DOMAIN stack.windows : Paints(stack.windows[i], p)}
      w    == stack.windows[Min(over)]
  IN  IF over = {} \/ ~InRect(Blitted(w), p.x, p.y) THEN Nothing
      ELSE [id |-> w.id, x |-> p.x - w.x, y |-> p.y - ContentTop(w)]

\* The pixel of which client's buffer is seen at p: none where a title bar, a
\* placeholder or the desktop's colour is.
composite(p) ==
  LET over == {i \in DOMAIN stack.windows : Paints(stack.windows[i], p)}
      w    == stack.windows[Max(over)]
  IN  IF over = {} \/ ~InRect(Blitted(w), p.x, p.y) THEN Nothing
      ELSE [id |-> w.id, x |-> p.x - w.x, y |-> p.y - ContentTop(w)]

----------------------------------------------------------------------------
(* Where input goes.                                                       *)

\* surface_by_window and find_by_server_id: whose window is it?
IsWayland(s, id) == Exists(s, id) /\ window_has_ssd(window_by_id(s, id))
IsLattice(s, id) == Exists(s, id) /\ window_by_id(s, id).app_decorated /\ id \notin orphaned

\* The Wayland window whose content, below the title bar, is under p: 0 for none.
PointerTarget(s, p) ==
  LET hit == window_at(s, p.x, p.y)
      w   == window_by_id(s, hit)
  IN  IF /\ IsWayland(s, hit)
         /\ p.x - w.x \in 0 .. content[hit].w - 1
         /\ p.y - (w.y + DECOR_TITLEBAR_H) \in 0 .. content[hit].h - 1
      THEN hit ELSE 0

\* The events a motion sends to clients, as windows with coordinates in them.
wl_frontend_pointer_motion(s, p) ==
  LET hit == PointerTarget(s, p)
      w   == window_by_id(s, hit)
  IN  IF hit = 0 THEN {}
      ELSE {[id |-> hit, x |-> p.x - w.x, y |-> p.y - (w.y + DECOR_TITLEBAR_H)]}

win_titlebar(w) == IF window_has_ssd(w) THEN DECOR_TITLEBAR_H ELSE 0

transport_pointer_motion(s, p) ==
  LET hit == window_at(s, p.x, p.y)
      w   == window_by_id(s, hit)
  IN  IF IsLattice(s, hit) /\ p.y >= w.y + win_titlebar(w)
      THEN {[id |-> hit, x |-> p.x - w.x, y |-> p.y - w.y - win_titlebar(w)]}
      ELSE {}

\* The windows a button reaches.
wl_frontend_pointer_button(s) == {id \in {pointer_focus} : IsWayland(s, id)}

\* Fault: the transport looks under the cursor among its own windows only.
transport_pointer_button_OwnWindows(s, p) ==
  {id \in Ids : IsLattice(s, id) /\ InRect(window_by_id(s, id), p.x, p.y)}

transport_pointer_button(s, p) == {e.id : e \in transport_pointer_motion(s, p)}

\* The windows a key the window manager did not consume reaches.
wl_frontend_keyboard_key(s) == {id \in {kbd_focus} : IsWayland(s, id)}
transport_keyboard_key(s)   == {id \in {s.focus_id} : IsLattice(s, id)}

ButtonReaches(s, p) == wl_frontend_pointer_button(s) \cup transport_pointer_button(s, p)
KeyReaches(s)       == wl_frontend_keyboard_key(s) \cup transport_keyboard_key(s)

----------------------------------------------------------------------------
(* input_dispatch: a batch of events.                                      *)

OnMotion ==
  /\ pc = "input"
  /\ Pointer
  /\ pointer_focus' = PointerTarget(stack', cursor')
  /\ heard' = {}
  /\ UNCHANGED <<content, latticeVars, kbd_focus, pc>>

\* A button but the left one, a press on the bare desktop and a release that ends
\* no drag are nothing to the window manager.
wm_pointer_button(left, pressed) ==
  \/ left /\ pressed /\ PressLeft
  \/ left /\ ~pressed /\ ReleaseLeft
  \/ /\ ~left \/ (IF pressed THEN window_at(stack, cursor.x, cursor.y) = 0 ELSE ~moving)
     /\ UNCHANGED vars

\* Both transports are offered every button, after the window manager.
OnButton(left, pressed) ==
  /\ pc = "input"
  /\ wm_pointer_button(left, pressed)
  /\ heard' = ButtonReaches(stack', cursor')
  /\ UNCHANGED <<content, latticeVars, pointer_focus, kbd_focus, pc>>

OnAltTab ==
  /\ pc = "input"
  /\ wm_key
  /\ heard' = {}
  /\ UNCHANGED <<content, latticeVars, pointer_focus, kbd_focus, pc>>

Goto(from, to) == pc = from /\ pc' = to

EndInput ==
  /\ Goto("input", "lattice")
  /\ heard' = {}
  /\ UNCHANGED <<vars, content, latticeVars, pointer_focus, kbd_focus>>

----------------------------------------------------------------------------
(* transport_process.                                                      *)

Lattice == pc = "lattice" /\ dying = {} /\ UNCHANGED <<seatVars, pc>>

\* The windows a connected client has, and those kept for one that is gone.
WindowsOf(c) == {id \in Ids : IsLattice(stack, id) /\ owner[id] = c}
HeldFor(c)   == {id \in orphaned : owner[id] = c}

Connected == {c \in LatticeClients : WindowsOf(c) # {}}
Parked    == {c \in LatticeClients : HeldFor(c) # {}}

\* A client that left windows behind has them back before it can ask for another.
on_create_window(c, role, r) ==
  /\ Lattice
  /\ c \notin Parked /\ Cardinality(Connected \cup {c}) <= CL_MAX_CLIENTS
  /\ CreateClientWindow(role, r)
  /\ owner' = [owner EXCEPT ![stack.next_id] = c]
  /\ UNCHANGED <<content, orphaned, dying>>

on_set_geometry(id, r) ==
  /\ Lattice
  /\ IsLattice(stack, id)
  /\ SetClientGeometry(id, r)
  /\ UNCHANGED <<content, latticeVars>>

\* A buffer changes what is drawn in the window, never the window.
on_commit(id, sz) ==
  /\ Lattice
  /\ IsLattice(stack, id)
  /\ content' = [content EXCEPT ![id] = sz]
  /\ UNCHANGED <<vars, latticeVars>>

on_destroy_window(id) ==
  /\ Lattice
  /\ IsLattice(stack, id)
  /\ DestroyWindow(id)
  /\ content' = [content EXCEPT ![id] = NoSize]
  /\ owner' = [owner EXCEPT ![id] = NoClient]
  /\ UNCHANGED <<orphaned, dying>>

IsShell(id) == window_by_id(stack, id).role \in {"TASKBAR", "DESKTOP", "TRAY"}

\* Every window of a client that has a shell's window is kept, if there is a place;
\* otherwise every one is destroyed, whatever its role.
client_drop(c) ==
  /\ Lattice
  /\ WindowsOf(c) # {}
  /\ IF (\E id \in WindowsOf(c) : IsShell(id)) /\ Cardinality(Parked) < CL_MAX_CLIENTS
     THEN orphaned' = orphaned \cup WindowsOf(c) /\ UNCHANGED dying
     ELSE dying' = WindowsOf(c) /\ UNCHANGED orphaned
  /\ UNCHANGED <<vars, content, owner>>

\* A new connection presents the token.
client_reclaim(c) ==
  /\ Lattice
  /\ c \in Parked /\ Cardinality(Connected \cup {c}) <= CL_MAX_CLIENTS
  /\ orphaned' = orphaned \ HeldFor(c)
  /\ UNCHANGED <<vars, content, owner, dying>>

\* orphans_expire, when the grace period is over.
orphan_destroy(c) ==
  /\ Lattice
  /\ c \in Parked
  /\ dying' = HeldFor(c)
  /\ UNCHANGED <<vars, content, owner, orphaned>>

\* Fault: the window goes, its entry stays.
Reap_WindowOnly(id) ==
  /\ pc = "lattice" /\ id \in dying
  /\ DestroyWindow(id)
  /\ dying' = dying \ {id}
  /\ content' = [content EXCEPT ![id] = NoSize]
  /\ owner' = [owner EXCEPT ![id] = NoClient]
  /\ UNCHANGED <<orphaned, seatVars, pc>>

\* The loop of client_drop and of orphan_destroy, window by window: nothing else
\* happens before it is through.
Reap(id) ==
  /\ pc = "lattice" /\ id \in dying
  /\ DestroyWindow(id)
  /\ dying' = dying \ {id}
  /\ orphaned' = orphaned \ {id}
  /\ content' = [content EXCEPT ![id] = NoSize]
  /\ owner' = [owner EXCEPT ![id] = NoClient]
  /\ UNCHANGED <<seatVars, pc>>

EndLattice == Goto("lattice", "wayland") /\ dying = {} /\ UNCHANGED <<vars, routing>>

----------------------------------------------------------------------------
(* wl_frontend_dispatch, the control socket, and the end of the iteration. *)

Wayland == pc = "wayland" /\ UNCHANGED <<latticeVars, seatVars, pc>>

surface_map(sz) ==
  /\ Wayland
  /\ MapToplevel(sz)
  /\ content' = [content EXCEPT ![stack.next_id] = sz]

surface_update(id, sz) ==
  /\ Wayland
  /\ ResizeToplevel(id, sz)
  /\ content' = [content EXCEPT ![id] = sz]

\* surface_unmap: a request of the client, or its death, in the flush too.
surface_unmap(id) ==
  /\ pc \in {"wayland", "flush"}
  /\ IsWayland(stack, id)
  /\ DestroyWindow(id)
  /\ content' = [content EXCEPT ![id] = NoSize]
  /\ UNCHANGED <<latticeVars, seatVars, pc>>

EndWayland == Goto("wayland", "control") /\ UNCHANGED <<vars, routing>>

control_process(m) == pc = "control" /\ SetMode(m) /\ UNCHANGED <<routing, pc>>

\* Fault: the keyboard goes to the topmost window instead of the focused one.
KeyboardTarget_Top ==
  LET top == IF stack.windows = <<>> THEN 0 ELSE Last(stack.windows).id
  IN  IF IsWayland(stack, top) THEN top ELSE 0

KeyboardTarget == IF IsWayland(stack, stack.focus_id) THEN stack.focus_id ELSE 0

wl_frontend_keyboard_focus ==
  /\ Goto("control", "flush")
  /\ kbd_focus' = KeyboardTarget
  /\ UNCHANGED <<vars, content, latticeVars, pointer_focus, heard>>

\* transport_update_focus tells, and transport_notify_geometry finds no client
\* (ClientsPlaceThemselves): all that is left is to clear reconfigured_id.
EndIteration ==
  /\ Goto("flush", "input")
  /\ NotifyReconfigured \/ (reconfigured_id = 0 /\ UNCHANGED vars)
  /\ UNCHANGED routing

----------------------------------------------------------------------------
Input == OnMotion \/ OnAltTab \/ \E left, pressed \in BOOLEAN : OnButton(left, pressed)

Clients ==
  \/ \E c \in LatticeClients :
       \/ \E role \in ClientRoles, r \in ClientRects : on_create_window(c, role, r)
       \/ client_drop(c) \/ client_reclaim(c) \/ orphan_destroy(c)
  \/ \E sz \in ContentSizes : surface_map(sz)
  \/ \E id \in 1..MaxWindowId :
       \/ \E r \in ClientRects : on_set_geometry(id, r)
       \/ \E sz \in CommitSizes : on_commit(id, sz)
       \/ \E sz \in ContentSizes : surface_update(id, sz)
       \/ on_destroy_window(id) \/ Reap(id) \/ surface_unmap(id)

Loop == EndInput \/ EndLattice \/ EndWayland \/ wl_frontend_keyboard_focus \/ EndIteration

ServerNext == Input \/ Clients \/ Loop \/ \E m \in Modes : control_process(m)

ServerSpec == ServerInit /\ [][ServerNext]_serverVars

----------------------------------------------------------------------------
(* Properties.                                                             *)

\* Type invariant of what this module adds; what the transport keeps for a client,
\* or is about to destroy, are windows of the stack.
RoutingOK ==
  /\ content \in [1..MaxWindowId -> Size \cup {NoSize}]
  /\ owner \in [1..MaxWindowId -> LatticeClients \cup {NoClient}]
  /\ orphaned \subseteq Ids /\ dying \subseteq Ids
  /\ pointer_focus \in Nat /\ kbd_focus \in Nat /\ heard \subseteq Nat
  /\ pc \in {"input", "lattice", "wayland", "control", "flush"}

Pixels == [x : 0 .. screen.w - 1, y : 0 .. screen.h - 1]

\* A CrystallineLattice window shows its colour at p, where its client painted nothing.
Placeholder(id, p) == /\ IsLattice(stack, id)
                      /\ InRect(Content(window_by_id(stack, id)), p.x, p.y)
                      /\ ~InRect(Blitted(window_by_id(stack, id)), p.x, p.y)

\* transport.c "The client buffer's top-left maps to (w->x, w->y + titlebar)":
\* wherever a client's pixel is seen, a motion there reaches that client and no
\* other, at that pixel of its buffer; elsewhere a motion reaches nobody but the
\* client of a placeholder.  So for every overlap, snap, drag and resize; orphans
\* hear nothing.
SeenIsHit ==
  \A p \in Pixels :
    LET seen  == composite(p)
        hears == wl_frontend_pointer_motion(stack, p) \cup transport_pointer_motion(stack, p)
    IN  /\ seen.id \notin orphaned \cup {0} => hears = {seen}
        /\ seen.id \in orphaned => hears = {}
        /\ \A e \in hears : Placeholder(e.id, p) \/ e = seen

\* server.c "Otherwise route to the focused client": when the loop goes back to
\* sleep a key reaches the client of the focused window and no other, of whichever
\* transport; a Wayland client that died in the flush may leave it unheard.
KeysReachFocused ==
  pc = "flush" =>
    /\ KeyReaches(stack) \subseteq {stack.focus_id}
    /\ kbd_focus = 0 \/ Exists(stack, kbd_focus) =>
         KeyReaches(stack) = {stack.focus_id} \ ({0} \cup orphaned)

\* What the Wayland frontend believes under the cursor is what is there.
PointerFresh == pointer_focus = PointerTarget(stack, cursor)

\* on_input: the window manager sees a button before the clients do, and restacks,
\* drags and unsnaps; yet a press reaches at most the window that was under the
\* cursor, a left one at most the window it has just focused, and nobody when it
\* starts a drag; provided the scene is as the last motion found it.  A press of
\* another button is heard without the focus ("a content press also reaches the
\* focused client" says otherwise), which it leaves as it was.
PressReachesHit ==
  [][\A left \in BOOLEAN : OnButton(left, TRUE) /\ PointerFresh =>
       /\ heard' \subseteq {window_at(stack, cursor.x, cursor.y)}
       /\ left => heard' \subseteq {stack'.focus_id}
       /\ ~moving /\ moving' => heard' = {}]_serverVars

\* The window manager never moves or resizes a window its client decorates: only
\* its client and a resolution change do, so no client is ever owed a
\* CL_CONFIGURE by the loop (server.c:673), however stale move_id is.
ClientsPlaceThemselves ==
  [][pc \notin {"lattice", "control"} =>
       \A id \in Ids : IsLattice(stack, id) /\ Exists(stack', id) =>
         RectOf(window_by_id(stack', id)) = RectOf(window_by_id(stack, id))]_serverVars
=============================================================================
