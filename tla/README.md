# A TLA+ model of the glacier server (CrystallineLattice)

TLA+ modules, TLC configurations and TLAPS proofs for the display server in
`src/`: one process that owns the screen, keeps one window stack, and composites
windows of two kinds of clients: CrystallineLattice clients (Wine, over
an `AF_UNIX SOCK_SEQPACKET` socket) and Wayland clients.
The source is the reference: each definition is translated from the code, and
`PROJECT.json` says from which lines.

## 1. The system

`server_run` (server.c) is a single thread. Each iteration takes
or drops DRM master, blanks or wakes the panel, draws a frame if one is due,
sleeps in `poll` for at most a second, then calls whichever of the seat, libinput, the transport, the Wayland
frontend and the control socket is readable, reports focus changes, and
reports one reconfigured window. Concurrency is between this loop and the other
processes: clients send, stall, hang up and reconnect at any moment, seatd takes
the VT away, connectors are unplugged, a control panel asks for another mode. Everything inside is callbacks on shared
structures, and the interesting orders are orders of callbacks.

| component | state | operations | interacts with | what makes it correct |
|---|---|---|---|---|
| window model, `window.c` | array of at most `WIN_MAX` windows in z-order, focused id, id allocator | create, destroy, raise, lower, move, set_geometry, focus, focus_cycle, hit test | called by everything below | ids unique and never reused, focus never dangles, wallpapers at the bottom, focus implies raise |
| window manager, `wm.c` | screen size, cursor, interactive move, window to report | motion, press, release (snap), Alt-Tab | the stack; input calls it | drags keep their anchor, snapped windows can be restored and leave the taskbar visible, Alt-Tab reaches every application |
| transport, `transport.c`, `protocol.c` | client slots with their windows and buffers, orphans of dead shells, tokens, last focus reported | accept, handshake, create, commit, destroy, geometry, cursor, drop, park, reclaim, reap, focus report, screen broadcast, stop | the stack; clients over sockets; called by the loop | a crash takes down only its own windows, a session has one owner, buffers and descriptors are neither leaked nor read after unmapping, clients know focus and screen size |
| server loop, `server.c` | `running`, `dirty`, `need_modeset`, `blanked`, `front`, two framebuffers, DRM master | the iteration above, apply_mode_cb, hotplug | all | frames reach the screen after VT switches, mode changes and failures |
| Wayland frontend, `wayland.c` | surfaces, roles, pending and current buffers, focus | commit, map, configure/ack, pointer and keyboard routing | the stack | one window per mapped toplevel, no use of a freed surface or buffer |
| control socket, `control.c` | listening socket | query and set the resolution | KMS, loop | each request answered once, mode, framebuffers and screen change together |
| platform, `platform.c` | DRM descriptor, mode, framebuffers | pick a connector, set mode, allocate framebuffers | kernel | a failed step leaves what was there |
| seat, `seat.c` | `active` | enable, disable | seatd | every VT switch acknowledged, no commit while away |
| input, `input.c` | devices, xkb state | translate libinput events | loop | coordinates within the screen |
| shell launcher, test client, diagnostics, log | none that lasts | | | |

Hard behaviours: requests of clients interleaved with input on one stack; crashes
and reconnects with a grace period; messages lost on full sockets; event batches
that name descriptors by number; a resolution change between any two steps;
capacity of every table. `PROJECT.json` lists them as hazards, at their lines.

## 2. Modules

| module | models | extends |
|---|---|---|
| `WindowStack` | `window.c` as operators on a stack record | |
| `WindowManager` | `wm.c`, and what the transports and the control socket do to the same stack | `WindowStack` |
| `MCWindowManager` | small screens and requests | `WindowManager` |
| `Transport` | `transport.c` inside one iteration of `server_run`, with its clients | `WindowStack` |
| `MCTransport` | small instances | `Transport` |
| `Display` | the display half of `server_run`, `seat.c`, `control.c`'s exchange, mode and framebuffers of `platform.c` | |
| `MCDisplay` | two modes, one covering the other | `Display` |
| `Wayland` | `wayland.c` inside one iteration of `server_run` | `WindowStack` |
| `MCWayland` | two clients with a surface each | `Wayland` |
| `Sessions` | what the transport promises its clients, without sockets or messages; `Transport` implements it | |
| `Server` | `server_run`'s iteration over one stack: input routing of both transports, their requests, focus synchronisation, `composite` | `WindowManager` |
| `MCServer` | two windows on four pixels | `Server` |
| `WindowStackProofs` | lemmas: what each stack operation returns and preserves, what it does to the z-order (`Ordered`), to the set of windows (`Contents`), to one window found by its id and to the applications (`Apps`) that Alt-Tab goes through | `WindowStack` |
| `WindowManagerProofs` | theorems of `WindowManager!Spec`: types, soundness, z-order, snaps, drags, taskbar, stable order, Alt-Tab, ids | `WindowManager`, `WindowStackProofs` |
| `ServerProofs` | theorems of `Server!ServerSpec`: where keys, motions and presses go; who places windows; all that is proved of the policy | `Server`, `WindowManagerProofs` |
| `TransportProofs` | theorems of `Transport!Spec`: types, the slot table and the batch of events, who owns which token, window and buffer | `Transport`, `WindowStackProofs` |
| `TransportClientProofs` | theorems of `Transport!Spec`: wallpaper, screen size, focus, reconnection, resilience, stop, and that it implements `Sessions!Spec` | `TransportProofs` |
| `WaylandProofs` | theorems of `Wayland!Spec`: types, windows and pixels of surfaces, repaints, who was told of the focus, the handshake | `Wayland`, `WindowStackProofs` |
| `DisplayProofs` | theorems of `Display!Spec` | `Display` |
| `SessionsProofs` | theorems of `Sessions!Spec` | `Sessions` |

`Server` composes what `WindowManager`, `Transport` and `Wayland` model one by one: it takes the
window manager's actions as they are and adds who hears of what. `Transport` and `Wayland`
each see the other half of the loop as a few actions that stand for it
(`InputFocus`, `OtherCreates`, `OtherDestroys`, `ButtonOrAltTab`); `Server` is where both are there.

### WindowStack

`stack.windows` is the array, bottom first; array index `i` of the code is
position `i + 1`. A look-up that returns -1 or NULL returns 0 or fails
`Exists`. Operators keep the C names. A window carries what decides something:
id, role, rectangle, buffer, `snapped` with the saved rectangle, and `app_decorated`;
titles, colours and `mapped` (never cleared by any operation) are left out.
`window_focus_cycle`'s loop is `Min` of the steps at which it would stop.

### WindowManager

One action per entry point of `wm.c` (`wm_pointer_motion`,
`wm_pointer_motion_abs`, `PressLeft` and `ReleaseLeft` for the two halves of
`wm_pointer_button`, `wm_key` for Alt-Tab), `NotifyReconfigured` for the tail of
the loop, and one per request that reaches the stack from elsewhere:
`CreateClientWindow`, `SetClientGeometry` (transport), `MapToplevel`,
`ResizeToplevel` (Wayland), `DestroyWindow` (both), `SetMode` (control socket).
These interleave freely between input events, as they do between iterations.
Pointer coordinates are `double` in the code; the model counts half pixels
and truncates toward zero as C does. `Init` leaves `reconfigured_id` at 0 or at
`Garbage`: `wm_init` does not set it and `server_run`'s `struct wm` is automatic.
`AbsInput` ranges over `BootMode`, the size `input_create` was given; the screen may
have another by then.

### Transport

`pc` is where the loop is: `poll`, `process` (epoll_wait), `expire`
(orphans_expire), `events` (the batch), `accept`, `drain` (client_readable's
receive loop, on slot `cur`), `reap` (client_drop's window loop), `late`
(control socket, then focus sync), `stop` (transport_destroy), `halted`.
One datagram is one action, named after its handler. A connection is a socket
used once: `conn` is the server's end, `alive` the peer, `inbox` the queue,
`stalled` a full receive buffer. No server step depends on what a client
reads, so what is sent is recorded in a ledger `out`: which windows a
connection believes focused, the screen size it knows, and whether a send to it
was lost (`cl_send` fails silently; no caller looks).
`mapped` and `fd_leak` stand for the address space and the descriptor table.
`prior` is a history variable: who had already hung up when a connection was first reported.

Simplifications, all of them refinements of granularity, never of outcome:
`client_drop` and `orphan_destroy` take a window's entry at a time in any order
(the table order is fixed in the code; the final focus is the top of what is left
in any order). Clients move only while the server is about to touch a
socket (`poll`, `accept`, `drain`, `late`): elsewhere a client step commutes with
the server's. `running` is only read at the loop head, so it is only
cleared in `late`. The grace period is a flag `due` that may rise at any `poll`.
`seed_windows` (only with `GLACIER_NO_SHELL`) and the test client are left out.

### Sessions

The abstract specification of the transport: a session, known by its reconnect
token, is `new`, `live`, `held` (its client died, its windows wait), `due` (its grace period is
over), `ended` or `gone`. `Hold` keeps all of a session's windows, `Reclaim`
gives them all back, `Expire` takes sessions that are due, several at once, and an ended session
only ever loses windows. `Transport!Session` is the refinement mapping: `StateOf(t)`
is read off the client slots, the orphan table and `next_token`, `OwnersOf(t)` finds a
session's windows in the slot, orphan or entry being reaped that has its token.

### Server

The phases of an iteration are `input` (any number of events), `lattice`
(transport_process), `wayland` (wl_frontend_dispatch), `control`, `flush` (keyboard focus
set; a client may still die in wl_frontend_flush). The events a motion or
a key sends to clients are functions of the state (`wl_frontend_pointer_motion(s, p)`
is the set of the events, with their coordinates), since nothing the server does
depends on them. A button is an action, `OnButton(left, pressed)`: the window manager sees
it first and may restack, drag or snap, then both transports are offered it, whatever the button;
`wm_pointer_button` leaves everything alone for a button but the left one, for a press on the
bare desktop and for a release that ends no drag. Whom the event reached is in the ledger `heard`, which no step
reads and every step that changes the scene or the cursor in the `input` phase sets anew. A window belongs to the transport its decoration says: Wayland
windows have `app_decorated` clear, as `surface_by_window` finds them, and
CrystallineLattice windows set; `orphaned` has the windows `find_by_server_id` does not
find although they are on screen. `owner` says which CrystallineLattice client's a window is, a client being
known by its token: when one of `LatticeClients` dies (`client_drop`), all of its windows are kept if one of them is a
shell's and a place among `CL_MAX_CLIENTS` is free, so that an application's or a menu's window, the focused one
included, may be an orphan too; otherwise all of them are in `dying`, and `Reap` destroys them one after the other
before anything else runs, as it does when the grace period is over (`orphan_destroy`). `client_reclaim`
gives them all back. Destruction is in any order; the focus ends on the top of what is left in each. `content` is the size of the pixels the client handed
over; `composite(p)` says whose pixel is seen at `p` and which one, after clipping and overlap.
Sessions and surfaces are reduced to what they do to a window here: their own modules
have the rest.

### Display

One action per step of the loop: `LoopHead` (master, waking), `Blank`, `Frame` or
`SkipFrame`, `Poll`, `seat_dispatch`, `on_input`, `Clients` (both transports: they
change the scene or not), the control socket (`NoCall`, `HangUp`, `AnswerOnly`,
`apply_mode_cb`), `Hotplug`, `Shutdown`. What is drawn is abstracted to
`current`: does the last framebuffer drawn show the scene as it is now.
`crtc` is the kernel's side: lit or not, in which mode, scanning out which
framebuffer; `RmFB` and `Accepts` say what the kernel does with it (removing a framebuffer
on screen switches the CRTC off; a flip needs a bound plane, a modeset a framebuffer
that covers the mode). `vt` is seatd's side: ours, asked back, theirs.

The environment (`SwitchAway`, `SwitchBack`, `OtherSession`, `Replug`, `IdleElapses`,
`on_sigint`, `CallerConnect`, `CallerSend`) runs at any moment; each of its steps is
taken where the loop next reads what it changes, since the loop's steps in
between do not touch that. `Replug` therefore comes just before the step that reads its
event: a cable that is out while a frame is committed is not told apart from
one pulled afterwards. `apply_mode_cb` is whole, with its failures:
`ModeHalfApplied` keeps what an allocation failure at either framebuffer leaves,
and `FrameCrash` is the frame that writes through the `MAP_FAILED` of a failed
`CREATE_DUMB`.

### Wayland

`surf[s]` is `struct fe_surface`, `objects[s]` the protocol objects its client holds:
`s->xdg_surface` and `s->xdg_toplevel` are NULL exactly when the object is not there. The
loop's phases are `frame`, `input` (on_input, then the other transport), `dispatch`
(wl_frontend_dispatch: one request is one action, named after its handler),
`sync` (wl_frontend_keyboard_focus) and `flush`. `surf_commit` is split by
its cases (`CommitInitial`, `CommitBare`, `CommitNull`, `CommitShm`, `CommitOther`).
`content` is the heap address of the copied pixels; a `realloc` to another size
always moves it (the harder case) or fails. `pointer_told` and `keyboard_told`
are ledgers: the windows a client's pointer and keyboard entered and did not leave, as far as
the windows still exist. `handshake` records what a client's xdg_surface
has been sent. What `wm.c` does to positions is any of `WmRects` for the
focused window. `current` is as in Display.

Clients keep to xdg-shell while they live; a client that does not is disconnected
by other compositors and is not modelled. A client dies in `dispatch` (hang-up) or in `flush` (EPIPE): `ClientDies` takes its
seat's objects, `SurfaceDies` one surface after the other, in any order, and `ClientGone` ends it; nothing
else runs while `dying` names the client, as in `wl_client_destroy`. `SeatFirst` says that a client binds
its seat before it makes a surface, as toolkits do at start-up; without it
`EventsAreAnnounced` fails, because `seat_get_keyboard` sends no enter for a window that
already has the focus.

## 3. Runs

Bounds: each run turns on, through `Kinds`, the datagrams its question is
about. Two connections over one or two slots are enough for a crash to meet a
live client, a reconnect or a refusal; three for a third party to the
reconnect. `InboxCap = 1` keeps one datagram in flight per client, and the drain
loop still sees several because clients refill it between two receives.
`MaxWindowId` bounds how many windows a behaviour creates, `WIN_MAX` is small
enough to be reached where capacity matters.

| run | question |
|---|---|
| `Server` | two windows of either transport, two CrystallineLattice clients and one connection with one place for a dead shell's windows (so that a shell may find no place), every button, any overlap, buffers smaller and larger than their window, a 2x2 screen: `SeenIsHit`, `KeysReachFocused`, `PressReachesHit`, and that clients' windows are only placed by their clients |
| `WmDrag` | a 4x3 screen with a snap margin of one pixel, so every edge and one spot that is no edge, a taskbar docked at the bottom or the left, one window of another client: drags keep their anchor and are of title bars, snaps can be undone and clear the taskbar |
| `WmFocus` | up to three windows at a time, which is the capacity, of four over a behaviour, in three roles, two screen sizes: ids, z-order, wallpaper and focus survive every click, Alt-Tab, creation, destruction |
| `TrSession` | three connections over two slots, TASKBAR and NORMAL windows, tokens 0 and 1, shutdown at any iteration: sessions, tokens and windows have one owner, orphans are shells', a crash removes no one else's window; `ImplementsSessions` shows that `Transport` implements `Sessions` |
| `TrScene` | two connections over one slot, three windows over a behaviour, one at a time per client (a slot that holds two is `TransportProofs`' matter), every legal form of CL_COMMIT, malformed datagrams, wallpaper and application, two screen sizes, shutdown at any iteration: mappings and descriptors neither leak nor dangle, sizes are known, wallpapers refitted, held ones too |
| `TrFocus` | two live clients, focus by click, creation and destruction, full sockets: what clients were told agrees with the server |
| `TrLive` | under `FairSpec`, a dead connection is dropped and orphans are reaped as long as there is traffic |
| `Wayland` | two clients, two buffer sizes, windows of the other transport, two windows over a behaviour: one window per toplevel, pixels live, changes repainted, events only for windows their client was told it has |
| `Display` | two modes, one caller, both allocation failures: no commit while the VT is away, one size everywhere, double buffering, the latest scene on screen whenever the loop sleeps; under `FairSpec`, VT switches get through and input wakes the panel |

`WmDrag` and `WmFocus` use a `VIEW` that drops words no step reads (the grab
offset outside a drag, the saved rectangle of a window that is not snapped): the
next write to them does not depend on their value. `TrSession`, `TrScene`
and `TrFocus` use symmetry of connections and client window ids, which no
definition orders. Liveness runs use no symmetry.
`Wayland` has a `VIEW` that names windows by their place in the stack, since ids are
only compared for equality and never reused, and leaves out `handshake`, which no step reads.
`Server`'s `VIEW` does the same as `WmDrag`'s, tells windows that are gone apart from no window but not
from each other, and leaves out `kbd_focus` where it is set again before a property reads it, and `heard`: no step
reads it, and an action property is checked on every step TLC takes, those to states it has seen included.
`Server` has one mode, for a resolution change is `WmFocus`'s and `TrScene`'s question.
`WmDrag` has one screen size, because `DragAnchored` is false once the resolution
changes in mid-drag (section 6).

### Fairness

In `Transport`, `FairSpec` is weak fairness of `ServerStep`, the steps the server takes on its own
once it runs (`poll` has a one-second timeout, nothing in an iteration
blocks), and strong fairness of `RecvEnd`: `client_readable` drains a queue until
it is empty, so a client that has another datagram ready at every receive would
hold the server in that loop. The assumption is on clients, not on the code, and
is listed as a hazard. In
`Display`, it is weak fairness of `ServerStep` alone: the process is scheduled and
`poll` returns within its second. No fairness is assumed of clients, of seatd, of
input or of time; `HandsOver` and `WakesUp` except the server ending and, for the latter,
the seat being lost or a mode change failing first.

### Runs that find a disagreement

| run | what it shows |
|---|---|
| `TrReclaimFocus` | a client that reclaims the focused window is never told it has the focus |
| `DisplayVt` | taking master back does not end blanking nor restart the idle clock: after a VT switch back to a blanked or long idle server the other session's frame stays until there is input. `ShowsLatest` is the part that holds (not blanked) |
| `WlReshow` | `initial_configured` outlives the role: a surface hidden and shown again gets no configure event and its client waits for ever |

## 4. Proofs

TLC shows the above on the instances named; TLAPS proves the following for every
capacity, screen, snap margin, title-bar height and set of requests (assumptions:
`WinMaxAssumption`, `TitlebarAssumption`, `SnapAssumption`, `ModesAssumption`,
`RequestsAssumption`, all of them types).

- `WindowManagerProofs!TypeCorrect`: `Spec => []TypeOK`.
- `WindowManagerProofs!StackAlwaysSound`: `Spec => []StackSound` (ids unique and below
  the allocator, focus 0 or a live window, array within capacity).

The inductive invariant is `Inv == TypeOK /\ StackSound`, split by `InvSplits`
into the words of `struct wm` and `Sound(stack)`. Neither half is inductive alone:
the stack operations return stacks only when given stacks and existing windows
(`window_create` needs `next_id` positive, `window_destroy` needs the top's id to be an
id), and uniqueness of ids needs the allocator's bound. No drag state is needed:
every call made with a stale `move_id` is one `window.c` ignores.
`WindowStackProofs` has one lemma per stack operation. The rotations are treated
as choices of windows without repetition (`RearrangedUnique`), so raise, lower and
destroy share the argument for uniqueness; `MinOfNats` and `MaxOfPositions`
give the value of the `CHOOSE` in `Min` and `Max`.

`WindowManagerProofs!StackingAlwaysOrdered` proves `Spec => []StackingOrder`. `StackingOrder`
is inductive relative to `Inv` (a step may assume that ids are unique and the focus live), but not
through every operation: `window_create` breaks it until the new window is focused
or lowered. So `FocusOrders` needs of its stack only that the wallpapers are below,
`LowerOrders` only that all the other wallpapers are, and `CreateOrders` gives just
that; `window_destroy` keeps all three parts since a focus it moves goes to the top window
(`DestroyOrders`). Everything else leaves ids, roles and focus where they are (`SameShape`).

Four more theorems of `WindowManager!Spec` use the set of windows without its order:
`Contents`, and `Swapped` for a step that puts one window in another's place.

- `SnapsCanBeUndone`: `Spec => []SnappedIsRestorable`. `Restoring` adds what a snap relies on when it saves the
  rectangle: a decorated window that is not snapped is as high as its title bar at least. The clamps in
  `on_create_window`, `on_set_geometry` and `surface_map_or_update` and the restore on a press keep it.
- `DragsRecover`, `TitleBarsDrag`, `DragsStayAnchored`. `Gripping` says that the cursor is on the screen, that the id
  dragged was issued (so that no new window takes a stale `move_id`), and that an existing window under that id is
  `Held`: one glacier decorates and not snapped. It is inductive relative to `Inv` and `Restoring` for
  every `Modes`, and is what `TitleBarsDrag` states. That the window is where it was grabbed (`Anchored`) is not: a
  resolution change clamps the cursor without the window (section 6). `DragsRecover` says how far that goes:
  no step that leaves the screen's size alone breaks `DragAnchored`, and each motion of the pointer establishes it
  again. With `Modes = {BootMode}` it is an invariant (`DragsStayAnchored`).
- `SnapsClearTaskbar`: `Spec => SnapClearsTaskbar`. Only a release can snap, its rectangle lies in
  `wm_work_area`, and that is disjoint from a taskbar along one edge and
  thinner than three quarters of the screen. The property rounds the three quarters as `wm_work_area`'s integer
  division does; without rounding it is false where the screen is no multiple of four.
- `OrderIsStable`: `Spec => StableOrder`. Every stack operation satisfies `KeepsOrder` for the window
  it raises, sinks, removes or adds, and `Issued` bounds that window's id.

`AltTabAlwaysReachesAll` proves `Spec => []AltTabReachesAll`: in every state reached, as many Alt-Tabs as there are
applications give each of them the focus. One press takes the application that is lowest of all, when the focus is on
top, (`CycleForward`) and puts it above the others, whose order it keeps (`FocusTops`). So after `k` presses
those reached are `k` applications, each above all that were not (`Rotated`); the next press reaches one
more, and there is nothing left to reach once there are as many as `Apps` has (`AppsCounted`). The library's induction theorem
takes an operator, which the provers cannot instantiate; `SetInduction` states it for a set of
numbers instead, and `PressesExist` uses it to show that the recursive function
in the property has the values its equation says.

`IdsAreFresh` proves `Spec => IdsNeverReused`: the allocator never goes back, and every window a step adds has an
id not issued before. (The actions stop at `MaxWindowId`, any number;
in the code `next_id` wraps after 2^32 windows.)

For `Display`, for every set of modes, every `Covers` and both failures or
neither (`ModesAssumption`, `CoversAssumption`, `FaultsAssumption`):

- `TypeCorrect` (`TypeOK`), `NeverCommitsAway` (`NoCommitWhenAway`), `SizesAlwaysAgree`
  (`SizesAgree`), `DoubleBuffered` (`NeverDrawsOnScreen`), `AlwaysShowsLatest`
  (`ShowsLatest`).

The inductive invariant `Inv` adds to `TypeOK` and `SizesAgree` what the loop
relies on without saying: `SeatInv` (while the VT is theirs the seat is not
`active`, and from the loop head to `poll` master is exactly `active`), `CrtcInv` (with master and no
modeset pending, the CRTC shows `fb[front]` in the server's mode, lit unless blanked or just
unplugged), `DirtyInv` (a pending modeset
or a scene that is not current makes the loop dirty) and `BackInv` (the other
framebuffer is not on screen). `ShowsLatest` needs all four: it is what `Frame` and
`SkipFrame` leave of them at `poll`.

`Server`'s actions are built from `WindowManager`'s, so each step of the loop is one of `WindowManager` or leaves its
variables alone (lemma `DrivesWindowManager`; it holds by construction and is no result in itself). What
is proved of the window manager under arbitrary requests is therefore true of it in the loop, for every value of
the constants: `ServerProofs!LoopKeepsPolicy` lists it (`StackSound`, `StackingOrder`, `SnappedIsRestorable`, `AltTabReachesAll`, `DraggedByTitleBar`,
`DragRecovers`, `StableOrder`, `SnapClearsTaskbar`, `IdsNeverReused`).

`ServerProofs!KeysAlwaysReachFocused` proves `ServerSpec => []KeysReachFocused`, from `Inv` and two
more conjuncts. `Decorated`: a window is decorated by its client or is an application
the server decorates, and orphans and windows still to be destroyed are of the former, so that of the two
transports exactly one owns a window. The exception in the property is the focus on a window of a dead client: an
application of a shell keeps the focus while it waits, and no key is heard. `Synced`: during the flush `kbd_focus` is what `wl_frontend_keyboard_focus`
would compute, or names a window that is gone; a Wayland client dying there keeps it,
because a focus that falls back leaves the frontend with a dead id. Both are stated over
the set of windows without their order (`Kinds`), which raise, lower and focus do not change and
create, destroy and update change by one element.

The other four properties of `Server` are proved as well:

- `RoutingAlwaysOK` (`RoutingOK`): with `Decorated`, `Issued` and `Routed`, which adds that a window the Wayland
  frontend maps has the pixels of a buffer, and `Ledgers` for the types of `owner` and `heard`. An orphan is a window on screen
  because every way a dead client's window goes (`Reap`, `client_reclaim`) takes it off the orphans too.
- `ClientsAlwaysPlaceThemselves` (`ClientsPlaceThemselves`): `Dragging` says that an existing window under `move_id` is one the
  server decorates and that `move_id` was issued, so a stale one never comes to name a client's own window. Then
  `InPlace` holds of every step outside the clients' turn.
- `SeenIsAlwaysHit`: `ServerSpec => [](TitleBarsFit => SeenIsHit)`. `TitleBarsFit` says that no snapped decorated window is
  lower than its title bar. It is a hypothesis because the code does not keep it: a snap beside a taskbar whose
  client placed it so that less than a title bar is left gives such a window (wm.c:66), `composite` then
  draws the bar over a neighbour and input still goes to the neighbour. It holds in every state of the run
  `Server`. For windows that are not snapped the same is proved (`Restoring`).
- `PressAlwaysReachesHit` (`PressReachesHit`): a left press acts on the topmost window under the cursor; `FocusedOnTop` of
  `WindowStackProofs` says it still is after `window_focus`, and `UnsnappedUnderPointer` that a window restored by the press
  stays under the cursor, for which the cursor must be on the screen (`OnScreen`). For a press the window manager makes
  nothing of, both transports find the window the last motion found (`OtherPressReaches`).

For `Sessions`, for every set of tokens:

- `SessionsOwnWindows`: a window has one session, is on screen exactly while a session has it,
  and sessions that are new or gone have none. The inductive invariant adds
  that ids on screen are at most `last`, without which `AddWindow` could give one out again.
- `SessionsEndOnce`: an ended session stays ended, a held one keeps its windows.

For `Transport`, for every number of connections, slots, windows and client window ids, every
protocol version and every datagram the fields of the protocol can hold (`ConnAssumption`,
`SlotsAssumption`, `VersionsAssumption`, `FieldsAssumption`, all of them types):

| theorem | property | beyond the assumptions |
|---|---|---|
| `TransportProofs!TransportTypes` | `TypeOK` | |
| `TransportProofs!OneSessionPerToken` | `TokensUnique` | |
| `TransportProofs!MappingsOwned` | `BuffersOwned` | |
| `TransportProofs!OneOwner` | `SingleOwner` | no client creates a window with id 0 |
| `TransportProofs!NeverTwoOwners` | `AtMostOneOwner`, what is left of it without that hypothesis | |
| `TransportClientProofs!WallpapersBelow` | `WallpaperBelowAll` | |
| `TransportClientProofs!ScreenIsKnown` | `ScreenKnown` | |
| `TransportClientProofs!FocusIsTold` | `FocusToldAgrees` | |
| `TransportClientProofs!OwnerKnowsFocus` | `FocusedOwnerTold` | no client presents a token |
| `TransportClientProofs!OrphanFound` | `ReconnectFindsOrphan` | |
| `TransportClientProofs!StopsClean` | `CleanStop` | no id 0, at most one frame besides the fence in a commit |
| `TransportClientProofs!Resilience` | `ResilientToOthers` | |
| `TransportClientProofs!RefinesSessions` | `ImplementsSessions` | no id 0, finitely many connections |

Each hypothesis in the last column is one the code breaks when it fails, not one the proof
happens to want. An id of 0 marks a free entry (`on_create_window` accepts it: section 6), and the
window then has no owner. A reclaim gives a client windows without telling it which has the
focus (`TrReclaimFocus`). A commit with two descriptors and no fence leaks one (section 6).
`ImplementsSessions` itself has `Cardinality(Conn)` in it, the number of sessions there
can be. Clients that keep to protocol.h:120 use no id 0.

The invariants build on each other:

- `Base == Typed /\ Seated /\ Pending`. `Seated`: a slot's descriptor is a connection being
  served, no two slots have the same, and a free slot has no windows, token or handshake.
  `Pending`: what the batch, the drain loop and the reaping loop still hold on to (`evs`, `cur`) is
  a slot that is there, which is what makes the descriptor numbers of `epoll_wait`'s events safe to look up.
- `TokensUnique` is inductive with `Base`: a token is new, or moves from orphan to slot in
  `client_reclaim`, or from slot to orphan in `client_drop`, and `next_token` bounds all there are.
- `Owning`: an entry in use names a window that is on screen with the entry's buffer
  (`Shown`), no two entries name the same window (`Apart`), a window no entry names came from an id 0
  and has no slot (`OwnedOrBare`), the mappings are the windows' buffers (`MappedIsShown`) and no two windows share one
  (`BuffersApart`). `BuffersOwned` alone is not inductive: that `on_commit` unmaps the right buffer
  needs entry and window to agree on which it is.
- `Wallpapers`: `Ordered` of `WindowStackProofs` with every wallpaper of the screen's size.
- `TellsRight` and `Telling`: the ledger `told` names `focused_server_id`'s entry and no other; for the
  converse, the owner of the window last announced has been told (`OwnerTold`), that window's id has been issued, so that
  a new window is not taken for it (`FocusIssued`), and between two iterations it is the focused one (`Announced`).
- `PriorSettled`: a connection that had hung up when a newer one was first reported is dropped before
  the newer one's first datagram is read, because `transport_process` handles the
  batch's hang-ups before it accepts.
- `Stopped`: once halted no slot and no orphan is left. With `Owning` that leaves no window and no mapping.
- `HupsDead` and `ReapJustified`: a hang-up event is of a dead peer, and a client is being reaped only when its
  peer is dead, its last datagram was malformed, or the server stops.

`RefinesSessions` has, besides `Base`, `TokensUnique` and `Owning`, `TokensBounded` (no more tokens are given out
than connections were welcomed, so that a token is one of `Sessions`' `Token`) and `HeldFull` (an
orphan slot holds a window unless it is being taken down, so that `Reclaim` and `Expire` have
what to give back and take). `Places` follows from the first two: the refinement mapping, a `CHOOSE` over
tables, reads the one slot that has the token. Under it each action is a step of
`Sessions` or a stutter: `DispatchHello` is `Open` or `Reclaim`,
`client_drop` is `Hold` when it parks and `Drop` when it does not, an entry reaped or an orphan's window destroyed is
`RemoveWindow` and the last of them `Forget`; the orphans that are due when `transport_process`
comes to them, and all of them when the server stops, are `Expire`. What
`SessionsProofs` shows of `Sessions` is therefore true of the transport.

Hypotheses and conclusions refer to the model of section 2: in particular a client is anything that sends
datagrams of `Message` in any order and dies at any moment.

For `Wayland`, for every set of clients, finitely many surfaces, every buffer, cascade and pointer
position (`SurfacesAssumption`, `OwnerAssumption`, `OffersAssumption`, `CascadeAssumption`,
`WmRectsAssumption`, `PointsAssumption`):

- `FrontendTypes` (`TypeOK`), from `Typed == Words /\ Sound(stack)`: the stack's operations return stacks only when given
  sound ones. `FreshIsAddress` shows by counting that there is always an address for another copy, which is
  what `SurfacesAssumption` is for.
- `OneWindowPerToplevel` (`WindowPerToplevel`) and `PixelsStayLive` (`PixelsLive`), from `Windows`: a
  mapped surface has a toplevel, pixels, and a window that shows just these (`Windowed`), no two surfaces have the
  same window (`Apart`), and pixels on screen are some surface's (`Sampled`). All three see the stack only as
  `Bufs`, its pairs of id and pixels, which raise, focus, drags and snaps leave alone. Since a client dies
  step by step here, both hold between the destructions of two of its surfaces as well.
- `NoRepaintLost` (`SceneRepainted`), from `Owed`: at every point of the loop the frame is current, or `ctx.dirty` or
  `fe->dirty` is set.
- `FocusIsAnnounced` (`EventsAreAnnounced`), under the hypothesis `SeatFirst`, which the frontend does not enforce (section 2),
  and `NobodyElseIsTold` without it: nobody has entered a window that is not his or has lost the
  focus. Both follow from `Announced`: the two ledgers are right (`Ledger`), a client that has a
  surface has the seat or is dying (`SeatHeld`), and the focused ids have been issued (`FocusIssued`),
  so that a surface mapped later never comes into a focus that was not announced. `Windows` is
  needed for it: an unmapped window leaves no other surface behind under its id.
- `FirstShowsAnswered`: only a surface that was configured once before can be left waiting for its configure event, the
  disagreement `WlReshow` shows. `Handshakes` adds that a toplevel, and a handshake, never outlives
  its `xdg_surface`; with `WindowPerToplevel` a surface hidden by a null buffer still has one.

Only model-checked: every liveness property and everything with `ENABLED` (`HandsOver`, `WakesUp`,
`DeadDropped`, `HeldReapedByTraffic`), which is beyond the prover. Every safety invariant and action property of
the passing runs is a theorem, some under the hypotheses named above.

## 5. Not modelled

Pixels, cursor images, titles, keyboard translation, device enumeration, process launching,
diagnostics and logging have no state the properties relate. Wayland frame
callbacks, decorations and the inert globals are left out too. Start-up and the choice of device,
connector and plane happen once, before anything else runs.

## 6. Disagreements seen while modelling and not given a run

- `apply_mode_cb` clamps the cursor (server.c:352) without moving a window being
  dragged, so until the next motion the pointer is off the point it grabbed,
  against wm.c:24 (`DragsRecover`: nothing else does, and the next motion repairs it).
- `send_welcome` announces `CL_VERSION` (transport.c:202), protocol.h:111 says
  "negotiated version".
- `on_commit` with two descriptors and `has_fence = 0` closes the first only
  (transport.c:295), against transport.c:281 "COMMIT consumes the passed fds."
- `on_set_cursor` takes the shape from any client (transport.c:368), against
  protocol.h:57 "focused client's cursor shape".
- `orphans_expire` runs only inside `transport_process`, that is only with client
  traffic (server.c:641): without it a dead shell's windows stay past any deadline,
  against transport.c:34. `HeldReapedByTraffic` is what does hold.
- `on_create_window` accepts id 0 (transport.c:211), the mark of a free slot, against
  protocol.h:120 "(nonzero)": the window then outlives its client. With `ZeroWid` in
  `CreateWids`, `SingleOwner` fails.
- A Wayland client that dies has its `fe_surface` freed before the destructors of
  its roles write to it (wayland.c:453, 497): undefined, harmless while nothing is
  allocated in between.
- A window that goes because its client died in `wl_frontend_flush` is repainted
  only after the next Wayland dispatch: `fe->dirty` is read nowhere else.
- Unmapping sends no leave: a client that hides a focused surface still believes it
  is entered when it shows it again (the ledgers drop windows that are gone).
- Frame callbacks are done in the commit itself (wayland.c:254), not
  "throttle[d] ... to our cadence" (wayland.c:96).
- `wm_init` does not set `reconfigured_id`, and `server_run`'s `struct wm` is automatic,
  so the loop's first test (server.c:673) reads an indeterminate word, against
  wm.h:28 "0 = none". `transport_notify_geometry` ignores an id no window has.
- A mode change does not update the extents absolute devices are scaled to
  (input.c:129), against input.c:24 "virtual-screen bounds for absolute motion":
  after a change to a larger mode the pointer of a tablet cannot reach all of it.
- `apply_mode_cb` answers `ok = 0` after a failed reallocation with the mode already
  switched and a framebuffer gone (server.c:344); after a failed `CREATE_DUMB`
  the next frame writes through `MAP_FAILED` (`FrameCrash`).
- `control_process` reads the request once, from a non-blocking socket, right after
  `accept4` (control.c:157): a caller accepted between its connect and its send is hung up
  on (`Display!HangUp`), against control.h:9 "one request datagram → one response datagram".
- Aero Snap resizes Wayland windows only, and `transport_notify_geometry` knows
  CrystallineLattice windows only, so no owner is ever told (server.c:671 "tell the owning
  client so it re-renders at the new size"): `ClientsPlaceThemselves` is the half of it that is
  harmless. `reconfigured_id` is also a single slot.
- `pointer_focus` is that of the last motion, while the window manager looks under the
  cursor again: after the scene changed under a still pointer, a press goes to the
  Wayland window that was there and also starts a drag or reaches a CrystallineLattice window,
  against server.c:258. Without `PointerFresh`, `PressReachesHit` fails.
- The window manager returns for any button but the left one before it focuses (wm.c:118), and `on_input` forwards
  the button all the same (server.c:260): a right or middle press over a window that has not the focus reaches its
  client, against server.c:258 "a content press also reaches the focused client". `PressReachesHit` says what
  does hold: it reaches at most the window under the cursor, and only a left press is sure to be the focused one's.
- Within one batch, keys behind a click or an Alt-Tab follow `stack.focus_id` on one transport
  and `kbd_focus` on the other, so they reach both clients or neither (server.c:293);
  the release of Alt after an Alt-Tab always goes to the window switched to or to none.
- One flag serves two Ctrl keys and one two Alt keys (server.c:272): releasing either of two
  held keys disables the shortcut, and a release while the VT is away is never seen.
- `wl_output` announces the size of start-up for ever (wayland.c:593); no Wayland client
  hears of a resolution change.
- `open_restricted` does not record devices beyond 64 (input.c:37), which are then
  never closed through the seat, and no one closes the descriptors libseat hands out:
  `libseat_close_device` leaves that to its caller.
- A refused commit clears `dirty` and `need_modeset` all the same (server.c:622).
- Nothing resumes libinput after a VT switch, although seatd revokes the devices.

## 7. Plan

1. Start-up: which card is taken, what each failure leaves open.
