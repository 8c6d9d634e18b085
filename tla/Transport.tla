----------------------------- MODULE Transport -----------------------------
(***************************************************************************)
(* The CrystallineLattice transport, src/src/transport.c, inside one       *)
(* iteration of server_run: clients connect, shake hands, create windows,  *)
(* hand over buffers, crash and reconnect; the server drains their sockets *)
(* one datagram at a time, parks a dead shell's windows for a grace period *)
(* and reports focus.  Clients run concurrently with every server step.    *)
(*                                                                         *)
(* A connection is a socket used once.  Its datagrams wait in inbox; what  *)
(* the server sends is recorded in out, the ledger of what each connection *)
(* has been told, since no server step depends on what clients read.       *)
(***************************************************************************)
EXTENDS WindowStack

CONSTANTS Conn, NoConn,     \* connections, and the free slot's fd (-1)
          Wid, ZeroWid,     \* client window ids that are not 0, and 0
          CL_MAX_CLIENTS,   \* client slots, and as many orphan slots
          CL_VERSION, CL_MIN_VERSION,
          Kinds,            \* what happens besides connects, hellos and hang-ups:
                            \* datagram types, "STALL", "FOCUS" and "QUIT"
          CreateWids,       \* window ids clients name in CL_CREATE_WINDOW
          CreateRoles,      \* roles they ask for
          Hellos,           \* [version, min_version] pairs they offer
          Tokens,           \* reconnect tokens they present
          Commits,          \* [nfds, has_fence, ok] forms of CL_COMMIT
          Rects,            \* geometry they request
          Screens,          \* screen sizes
          InboxCap,         \* bound: datagrams queued per connection
          MaxWindowId       \* bound: windows created over a behaviour

ASSUME ConnAssumption == NoConn \notin Conn /\ ZeroWid \notin Wid
ASSUME SlotsAssumption == CL_MAX_CLIENTS \in Nat \ {0}
ASSUME VersionsAssumption == CL_VERSION \in Nat /\ CL_MIN_VERSION \in Nat
\* What the fields of a datagram can hold.
ASSUME FieldsAssumption ==
  /\ CreateWids \subseteq Wid \cup {ZeroWid}
  /\ CreateRoles \subseteq Role
  /\ Hellos \subseteq [version : Nat, min_version : Nat]
  /\ Tokens \subseteq Nat
  /\ Commits \subseteq [nfds : Nat, has_fence : BOOLEAN, ok : BOOLEAN]
  /\ Rects \subseteq Rect
  /\ Screens \subseteq [w : Nat \ {0}, h : Nat \ {0}]

VARIABLES stack, screen,
          clients,            \* the client table, by slot
          orphans,            \* windows of dead shells, by slot
          focused_server_id,  \* last focus reported to clients
          next_token,         \* reconnect-token allocator
          mapped,             \* buffer mappings in the server's address space
          fd_leak,            \* a received descriptor was never closed
          cursor_from,        \* connection whose cursor shape is shown
          running             \* cleared by Esc or a signal
VARIABLES conn, alive, inbox, \* sockets: server's side, client's side, queue
          stalled             \* connections whose receive buffer is full
VARIABLES out                 \* what each connection has been told
VARIABLES pc, cur,            \* where server_run is, and the slot it works on
          evs,                \* events epoll_wait returned, not yet handled
          prior               \* connections hung up when c was first reported

scene  == <<stack, screen, mapped, fd_leak, cursor_from>>
table  == <<clients, orphans, focused_server_id, next_token>>
socket == <<conn, alive, inbox, stalled>>
loop   == <<pc, cur, evs, prior, running>>
vars   == <<scene, table, socket, out, loop>>

Slots == 1..CL_MAX_CLIENTS

NoWin    == [server_id |-> 0, buf |-> 0]
NoWins   == [w \in Wid |-> NoWin]
NoClient == [fd |-> NoConn, hello |-> FALSE, token |-> 0, wins |-> NoWins]
NoOrphan == [token |-> 0, due |-> FALSE, wins |-> NoWins]
NoScreen == [w |-> 0, h |-> 0]
NoEvents == [listen |-> FALSE, in |-> {}, hup |-> {}]

Init ==
  /\ stack = window_stack_init
  /\ screen \in Screens
  /\ clients = [k \in Slots |-> NoClient]
  /\ orphans = [k \in Slots |-> NoOrphan]
  /\ focused_server_id = 0
  /\ next_token = 0
  /\ mapped = {}
  /\ fd_leak = FALSE
  /\ cursor_from = NoConn
  /\ running = TRUE
  /\ conn = [c \in Conn |-> "unborn"]
  /\ alive = [c \in Conn |-> FALSE]
  /\ inbox = [c \in Conn |-> << >>]
  /\ stalled = {}
  /\ out = [told |-> {}, lost |-> {}, screen |-> [c \in Conn |-> NoScreen]]
  /\ pc = "poll" /\ cur = 0
  /\ evs = NoEvents
  /\ prior = [c \in Conn |-> {}]

----------------------------------------------------------------------------
(* Clients: any legal or malformed datagram, a crash at any moment.        *)

Message ==
  UNION { {[type |-> "HELLO", version |-> h.version, min_version |-> h.min_version,
            token |-> t] : h \in Hellos, t \in Tokens},
          {[type |-> "CREATE", wid |-> w, role |-> r, rect |-> q] :
             w \in CreateWids, r \in CreateRoles, q \in Rects},
          {[type |-> "COMMIT", wid |-> w, form |-> f] : w \in Wid, f \in Commits},
          {[type |-> "DESTROY", wid |-> w] : w \in Wid},
          {[type |-> "GEOMETRY", wid |-> w, rect |-> q] : w \in Wid, q \in Rects},
          {[type |-> t] : t \in {"CURSOR", "OTHER", "SHORT"}} }

ClientConnect(c) ==
  /\ conn[c] = "unborn"
  /\ conn' = [conn EXCEPT ![c] = "backlog"]
  /\ alive' = [alive EXCEPT ![c] = TRUE]
  /\ UNCHANGED <<scene, table, inbox, stalled, out, loop>>

Queued(type) == UNION {{<<c, i>> : i \in {j \in DOMAIN inbox[c] : inbox[c][j].type = type}} : c \in Conn}

ClientSend(c, m) ==
  /\ alive[c] /\ conn[c] \in {"backlog", "served"}
  /\ Len(inbox[c]) < InboxCap
  /\ m.type = "HELLO" \/ m.type \in Kinds
  /\ m.type = "CREATE" => stack.next_id + Cardinality(Queued("CREATE")) <= MaxWindowId
  /\ inbox' = [inbox EXCEPT ![c] = Append(@, m)]
  /\ UNCHANGED <<scene, table, conn, alive, stalled, out, loop>>

ClientClose(c) ==
  /\ alive[c] /\ conn[c] # "done"
  /\ alive' = [alive EXCEPT ![c] = FALSE]
  /\ UNCHANGED <<scene, table, conn, inbox, stalled, out, loop>>

\* A client stops reading until its buffer is full, or catches up again.
ClientStall(c) ==
  /\ "STALL" \in Kinds
  /\ alive[c] /\ conn[c] = "served"
  /\ stalled' = IF c \in stalled THEN stalled \ {c} ELSE stalled \cup {c}
  /\ UNCHANGED <<scene, table, conn, alive, inbox, out, loop>>

\* CL_RECONNECT_GRACE_MS pass for one orphan.
GraceElapses(o) ==
  /\ pc = "poll"
  /\ orphans[o].token # 0 /\ ~orphans[o].due
  /\ orphans' = [orphans EXCEPT ![o].due = TRUE]
  /\ UNCHANGED <<scene, clients, focused_server_id, next_token, socket, out, loop>>

----------------------------------------------------------------------------
(* Tables.                                                                 *)

Used(wins) == {w \in Wid : wins[w].server_id # 0}

win_alloc(k) == Cardinality(Used(clients[k].wins)) < WIN_MAX

\* The live client slots and window ids behind a server id: orphans have none.
find_by_server_id(cls, id) ==
  {e \in Slots \X Wid : /\ id # 0 /\ cls[e[1]].fd # NoConn
                        /\ cls[e[1]].wins[e[2]].server_id = id}

win_drop_buffer(s, w) ==
  IF w.buf # 0 /\ Exists(s, w.server_id)
  THEN Update(s, w.server_id, [window_by_id(s, w.server_id) EXCEPT !.buf = 0])
  ELSE s

(* Sending.  cl_send fails on a full buffer or a closed peer, and no caller *)
(* looks at its result.                                                     *)

cl_send(o, c, delivered) ==
  IF c \in stalled \/ ~alive[c] THEN [o EXCEPT !.lost = @ \cup {c}] ELSE delivered

SendFocus(o, cls, e, focused) ==
  LET c == cls[e[1]].fd
      f == <<c, e[2]>>
  IN  cl_send(o, c, [o EXCEPT !.told = IF focused THEN @ \cup {f} ELSE @ \ {f}])

\* Fault: the client that loses the focus is not told.
notify_focus_GainOnly(o, cls, id) ==
  LET new == find_by_server_id(cls, id)
  IN  IF id = focused_server_id \/ new = {} THEN o
      ELSE SendFocus(o, cls, CHOOSE e \in new : TRUE, TRUE)

\* Fault: the focus is only ever handed from one client to another.
notify_focus_Handover(o, cls, id) ==
  LET old == find_by_server_id(cls, focused_server_id)
      new == find_by_server_id(cls, id)
  IN  IF id = focused_server_id \/ old = {} \/ new = {} THEN o
      ELSE SendFocus(SendFocus(o, cls, CHOOSE e \in old : TRUE, FALSE),
                     cls, CHOOSE e \in new : TRUE, TRUE)

notify_focus(o, cls, id) ==
  LET old == find_by_server_id(cls, focused_server_id)
      new == find_by_server_id(cls, id)
      o1  == IF old = {} THEN o ELSE SendFocus(o, cls, CHOOSE e \in old : TRUE, FALSE)
      o2  == IF new = {} THEN o1 ELSE SendFocus(o1, cls, CHOOSE e \in new : TRUE, TRUE)
  IN  IF id = focused_server_id THEN o ELSE o2

----------------------------------------------------------------------------
(* client_drop and orphan_destroy, one window at a time.                   *)

ShellRole == {"TASKBAR", "DESKTOP", "TRAY"}

HasShell(wins) == \E w \in Used(wins) :
  /\ Exists(stack, wins[w].server_id)
  /\ window_by_id(stack, wins[w].server_id).role \in ShellRole

FreeOrphans == {o \in Slots : orphans[o].token = 0}

\* Is a lost client's scene kept for reconnection?
Parks(k) == /\ Used(clients[k].wins) # {} /\ clients[k].token # 0
            /\ HasShell(clients[k].wins)
            /\ FreeOrphans # {}

\* client_drop returns to transport_process, or to transport_destroy.
AfterDrop == IF running THEN "events" ELSE "stop"

\* close(c->fd) and the free slot.
Release(k) ==
  LET c == clients[k].fd
  IN  /\ clients' = [clients EXCEPT ![k] = NoClient]
      /\ conn' = [conn EXCEPT ![c] = "done"]
      /\ inbox' = [inbox EXCEPT ![c] = << >>]
      /\ stalled' = stalled \ {c}
      /\ out' = [out EXCEPT !.told = {f \in @ : f[1] # c}, !.lost = @ \ {c},
                   !.screen[c] = NoScreen]
      /\ prior' = [d \in Conn |-> IF d = c THEN {} ELSE prior[d] \ {c}]
      /\ pc' = AfterDrop /\ cur' = 0

client_drop(k) ==
  \/ /\ Parks(k)
     /\ orphans' = [orphans EXCEPT ![Min(FreeOrphans)] =
          [token |-> clients[k].token, due |-> FALSE, wins |-> clients[k].wins]]
     /\ Release(k)
  \/ /\ ~Parks(k)
     /\ pc' = "reap" /\ cur' = k
     /\ UNCHANGED <<clients, orphans, conn, inbox, stalled, out, prior>>

ReapWindow ==
  /\ pc = "reap"
  /\ \E w \in Used(clients[cur].wins) :
       LET e == clients[cur].wins[w]
       IN  /\ stack' = window_destroy(win_drop_buffer(stack, e), e.server_id)
           /\ mapped' = mapped \ {e.buf}
           /\ clients' = [clients EXCEPT ![cur].wins[w] = NoWin]
           /\ out' = [out EXCEPT !.told = @ \ {<<clients[cur].fd, w>>}]
  /\ UNCHANGED <<screen, fd_leak, cursor_from, orphans, focused_server_id, next_token,
                 socket, loop>>

ReapDone ==
  /\ pc = "reap" /\ Used(clients[cur].wins) = {}
  /\ Release(cur)
  /\ UNCHANGED <<scene, orphans, focused_server_id, next_token, alive, evs, running>>

\* Fault: the grace period is not awaited.
Reaping_Early(o) ==
  /\ orphans[o].token # 0
  /\ \/ pc = "expire"
     \/ pc = "stop" /\ \A k \in Slots : clients[k].fd = NoConn

\* Fault: orphans are only reaped when their table is full.
Reaping_WhenFull(o) ==
  /\ orphans[o].token # 0
  /\ \/ pc = "expire" /\ orphans[o].due /\ FreeOrphans = {} /\ CL_MAX_CLIENTS > 1
     \/ pc = "stop" /\ \A k \in Slots : clients[k].fd = NoConn

\* orphans_expire during transport_process, all of them in transport_destroy.
Reaping(o) ==
  /\ orphans[o].token # 0
  /\ \/ pc = "expire" /\ orphans[o].due
     \/ pc = "stop" /\ \A k \in Slots : clients[k].fd = NoConn

\* Fault: the slot is cleared, the windows stay.
orphan_destroy_SlotOnly(o) ==
  /\ Reaping(o)
  /\ orphans' = [orphans EXCEPT ![o] = NoOrphan]
  /\ UNCHANGED <<scene, clients, focused_server_id, next_token, socket, out, loop>>

orphan_destroy(o) ==
  /\ Reaping(o)
  /\ \/ \E w \in Used(orphans[o].wins) :
          LET e == orphans[o].wins[w]
          IN  /\ stack' = window_destroy(win_drop_buffer(stack, e), e.server_id)
              /\ mapped' = mapped \ {e.buf}
              /\ orphans' = [orphans EXCEPT ![o].wins[w] = NoWin]
     \/ /\ Used(orphans[o].wins) = {}
        /\ orphans' = [orphans EXCEPT ![o] = NoOrphan]
        /\ UNCHANGED <<stack, mapped>>
  /\ UNCHANGED <<screen, fd_leak, cursor_from, clients, focused_server_id, next_token,
                 socket, out, loop>>

----------------------------------------------------------------------------
(* dispatch: one action per datagram at the head of the drained socket.    *)

Fd   == clients[cur].fd
Msg  == Head(inbox[Fd])
Recv(type) == pc = "drain" /\ inbox[Fd] # << >> /\ Msg.type = type

Consume == inbox' = [inbox EXCEPT ![Fd] = Tail(@)]

negotiated(m) == Min({m.version, CL_VERSION})

Accepts(m) == negotiated(m) >= CL_MIN_VERSION /\ negotiated(m) >= m.min_version

\* A datagram on which dispatch gives the client up.
Malformed(k) ==
  LET c == clients[k].fd
      m == Head(inbox[c])
  IN  /\ inbox[c] # << >>
      /\ \/ m.type = "SHORT"
         \/ ~clients[k].hello /\ m.type # "HELLO"
         \/ ~clients[k].hello /\ m.type = "HELLO" /\ ~Accepts(m)

DispatchReject ==
  /\ pc = "drain" /\ Malformed(cur)
  /\ client_drop(cur)
  /\ UNCHANGED <<scene, focused_server_id, next_token, alive, evs, running>>

\* Fault: whoever presents a token is given whatever is held.
Reclaimable_AnyHeld(token) == {o \in Slots : token # 0 /\ orphans[o].token # 0}

\* The orphan slots a presented token matches.
Reclaimable(token) == {o \in Slots : token # 0 /\ orphans[o].token = token}

\* Fault: the counter is handed out before it is advanced.
assign_token_Post == next_token

assign_token == next_token + 1

send_welcome(o, c) ==
  cl_send(o, c, [o EXCEPT !.screen[c] = screen])

DispatchHello ==
  /\ Recv("HELLO") /\ ~clients[cur].hello /\ ~Malformed(cur)
  /\ LET match    == Reclaimable(Msg.token)
         o        == Min(match)
         reclaims == match # {} /\ Used(orphans[o].wins) # {}
     IN  \/ /\ reclaims
            /\ clients' = [clients EXCEPT ![cur] =
                 [fd |-> Fd, hello |-> TRUE, token |-> Msg.token, wins |-> orphans[o].wins]]
            /\ orphans' = [orphans EXCEPT ![o] = NoOrphan]
            /\ UNCHANGED next_token
         \/ /\ ~reclaims
            /\ next_token' = next_token + 1
            /\ clients' = [clients EXCEPT ![cur].hello = TRUE, ![cur].token = assign_token]
            /\ orphans' = [k \in Slots |-> IF k \in match THEN NoOrphan ELSE orphans[k]]
  /\ out' = send_welcome(out, Fd)
  /\ prior' = [prior EXCEPT ![Fd] = {}]
  /\ Consume
  /\ UNCHANGED <<scene, focused_server_id, conn, alive, stalled, pc, cur, evs, running>>

\* CL_SET_TITLE, an unknown type and a second CL_HELLO change nothing modelled.
DispatchOther ==
  /\ Recv("OTHER") \/ (Recv("HELLO") /\ clients[cur].hello)
  /\ clients[cur].hello
  /\ Consume
  /\ UNCHANGED <<scene, table, conn, alive, stalled, out, loop>>

on_create_window ==
  LET m    == Msg
      id   == stack.next_id
      size == [m.rect EXCEPT !.w = IF @ = 0 THEN 320 ELSE @, !.h = IF @ = 0 THEN 240 ELSE @]
      s1   == window_create(stack, m.role, size)
      s2   == Update(s1, id, [window_by_id(s1, id) EXCEPT !.app_decorated = TRUE])
      cls  == IF m.wid = ZeroWid THEN clients   \* the slot still looks free
              ELSE [clients EXCEPT ![cur].wins[m.wid] = [server_id |-> id, buf |-> 0]]
      cfgd == cl_send(out, Fd, out)              \* CL_CONFIGURE
  IN  /\ Recv("CREATE") /\ clients[cur].hello
      /\ Consume
      /\ \/ /\ \/ m.wid # ZeroWid /\ clients[cur].wins[m.wid].server_id # 0
               \/ ~win_alloc(cur)
               \/ IsFull(stack)
            /\ UNCHANGED <<stack, clients, focused_server_id, out>>
         \/ /\ m.wid = ZeroWid \/ clients[cur].wins[m.wid].server_id = 0
            /\ win_alloc(cur)
            /\ ~IsFull(stack)
            /\ clients' = cls
            /\ \/ /\ m.role = "NORMAL"
                  /\ stack' = window_focus(s2, id)
                  /\ out' = notify_focus(cfgd, cls, id)
                  /\ focused_server_id' = id
               \/ /\ m.role = "DESKTOP"
                  /\ stack' = window_lower(window_set_geometry(s2, id,
                       [x |-> 0, y |-> 0, w |-> screen.w, h |-> screen.h]), id)
                  /\ out' = cfgd
                  /\ UNCHANGED focused_server_id
               \/ /\ m.role \notin {"NORMAL", "DESKTOP"}
                  /\ stack' = s2
                  /\ out' = cfgd
                  /\ UNCHANGED focused_server_id
      /\ UNCHANGED <<screen, mapped, fd_leak, cursor_from, orphans, next_token,
                     conn, alive, stalled, loop>>

\* The fence is awaited and closed if it was announced.
FdsAfterFence(f) == IF f.has_fence /\ f.nfds >= 2 THEN 1 ELSE f.nfds

\* Fault: the previous frame stays mapped.
ReplaceMapping_Leaks(old, fresh) == mapped \cup {fresh}

\* The new buffer is mapped, then win_drop_buffer unmaps the previous one.
ReplaceMapping(old, fresh) == (mapped \cup {fresh}) \ {old}

\* nfds descriptors arrive; of those left after the fence only the first is closed.
on_commit ==
  LET m     == Msg
      f     == m.form
      left  == FdsAfterFence(f)
      e     == clients[cur].wins[m.wid]
      fresh == Min((1 .. Cardinality(mapped) + 1) \ mapped)
      takes == left >= 1 /\ f.ok /\ e.server_id # 0 /\ Exists(stack, e.server_id)
      s1    == win_drop_buffer(stack, e)
  IN  /\ Recv("COMMIT") /\ clients[cur].hello
      /\ Consume
      /\ fd_leak' = (fd_leak \/ left > 1)
      /\ \/ /\ takes
            /\ mapped' = ReplaceMapping(e.buf, fresh)
            /\ clients' = [clients EXCEPT ![cur].wins[m.wid].buf = fresh]
            /\ stack' = Update(s1, e.server_id,
                          [window_by_id(s1, e.server_id) EXCEPT !.buf = fresh])
         \/ /\ ~takes
            /\ UNCHANGED <<mapped, clients, stack>>
      /\ UNCHANGED <<screen, cursor_from, orphans, focused_server_id, next_token,
                     conn, alive, stalled, out, loop>>

on_destroy_window ==
  LET e == clients[cur].wins[Msg.wid]
  IN  /\ Recv("DESTROY") /\ clients[cur].hello
      /\ Consume
      /\ \/ /\ e.server_id # 0
            /\ stack' = window_destroy(win_drop_buffer(stack, e), e.server_id)
            /\ mapped' = mapped \ {e.buf}
            /\ clients' = [clients EXCEPT ![cur].wins[Msg.wid] = NoWin]
            /\ out' = [out EXCEPT !.told = @ \ {<<Fd, Msg.wid>>}]
         \/ /\ e.server_id = 0
            /\ UNCHANGED <<stack, mapped, clients, out>>
      /\ UNCHANGED <<screen, fd_leak, cursor_from, orphans, focused_server_id, next_token,
                     conn, alive, stalled, loop>>

\* Fault: the wallpaper moves like any window.
Movable_Desktop(e) == e.server_id # 0 /\ Exists(stack, e.server_id)

\* The wallpaper's own geometry requests are ignored.
Movable(e) == /\ e.server_id # 0 /\ Exists(stack, e.server_id)
              /\ window_by_id(stack, e.server_id).role # "DESKTOP"

on_set_geometry ==
  LET e == clients[cur].wins[Msg.wid]
  IN  /\ Recv("GEOMETRY") /\ clients[cur].hello
      /\ Consume
      /\ stack' = IF Movable(e) THEN window_set_geometry(stack, e.server_id, Msg.rect)
                  ELSE stack
      /\ UNCHANGED <<screen, mapped, fd_leak, cursor_from, table, conn, alive, stalled, out,
                     loop>>

\* Whichever client asks sets the shape; its descriptors are always closed.
on_set_cursor ==
  /\ Recv("CURSOR") /\ clients[cur].hello
  /\ Consume
  /\ cursor_from' = Fd
  /\ UNCHANGED <<stack, screen, mapped, fd_leak, table, conn, alive, stalled, out, loop>>

Dispatch == \/ DispatchReject \/ DispatchHello \/ DispatchOther \/ on_create_window
            \/ on_commit \/ on_destroy_window \/ on_set_geometry \/ on_set_cursor


----------------------------------------------------------------------------
(* One iteration of server_run: poll, input, transport_process, the control *)
(* socket, then the focus sync.                                            *)

HungUp  == {c \in Conn : conn[c] = "served" /\ ~alive[c]}
Backlog == {c \in Conn : conn[c] = "backlog"}

\* Fault: a hang-up is looked at only when there is nothing to read.
epoll_wait_InFirst ==
  LET in == {c \in Conn \ HungUp : conn[c] = "served" /\ inbox[c] # << >>}
  IN  [listen |-> Backlog # {}, hup |-> IF in = {} THEN HungUp ELSE {}, in |-> in]

\* Fault: hang-ups are not looked at.
epoll_wait_NoHangup ==
  [listen |-> Backlog # {}, hup |-> {},
   in |-> {c \in Conn \ HungUp : conn[c] = "served" /\ inbox[c] # << >>}]

\* What epoll_wait reports: level-triggered, so all that is ready now.
epoll_wait == [listen |-> Backlog # {}, hup |-> HungUp,
               in |-> {c \in Conn \ HungUp : conn[c] = "served" /\ inbox[c] # << >>}]

\* poll returns, on a ready socket, on input or after a second; the input
\* handlers leave the stack s.
Poll(s) ==
  /\ pc = "poll"
  /\ stack' = s
  /\ pc' = IF epoll_wait = NoEvents THEN "late" ELSE "process"
  /\ UNCHANGED <<screen, mapped, fd_leak, cursor_from, table, socket, out, cur, evs, prior,
                 running>>

Wake == Poll(stack)

\* A click or Alt-Tab focuses some window.
InputFocus == "FOCUS" \in Kinds /\ \E i \in DOMAIN stack.windows : Poll(window_focus(stack, stack.windows[i].id))

TransportProcess ==
  /\ pc = "process"
  /\ evs' = epoll_wait
  /\ prior' = [c \in Conn |-> IF c \in Backlog THEN HungUp ELSE prior[c]]
  /\ pc' = "expire"
  /\ UNCHANGED <<scene, table, socket, out, cur, running>>

Goto(from, to) ==
  /\ pc = from /\ pc' = to
  /\ UNCHANGED <<scene, table, socket, out, cur, prior, running>>

ExpireDone == Goto("expire", "events") /\ UNCHANGED evs /\ \A o \in Slots : ~Reaping(o)

HandleListen == Goto("events", "accept") /\ evs.listen /\ evs' = [evs EXCEPT !.listen = FALSE]

\* transport_add_client: the first free slot, or the connection is refused.
Accept(c) ==
  LET free == {k \in Slots : clients[k].fd = NoConn}
  IN  /\ pc = "accept" /\ conn[c] = "backlog"
      /\ \/ /\ free # {}
            /\ clients' = [clients EXCEPT ![Min(free)] = [NoClient EXCEPT !.fd = c]]
            /\ conn' = [conn EXCEPT ![c] = "served"]
            /\ UNCHANGED inbox
         \/ /\ free = {}
            /\ conn' = [conn EXCEPT ![c] = "done"]
            /\ inbox' = [inbox EXCEPT ![c] = << >>]
            /\ UNCHANGED clients
      /\ UNCHANGED <<scene, orphans, focused_server_id, next_token, alive, stalled, out, loop>>

AcceptDone == Goto("accept", "events") /\ UNCHANGED evs /\ Backlog = {}

SlotOf(c) == CHOOSE k \in Slots : clients[k].fd = c

\* A hung-up socket is dropped unread, whatever it still holds.
HandleHangup(c) ==
  /\ pc = "events" /\ c \in evs.hup
  /\ evs' = [evs EXCEPT !.hup = @ \ {c}]
  /\ client_drop(SlotOf(c))
  /\ UNCHANGED <<scene, focused_server_id, next_token, alive, running>>

client_readable(c) ==
  /\ pc = "events" /\ c \in evs.in
  /\ evs' = [evs EXCEPT !.in = @ \ {c}]
  /\ pc' = "drain" /\ cur' = SlotOf(c)
  /\ UNCHANGED <<scene, table, socket, out, prior, running>>

\* EAGAIN.
RecvEnd ==
  /\ pc = "drain" /\ inbox[Fd] = << >> /\ alive[Fd]
  /\ pc' = "events" /\ cur' = 0
  /\ UNCHANGED <<scene, table, socket, out, evs, prior, running>>

\* End of file, or ECONNRESET ahead of what is still queued.
RecvHangup ==
  /\ pc = "drain" /\ ~alive[Fd]
  /\ client_drop(cur)
  /\ UNCHANGED <<scene, focused_server_id, next_token, alive, evs, running>>

EventsDone == Goto("events", "late") /\ UNCHANGED evs /\ evs = NoEvents

\* Fault: only clients that have a window are told.
ScreenAudience_WithWindows ==
  {c \in Conn : \E k \in Slots : clients[k].fd = c /\ Used(clients[k].wins) # {}}

ScreenAudience == {c \in Conn : \E k \in Slots : clients[k].fd = c /\ clients[k].hello}

\* apply_mode_cb: refit the wallpapers, broadcast the size.
SetMode(m) ==
  LET refit(w) == IF w.role = "DESKTOP" THEN [w EXCEPT !.x = 0, !.y = 0, !.w = m.w, !.h = m.h]
                  ELSE w
      told == ScreenAudience
      lost == {c \in told : c \in stalled \/ ~alive[c]}
  IN  /\ pc = "late" /\ m # screen
      /\ screen' = m
      /\ stack' = [stack EXCEPT !.windows = [i \in DOMAIN @ |-> refit(@[i])]]
      /\ out' = [out EXCEPT !.lost = @ \cup lost,
                   !.screen = [c \in Conn |-> IF c \in told \ lost THEN m ELSE @[c]]]
      /\ UNCHANGED <<mapped, fd_leak, cursor_from, table, socket, loop>>

\* Esc or a signal.  Only the loop head reads the flag, so it is set here.
Quit ==
  /\ "QUIT" \in Kinds
  /\ pc = "late" /\ running
  /\ running' = FALSE
  /\ UNCHANGED <<scene, table, socket, out, pc, cur, evs, prior>>

transport_update_focus ==
  /\ pc = "late"
  /\ out' = notify_focus(out, clients, stack.focus_id)
  /\ focused_server_id' = stack.focus_id
  /\ pc' = IF running THEN "poll" ELSE "stop"
  /\ UNCHANGED <<scene, clients, orphans, next_token, socket, cur, evs, prior, running>>

\* transport_destroy: drop every client, reap every orphan, close the rest.
StopClient(k) ==
  /\ pc = "stop" /\ clients[k].fd # NoConn
  /\ client_drop(k)
  /\ UNCHANGED <<scene, focused_server_id, next_token, alive, evs, running>>

Halt ==
  /\ pc = "stop"
  /\ \A k \in Slots : clients[k].fd = NoConn /\ orphans[k].token = 0
  /\ pc' = "halted"
  /\ conn' = [c \in Conn |-> IF conn[c] = "backlog" THEN "done" ELSE conn[c]]
  /\ inbox' = [c \in Conn |-> << >>]
  /\ UNCHANGED <<scene, table, alive, stalled, out, cur, evs, prior, running>>

----------------------------------------------------------------------------
\* Clients run at any moment.  In the places left out the server neither reads nor
\* writes a socket: a client step there is one taken before its next access.
Client ==
  /\ pc \in {"poll", "accept", "drain", "late"}
  /\ \E c \in Conn : \/ ClientConnect(c) \/ ClientClose(c) \/ ClientStall(c)
                     \/ \E m \in Message : ClientSend(c, m)

\* What the server does by itself once it runs.
ServerStep ==
  \/ Wake \/ TransportProcess \/ ExpireDone \/ HandleListen \/ AcceptDone
  \/ \E c \in Conn : Accept(c) \/ HandleHangup(c) \/ client_readable(c)
  \/ \E k \in Slots : orphan_destroy(k) \/ StopClient(k)
  \/ ReapWindow \/ ReapDone \/ Dispatch \/ RecvEnd \/ RecvHangup \/ EventsDone
  \/ transport_update_focus \/ Halt

Next ==
  \/ ServerStep \/ Client \/ InputFocus \/ Quit
  \/ \E o \in Slots : GraceElapses(o)
  \/ \E m \in Screens : SetMode(m)
  \/ pc = "halted" /\ UNCHANGED vars

Spec == Init /\ [][Next]_vars

\* The server keeps running, and a client does not refill its queue every time the
\* server is about to find it empty.
FairSpec == Spec /\ WF_vars(ServerStep) /\ SF_vars(RecvEnd)

----------------------------------------------------------------------------
(* Properties.                                                             *)

\* Type invariant.
TypeOK ==
  /\ stack \in Stack
  /\ screen \in Screens
  /\ \A k \in Slots : /\ clients[k].fd \in Conn \cup {NoConn}
                     /\ clients[k].hello \in BOOLEAN
                     /\ clients[k].token \in 0..next_token
                     /\ clients[k].wins \in [Wid -> [server_id : Nat, buf : Nat]]
                     /\ orphans[k].token \in 0..next_token
                     /\ orphans[k].due \in BOOLEAN
                     /\ orphans[k].wins \in [Wid -> [server_id : Nat, buf : Nat]]
  /\ focused_server_id \in Nat /\ next_token \in Nat
  /\ mapped \subseteq Nat \ {0} /\ fd_leak \in BOOLEAN /\ running \in BOOLEAN
  /\ cursor_from \in Conn \cup {NoConn}
  /\ conn \in [Conn -> {"unborn", "backlog", "served", "done"}]
  /\ alive \in [Conn -> BOOLEAN] /\ stalled \subseteq Conn
  /\ \A c \in Conn : inbox[c] \in Seq(Message)
  /\ out.told \subseteq Conn \X Wid /\ out.lost \subseteq Conn
  /\ pc \in {"poll", "process", "expire", "events", "accept", "drain", "reap", "late", "stop",
            "halted"}
  /\ cur \in 0..CL_MAX_CLIENTS

Served == {k \in Slots : clients[k].fd # NoConn}
Held   == {o \in Slots : orphans[o].token # 0}

\* Every table entry in use, with the table that holds it.
Entries == {<<"client", k, w>> : k \in Slots, w \in Wid} \cup
           {<<"orphan", o, w>> : o \in Slots, w \in Wid}
EntryAt(e) == IF e[1] = "client" THEN clients[e[2]].wins[e[3]] ELSE orphans[e[2]].wins[e[3]]
InUse == {e \in Entries : EntryAt(e).server_id # 0}

Ids(s) == {s.windows[i].id : i \in DOMAIN s.windows}

\* A reconnect token names one session: no two live clients and held orphans
\* share one, a client has one exactly when its handshake is complete, and
\* windows are only held under a token (assign_token, client_reclaim, client_drop).
TokensUnique ==
  /\ \A j, k \in Served : clients[j].hello /\ clients[j].token = clients[k].token => j = k
  /\ \A o, p \in Held : orphans[o].token = orphans[p].token => o = p
  /\ \A k \in Served, o \in Held : clients[k].token # orphans[o].token
  /\ \A k \in Slots : clients[k].hello <=> clients[k].token # 0
  /\ \A k \in Slots : ~clients[k].hello => Used(clients[k].wins) = {}
  /\ \A o \in Slots \ Held : Used(orphans[o].wins) = {}

\* Every window on screen is owned by exactly one entry of the client and orphan
\* tables, through every drop, parking, reclaim and reap, and every entry names a
\* window on screen.
SingleOwner ==
  /\ \A id \in Ids(stack) : Cardinality({e \in InUse : EntryAt(e).server_id = id}) = 1
  /\ \A e \in InUse : EntryAt(e).server_id \in Ids(stack)

\* The compositor never reads an unmapped buffer and no mapping is leaked: the
\* mappings that exist are those the entries own, each owned once, and a window
\* samples exactly its owner's (on_commit, win_drop_buffer, client_reclaim).
BuffersOwned ==
  /\ mapped = {EntryAt(e).buf : e \in InUse} \ {0}
  /\ \A e, f \in InUse : EntryAt(e).buf = EntryAt(f).buf /\ EntryAt(e).buf # 0 => e = f
  /\ \A i \in DOMAIN stack.windows : \A e \in InUse :
       EntryAt(e).server_id = stack.windows[i].id => EntryAt(e).buf = stack.windows[i].buf

\* A window the client was last told is focused is the focused one the server
\* last announced; a client that lost a message is exempt (notify_focus).
FocusToldAgrees ==
  \A f \in out.told : f[1] \notin out.lost =>
    \E k \in Served : /\ clients[k].fd = f[1]
                     /\ clients[k].wins[f[2]].server_id = focused_server_id

\* Between two iterations the client that owns the focused window has been told
\* so, unless a send to it failed (server_run's focus sync, server.c:667).
FocusedOwnerTold ==
  pc = "poll" /\ stack.focus_id # 0 =>
    \A e \in find_by_server_id(clients, stack.focus_id) :
       clients[e[1]].fd \in out.lost \/ <<clients[e[1]].fd, e[2]>> \in out.told

\* A client past its handshake knows the screen's size, whatever the order of
\* connects and mode changes, unless a send to it failed.
ScreenKnown ==
  \A k \in Served : clients[k].hello /\ clients[k].fd \notin out.lost =>
    out.screen[clients[k].fd] = screen

\* Every wallpaper covers the screen and lies below every other window, be its
\* owner live or awaiting reconnection, whatever geometry clients ask for.
WallpaperBelowAll ==
  /\ DesktopsBelow(stack)
  /\ \A i \in DOMAIN stack.windows : stack.windows[i].role = "DESKTOP" =>
       RectOf(stack.windows[i]) = [x |-> 0, y |-> 0, w |-> screen.w, h |-> screen.h]

\* A crash takes down only its own windows: a window leaves the screen only when
\* the server stops, its owner destroys it, breaks the protocol or hangs up, or
\* its grace period is over; a shell's window never by a hang-up while an orphan
\* slot is free (DESIGN.md 3.3).
Condemned(id) ==
  \/ ~running
  \/ \E o \in Held : orphans[o].due /\ \E w \in Wid : orphans[o].wins[w].server_id = id
  \/ \E k \in Served, w \in Wid :
       /\ clients[k].wins[w].server_id = id
       /\ \/ pc = "drain" /\ cur = k /\ Msg.type = "DESTROY" /\ Msg.wid = w
          \/ /\ ~alive[clients[k].fd] \/ Malformed(k)
             /\ ~HasShell(clients[k].wins) \/ FreeOrphans = {}

ResilientToOthers == [][\A id \in Ids(stack) \ Ids(stack') : Condemned(id)]_vars

\* A client that reconnects finds its orphan: if its old connection hung up
\* before the epoll_wait that reported the new one, then by the time its CL_HELLO
\* is dispatched no live slot still holds the token it presents.
ReconnectFindsOrphan ==
  Recv("HELLO") /\ ~clients[cur].hello /\ Msg.token # 0 =>
    \A k \in Served \ {cur} : clients[k].token = Msg.token => clients[k].fd \notin prior[Fd]

\* transport_destroy leaves no window, mapping or session behind, and by then every
\* descriptor that came with a CL_COMMIT is closed, whatever happened on the way but a
\* commit of two descriptors without a fence (section 6 of the README).
CleanStop == pc = "halted" =>
  stack.windows = << >> /\ mapped = {} /\ ~fd_leak /\ Served = {} /\ Held = {}

----------------------------------------------------------------------------
(* The abstract specification.                                             *)

OwnersOf(t) == {e \in Entries : t = IF e[1] = "client" THEN clients[e[2]].token
                                   ELSE orphans[e[2]].token}

\* Where the session of token t is: two slots with it would be a session torn apart.
StateOf(t) ==
  LET ks == {k \in Slots : clients[k].token = t}
      os == {o \in Slots : orphans[o].token = t}
      taken == \/ \E k \in ks : pc = "reap" /\ cur = k
               \/ \E o \in os : \/ ~running /\ pc # "late"
                                \/ pc = "expire" /\ orphans[o].due
  IN  IF t > next_token THEN "new"
      ELSE IF Cardinality(ks) + Cardinality(os) > 1 THEN "torn"
      ELSE IF ks = {} /\ os = {} THEN "gone"
      ELSE IF taken THEN "ended"
      ELSE IF ks # {} THEN "live"
      ELSE IF \E o \in os : orphans[o].due THEN "due"
      ELSE "held"

Session == INSTANCE Sessions WITH
  Token <- 1 .. Cardinality(Conn),
  state <- [t \in 1 .. Cardinality(Conn) |-> StateOf(t)],
  wins  <- [t \in 1 .. Cardinality(Conn) |-> {EntryAt(e).server_id : e \in OwnersOf(t)} \ {0}],
  shown <- Ids(stack),
  last  <- stack.next_id - 1,
  up    <- running

\* transport.c "stash the client's windows ... for a grace period, so a reconnect
\* with the same token reclaims them in place": whatever the sockets do, sessions
\* live, are held whole, come back or end as Sessions says, and the screen shows
\* their windows and no others.
ImplementsSessions == Session!Spec

\* A connection whose peer is gone is dropped in the end (EPOLLHUP, end of file).
DeadDropped == \A c \in Conn : conn[c] = "served" /\ ~alive[c] ~> conn[c] = "done"

\* As long as clients make the transport run, an orphan past its grace period is
\* reaped, or was reclaimed just in time.
HeldReapedByTraffic ==
  []<>(pc = "process") => \A o \in Slots : orphans[o].due ~> ~orphans[o].due
============================================================================
