--------------------------- MODULE TransportProofs ---------------------------
(***************************************************************************)
(* The CrystallineLattice transport for any number of connections, slots,  *)
(* windows and client window ids: types, the slot table and the events of  *)
(* an iteration, then who owns which token, window and buffer.             *)
(***************************************************************************)
EXTENDS Transport, WindowStackProofs, FiniteSetTheorems

Entry     == [server_id : Nat, buf : Nat]
ClientRec == [fd : Conn \cup {NoConn}, hello : BOOLEAN, token : Nat, wins : [Wid -> Entry]]
OrphanRec == [token : Nat, due : BOOLEAN, wins : [Wid -> Entry]]
Phases    == {"poll", "process", "expire", "events", "accept", "drain", "reap", "late", "stop",
              "halted"}

\* Types, one predicate for each group of variables.
SceneTyped ==
  /\ Sound(stack)
  /\ screen \in Screens
  /\ mapped \subseteq Nat \ {0} /\ IsFiniteSet(mapped)
  /\ fd_leak \in BOOLEAN
  /\ cursor_from \in Conn \cup {NoConn}

TableTyped ==
  /\ clients \in [Slots -> ClientRec]
  /\ orphans \in [Slots -> OrphanRec]
  /\ next_token \in Nat /\ focused_server_id \in Nat
  /\ \A k \in Slots : clients[k].token <= next_token /\ orphans[k].token <= next_token

SocketTyped ==
  /\ conn \in [Conn -> {"unborn", "backlog", "served", "done"}]
  /\ alive \in [Conn -> BOOLEAN]
  /\ inbox \in [Conn -> Seq(Message)]
  /\ stalled \subseteq Conn

OutRec == [told : SUBSET (Conn \X Wid), lost : SUBSET Conn,
           screen : [Conn -> Screens \cup {NoScreen}]]

OutTyped == out \in OutRec

LoopTyped ==
  /\ pc \in Phases
  /\ cur \in 0 .. CL_MAX_CLIENTS
  /\ evs \in [listen : BOOLEAN, in : SUBSET Conn, hup : SUBSET Conn]
  /\ prior \in [Conn -> SUBSET Conn]
  /\ running \in BOOLEAN

Typed == SceneTyped /\ TableTyped /\ SocketTyped /\ OutTyped /\ LoopTyped

\* A connection that is served has a slot of its own, and a free slot is clear.
Seated ==
  /\ \A j, k \in Slots : clients[j].fd = clients[k].fd /\ clients[j].fd # NoConn => j = k
  /\ \A k \in Slots : clients[k].fd = NoConn => clients[k] = NoClient
  /\ \A c \in Conn : conn[c] = "served" <=> \E k \in Slots : clients[k].fd = c

\* Events pending in the iteration are for connections that are still served, each
\* for another than the one being worked on.
Pending ==
  /\ pc \in {"drain", "reap"} => /\ cur \in Slots /\ clients[cur].fd # NoConn
                                 /\ clients[cur].fd \notin evs.in \cup evs.hup
  /\ pc \notin {"expire", "events", "accept", "drain", "reap"} => evs = NoEvents
  /\ ~running => evs = NoEvents /\ pc \in {"late", "reap", "stop", "halted"}
  /\ pc \in {"stop", "halted"} => ~running
  /\ \A c \in evs.in \cup evs.hup : conn[c] = "served"
  /\ evs.in \cap evs.hup = {}

Base == Typed /\ Seated /\ Pending

----------------------------------------------------------------------------
(* What the handlers do to the stack.                                      *)

\* Every window of t looks like the one of s with its id.
Like(s, t) == \A v \in Contents(t) : \E w \in Contents(s) :
  w.id = v.id /\ w.role = v.role /\ RectOf(w) = RectOf(v)

\* win_drop_buffer: one window loses its buffer.
LEMMA DropBuffer ==
  ASSUME NEW s, Sound(s), NEW e \in Entry
  PROVE  LET t == win_drop_buffer(s, e)
         IN  /\ Sound(t) /\ SameShape(s, t) /\ t.next_id = s.next_id
             /\ {v \in Contents(t) : v.id # e.server_id} = {v \in Contents(s) : v.id # e.server_id}
             /\ \A id : Exists(t, id) <=> Exists(s, id)
             /\ Like(s, t)
<1> DEFINE id == e.server_id
           w  == window_by_id(s, id)
           v  == [w EXCEPT !.buf = 0]
           u  == Update(s, id, v)
<1>1. s \in Stack
  BY DEF Sound
<1>2. CASE ~(e.buf # 0 /\ Exists(s, id))
  <2>1. win_drop_buffer(s, e) = s
    BY <1>2 DEF win_drop_buffer
  <2>2. SameShape(s, s) /\ Like(s, s)
    BY DEF SameShape, Like
  <2> QED
    BY <2>1, <2>2
<1>3. CASE e.buf # 0 /\ Exists(s, id)
  <2>1. win_drop_buffer(s, e) = u
    BY <1>3 DEF win_drop_buffer
  <2>2. w \in Window /\ w.id = id
    BY <1>1, <1>3, WindowIndexFinds
  <2> HIDE DEF w
  <2>3. v \in Window /\ v.id = id /\ v.role = w.role /\ RectOf(v) = RectOf(w)
    BY <2>2 DEF Window, RectOf
  <2> HIDE DEF v
  <2>4. Sound(u) /\ u.next_id = s.next_id
    BY <1>3, <2>3, UpdateSound
  <2>5. SameShape(s, u)
    BY <1>3, <2>3, UpdateShape DEF w
  <2>6. Contents(u) = (Contents(s) \ {w}) \cup {v}
    BY <1>3, <2>3, UpdateContents DEF w
  <2>7. \A i : Exists(u, i) <=> Exists(s, i)
    <3>1. DOMAIN u.windows = 1 .. Len(u.windows) /\ DOMAIN s.windows = 1 .. Len(s.windows)
      BY <2>4 DEF Sound, Stack
    <3> QED
      BY <2>5, <3>1 DEF SameShape, Exists
  <2>8. {z \in Contents(u) : z.id # id} = {z \in Contents(s) : z.id # id}
    BY <2>2, <2>3, <2>6
  <2>9. Like(s, u)
    <3>1. w \in Contents(s)
      BY <1>3, ContentsDecide DEF w
    <3> QED
      BY <2>2, <2>3, <2>6, <3>1 DEF Like
  <2> QED
    BY <2>1, <2>4, <2>5, <2>7, <2>8, <2>9
<1> QED
  BY <1>2, <1>3

\* Taking down the window of an entry: its buffer is dropped, then it is destroyed.
LEMMA TakeDown ==
  ASSUME NEW s, Sound(s), NEW e \in Entry
  PROVE  LET t == window_destroy(win_drop_buffer(s, e), e.server_id)
         IN  /\ Sound(t) /\ t.next_id = s.next_id
             /\ Contents(t) = {v \in Contents(s) : v.id # e.server_id}
             /\ Ordered(s) => Ordered(t)
<1> DEFINE u == win_drop_buffer(s, e)
<1>1. /\ Sound(u) /\ SameShape(s, u) /\ u.next_id = s.next_id
      /\ {v \in Contents(u) : v.id # e.server_id} = {v \in Contents(s) : v.id # e.server_id}
  BY DropBuffer
<1> HIDE DEF u
<1>2. /\ Sound(window_destroy(u, e.server_id))
      /\ window_destroy(u, e.server_id).next_id = s.next_id
  BY <1>1, DestroySound
<1>3. Contents(window_destroy(u, e.server_id)) = {v \in Contents(s) : v.id # e.server_id}
  BY <1>1, DestroyContents
<1>4. Ordered(s) => Ordered(window_destroy(u, e.server_id))
  BY <1>1, ShapeDecides, DestroyOrders DEF Sound
<1> QED
  BY <1>2, <1>3, <1>4 DEF u

\* A commit: the old buffer is dropped, then the window shows the new one.
LEMMA ShowBuffer ==
  ASSUME NEW s, Sound(s), NEW e \in Entry, Exists(s, e.server_id), NEW fresh \in Nat
  PROVE  LET u == win_drop_buffer(s, e)
             t == Update(u, e.server_id, [window_by_id(u, e.server_id) EXCEPT !.buf = fresh])
         IN  /\ Sound(t) /\ SameShape(s, t) /\ t.next_id = s.next_id
             /\ \E v \in Window : /\ v.id = e.server_id /\ v.buf = fresh
                                  /\ Contents(t) = {z \in Contents(s) : z.id # e.server_id} \cup {v}
             /\ Like(s, t)
<1> DEFINE id == e.server_id
           u  == win_drop_buffer(s, e)
           w  == window_by_id(u, id)
           v  == [w EXCEPT !.buf = fresh]
           t  == Update(u, id, v)
<1>1. /\ Sound(u) /\ SameShape(s, u) /\ u.next_id = s.next_id
      /\ {z \in Contents(u) : z.id # id} = {z \in Contents(s) : z.id # id}
      /\ Exists(u, id)
      /\ Like(s, u)
  BY DropBuffer
<1> HIDE DEF u
<1>2. w \in Window /\ w.id = id /\ w \in Contents(u)
  BY <1>1, WindowIndexFinds, ContentsDecide DEF Sound
<1>3. \A z \in Contents(u) : z.id = id => z = w
  BY <1>1, ContentsDecide
<1> HIDE DEF w
<1>4. v \in Window /\ v.id = id /\ v.role = w.role /\ v.buf = fresh /\ RectOf(v) = RectOf(w)
  BY <1>2 DEF Window, RectOf
<1> HIDE DEF v
<1>5. Sound(t) /\ t.next_id = u.next_id
  BY <1>1, <1>4, UpdateSound
<1>6. SameShape(u, t)
  BY <1>1, <1>4, UpdateShape DEF w
<1>7. Contents(t) = (Contents(u) \ {w}) \cup {v}
  BY <1>1, <1>4, UpdateContents DEF w
<1> HIDE DEF t
<1>8. Contents(t) = {z \in Contents(s) : z.id # id} \cup {v}
  BY <1>1, <1>2, <1>3, <1>7
<1>9. SameShape(s, t)
  BY <1>1, <1>6 DEF SameShape
<1>10. Like(s, t)
  BY <1>1, <1>2, <1>4, <1>7 DEF Like
<1> QED
  BY <1>1, <1>4, <1>5, <1>8, <1>9, <1>10 DEF t, v, w, u

\* window_set_geometry: one window moves.
LEMMA MoveWindow ==
  ASSUME NEW s, Sound(s), NEW id, Exists(s, id), NEW r \in Rect
  PROVE  \E v \in Window :
           /\ v.id = id /\ v.role = window_by_id(s, id).role /\ v.buf = window_by_id(s, id).buf
           /\ r.w > 0 /\ r.h > 0 => RectOf(v) = r
           /\ Contents(window_set_geometry(s, id, r))
                = {z \in Contents(s) : z.id # id} \cup {v}
<1> DEFINE w  == window_by_id(s, id)
           nw == IF r.w > 0 THEN r.w ELSE w.w
           nh == IF r.h > 0 THEN r.h ELSE w.h
           v  == [w EXCEPT !.x = r.x, !.y = r.y, !.w = nw, !.h = nh]
<1>1. w \in Window /\ w.id = id /\ w \in Contents(s)
  BY WindowIndexFinds, ContentsDecide DEF Sound
<1>2. \A z \in Contents(s) : z.id = id => z = w
  BY ContentsDecide
<1>3. window_set_geometry(s, id, r) = Update(s, id, v)
  BY DEF window_set_geometry
<1> HIDE DEF w
<1>4. r.x \in Int /\ r.y \in Int /\ nw \in Int /\ nh \in Int
  BY <1>1 DEF Window, Rect
<1>5. r.w > 0 /\ r.h > 0 => nw = r.w /\ nh = r.h
  OBVIOUS
<1> HIDE DEF nw, nh
<1>6. /\ v \in Window /\ v.id = id /\ v.role = w.role /\ v.buf = w.buf
      /\ v.x = r.x /\ v.y = r.y /\ v.w = nw /\ v.h = nh
  BY <1>1, <1>4 DEF Window
<1> HIDE DEF v
<1>7. r.w > 0 /\ r.h > 0 => RectOf(v) = r
  BY <1>5, <1>6 DEF RectOf, Rect
<1>8. Contents(Update(s, id, v)) = (Contents(s) \ {w}) \cup {v}
  BY <1>6, UpdateContents DEF w
<1>9. Contents(Update(s, id, v)) = {z \in Contents(s) : z.id # id} \cup {v}
  BY <1>1, <1>2, <1>8
<1> QED
  BY <1>3, <1>6, <1>7, <1>9 DEF w

----------------------------------------------------------------------------
(* Datagrams, slots and connections.                                       *)

\* The fields of each kind of datagram.
LEMMA MessageForms ==
  ASSUME NEW m \in Message
  PROVE  /\ m.type = "HELLO" => /\ m.version \in Nat /\ m.min_version \in Nat
                                /\ m.token \in Tokens
         /\ m.type = "CREATE" => /\ m.wid \in Wid \cup {ZeroWid} /\ m.wid \in CreateWids
                                 /\ m.role \in Role /\ m.rect \in Rect
         /\ m.type = "COMMIT" => m.wid \in Wid /\ m.form \in Commits
         /\ m.type = "DESTROY" => m.wid \in Wid
         /\ m.type = "GEOMETRY" => m.wid \in Wid /\ m.rect \in Rect
<1>1. CASE \E h \in Hellos, t \in Tokens :
             m = [type |-> "HELLO", version |-> h.version, min_version |-> h.min_version,
                  token |-> t]
  BY <1>1, FieldsAssumption
<1>2. CASE \E w \in CreateWids, r \in CreateRoles, q \in Rects :
             m = [type |-> "CREATE", wid |-> w, role |-> r, rect |-> q]
  BY <1>2, FieldsAssumption
<1>3. CASE \E w \in Wid, f \in Commits : m = [type |-> "COMMIT", wid |-> w, form |-> f]
  BY <1>3
<1>4. CASE \E w \in Wid : m = [type |-> "DESTROY", wid |-> w]
  BY <1>4
<1>5. CASE \E w \in Wid, q \in Rects : m = [type |-> "GEOMETRY", wid |-> w, rect |-> q]
  BY <1>5, FieldsAssumption
<1>6. CASE \E t \in {"CURSOR", "OTHER", "SHORT"} : m = [type |-> t]
  BY <1>6
<1> QED
  BY <1>1, <1>2, <1>3, <1>4, <1>5, <1>6 DEF Message

\* The datagram at the head of a queue, and the queue behind it.
LEMMA HeadOfQueue ==
  ASSUME SocketTyped, NEW c \in Conn, inbox[c] # << >>
  PROVE  Head(inbox[c]) \in Message /\ Tail(inbox[c]) \in Seq(Message)
  BY DEF SocketTyped

\* The first of some slots.
LEMMA FirstSlot ==
  ASSUME NEW T, T \subseteq Slots, T # {}
  PROVE  Min(T) \in T /\ Min(T) \in Slots
<1>1. T \subseteq Nat
  BY SlotsAssumption DEF Slots
<1> QED
  BY <1>1, MinOfNats

\* A served connection has one slot, and a slot in use a served connection.
LEMMA ServedSlot ==
  ASSUME TableTyped, Seated
  PROVE  /\ \A c \in Conn : conn[c] = "served" =>
              SlotOf(c) \in Slots /\ clients[SlotOf(c)].fd = c
         /\ \A k \in Slots : clients[k].fd # NoConn =>
              clients[k].fd \in Conn /\ conn[clients[k].fd] = "served"
<1>1. ASSUME NEW c \in Conn, conn[c] = "served"
      PROVE  SlotOf(c) \in Slots /\ clients[SlotOf(c)].fd = c
  BY <1>1 DEF Seated, SlotOf
<1>2. ASSUME NEW k \in Slots, clients[k].fd # NoConn
      PROVE  clients[k].fd \in Conn /\ conn[clients[k].fd] = "served"
  <2>1. clients[k].fd \in Conn
    BY <1>2 DEF TableTyped, ClientRec
  <2> QED
    BY <2>1 DEF Seated
<1> QED
  BY <1>1, <1>2

\* A slot number is a possible value of cur.
LEMMA SlotIsCursor == Slots \subseteq 0 .. CL_MAX_CLIENTS /\ 0 \in 0 .. CL_MAX_CLIENTS
  BY SlotsAssumption DEF Slots

LEMMA NullsTyped ==
  /\ NoClient \in ClientRec /\ NoOrphan \in OrphanRec /\ NoWin \in Entry
  /\ NoEvents \in [listen : BOOLEAN, in : SUBSET Conn, hup : SUBSET Conn]
  BY DEF NoClient, NoOrphan, NoWin, NoWins, NoEvents, ClientRec, OrphanRec, Entry

----------------------------------------------------------------------------
(* Types, slots and pending events through every step.  First the steps     *)
(* that leave the tables alone.                                             *)

\* Waiting for events, and input that moves the focus.
LEMMA PollBase ==
  ASSUME Base, NEW s, Sound(s), Poll(s)
  PROVE  Base'
<1>1. Typed'
  BY DEF Base, Typed, SceneTyped, TableTyped, SocketTyped, OutTyped, LoopTyped, Poll, table,
         socket, Phases
<1>2. Seated' /\ Pending'
  BY DEF Base, Seated, Pending, Poll, table, socket
<1> QED
  BY <1>1, <1>2 DEF Base

\* What epoll_wait reports.
LEMMA EventsAreServed ==
  ASSUME SocketTyped
  PROVE  /\ epoll_wait \in [listen : BOOLEAN, in : SUBSET Conn, hup : SUBSET Conn]
         /\ \A c \in epoll_wait.in \cup epoll_wait.hup : conn[c] = "served"
         /\ epoll_wait.in \cap epoll_wait.hup = {}
         /\ epoll_wait.hup = HungUp
  BY DEF epoll_wait, HungUp

LEMMA TransportProcessBase == ASSUME Base, TransportProcess PROVE Base'
<1> DEFINE e == epoll_wait
<1>1. /\ e \in [listen : BOOLEAN, in : SUBSET Conn, hup : SUBSET Conn]
      /\ \A c \in e.in \cup e.hup : conn[c] = "served"
      /\ e.in \cap e.hup = {}
  BY EventsAreServed DEF Base, Typed
<1>2. evs' = e
  BY DEF TransportProcess
<1> HIDE DEF e
<1>3. prior' \in [Conn -> SUBSET Conn]
  BY DEF TransportProcess, HungUp, Base, Typed, LoopTyped
<1>4. Typed'
  BY <1>1, <1>2, <1>3 DEF Base, Typed, SceneTyped, TableTyped, SocketTyped, OutTyped, LoopTyped,
         TransportProcess, table, scene, socket, Phases
<1>5. Seated' /\ Pending'
  BY <1>1, <1>2 DEF Base, Seated, Pending, TransportProcess, table, socket
<1> QED
  BY <1>4, <1>5 DEF Base

\* The places of the loop that only move on.
LEMMA GotoBase ==
  ASSUME Base, ExpireDone \/ HandleListen \/ AcceptDone \/ EventsDone
  PROVE  Base'
<1>1. Typed'
  BY DEF Base, Typed, SceneTyped, TableTyped, SocketTyped, OutTyped, LoopTyped, ExpireDone,
         HandleListen, AcceptDone, EventsDone, Goto, table, scene, socket, Phases
<1>2. Seated'
  BY DEF Base, Seated, ExpireDone, HandleListen, AcceptDone, EventsDone, Goto, table, socket
<1>3. evs' = evs \/ evs' = [evs EXCEPT !.listen = FALSE]
  BY DEF ExpireDone, HandleListen, AcceptDone, EventsDone
<1>4. evs'.in = evs.in /\ evs'.hup = evs.hup
  BY <1>3 DEF Base, Typed, LoopTyped
<1>5. Pending'
  BY <1>4 DEF Base, Pending, ExpireDone, HandleListen, AcceptDone, EventsDone, Goto, table, socket
<1> QED
  BY <1>1, <1>2, <1>5 DEF Base

\* cl_send: the message is delivered, or the connection counts as having lost one.
LEMMA Sending ==
  ASSUME NEW o \in OutRec, NEW c \in Conn, NEW delivered \in OutRec
  PROVE  /\ cl_send(o, c, delivered) \in OutRec
         /\ \/ cl_send(o, c, delivered) = delivered
            \/ /\ cl_send(o, c, delivered).lost = o.lost \cup {c}
               /\ cl_send(o, c, delivered).told = o.told
               /\ cl_send(o, c, delivered).screen = o.screen
  BY DEF cl_send, OutRec

\* A focus message leaves the rest of the ledger alone.
LEMMA FocusMessage ==
  ASSUME NEW o \in OutRec, NEW cls \in [Slots -> ClientRec], NEW e \in Slots \X Wid,
         cls[e[1]].fd \in Conn, NEW focused \in BOOLEAN, NEW t,
         t = SendFocus(o, cls, e, focused)
  PROVE  t \in OutRec /\ t.screen = o.screen /\ o.lost \subseteq t.lost
<1> DEFINE c == cls[e[1]].fd
           f == <<c, e[2]>>
           d == [o EXCEPT !.told = IF focused THEN @ \cup {f} ELSE @ \ {f}]
<1>1. f \in Conn \X Wid /\ t = cl_send(o, c, d)
  BY DEF SendFocus
<1> HIDE DEF f
<1>2. d \in OutRec /\ d.screen = o.screen /\ d.lost = o.lost
  BY <1>1 DEF OutRec
<1> HIDE DEF d
<1> QED
  BY <1>1, <1>2, Sending

\* notify_focus: nothing when the focus has not changed; otherwise whoever lost it and
\* whoever gained it, of those that have a live owner, are told so or count as lost.
LEMMA Notifying ==
  ASSUME NEW o \in OutRec, NEW cls \in [Slots -> ClientRec], NEW id
  PROVE  LET t == notify_focus(o, cls, id)
         IN  /\ t \in OutRec /\ t.screen = o.screen /\ o.lost \subseteq t.lost
             /\ id = focused_server_id => t = o
<1> DEFINE old == find_by_server_id(cls, focused_server_id)
           new == find_by_server_id(cls, id)
           e   == CHOOSE x \in old : TRUE
           f   == CHOOSE x \in new : TRUE
           o1  == IF old = {} THEN o ELSE SendFocus(o, cls, e, FALSE)
           o2  == IF new = {} THEN o1 ELSE SendFocus(o1, cls, f, TRUE)
<1>1. notify_focus(o, cls, id) = IF id = focused_server_id THEN o ELSE o2
  BY DEF notify_focus
<1>2. \A i : \A x \in find_by_server_id(cls, i) : x \in Slots \X Wid /\ cls[x[1]].fd \in Conn
  BY DEF find_by_server_id, ClientRec
<1>3. old # {} => e \in Slots \X Wid /\ cls[e[1]].fd \in Conn
  BY <1>2
<1>4. new # {} => f \in Slots \X Wid /\ cls[f[1]].fd \in Conn
  BY <1>2
<1> HIDE DEF e, f, old, new
<1>5. o1 \in OutRec /\ o1.screen = o.screen /\ o.lost \subseteq o1.lost
  <2>1. CASE old = {}
    BY <2>1
  <2>2. CASE old # {}
    <3> DEFINE t == SendFocus(o, cls, e, FALSE)
    <3>1. t \in OutRec /\ t.screen = o.screen /\ o.lost \subseteq t.lost
      BY <1>3, <2>2, FocusMessage
    <3> HIDE DEF t
    <3> QED
      BY <2>2, <3>1 DEF t
  <2> QED
    BY <2>1, <2>2
<1> HIDE DEF o1
<1>6. o2 \in OutRec /\ o2.screen = o.screen /\ o.lost \subseteq o2.lost
  <2>1. CASE new = {}
    BY <1>5, <2>1
  <2>2. CASE new # {}
    <3> DEFINE t == SendFocus(o1, cls, f, TRUE)
    <3>1. t \in OutRec /\ t.screen = o1.screen /\ o1.lost \subseteq t.lost
      BY <1>4, <1>5, <2>2, FocusMessage
    <3> HIDE DEF t
    <3> QED
      BY <1>5, <2>2, <3>1 DEF t
  <2> QED
    BY <2>1, <2>2
<1> HIDE DEF o2
<1> QED
  BY <1>1, <1>5, <1>6

\* The end of a drained socket, and the focus sync.
LEMMA TurnBase ==
  ASSUME Base, RecvEnd \/ transport_update_focus \/ Quit
  PROVE  Base'
<1>1. SceneTyped' /\ SocketTyped'
  BY DEF Base, Typed, SceneTyped, SocketTyped, RecvEnd, transport_update_focus, Quit, scene, socket
<1>2. TableTyped'
  BY DEF Base, Typed, SceneTyped, Sound, Stack, TableTyped, RecvEnd, transport_update_focus, Quit,
         scene, table
<1>3. LoopTyped'
  BY SlotIsCursor DEF Base, Typed, LoopTyped, Phases, RecvEnd, transport_update_focus, Quit
<1>4. Seated'
  BY DEF Base, Seated, RecvEnd, transport_update_focus, Quit, table, socket
<1>5. Pending'
  BY DEF Base, Pending, RecvEnd, transport_update_focus, Quit, table, socket
<1>6. OutTyped'
  BY Notifying DEF Base, Typed, OutTyped, TableTyped, RecvEnd, transport_update_focus, Quit
<1> QED
  BY <1>1, <1>2, <1>3, <1>4, <1>5, <1>6 DEF Base, Typed


\* Clients: sockets change, the server does not.
LEMMA ClientBase == ASSUME Base, Client PROVE Base'
<1>1. PICK c \in Conn : \/ ClientConnect(c) \/ ClientClose(c) \/ ClientStall(c)
                        \/ \E m \in Message : ClientSend(c, m)
  BY DEF Client
<1>2. UNCHANGED <<scene, table, out, loop>>
  BY <1>1 DEF ClientConnect, ClientClose, ClientStall, ClientSend
<1>3. SceneTyped' /\ TableTyped' /\ OutTyped' /\ LoopTyped'
  BY <1>2 DEF Base, Typed, SceneTyped, TableTyped, OutTyped, LoopTyped, scene, table, loop
<1>4. SocketTyped'
  <2>1. inbox' \in [Conn -> Seq(Message)]
    <3>1. CASE inbox' = inbox
      BY <3>1 DEF Base, Typed, SocketTyped
    <3>2. ASSUME NEW m \in Message, inbox' = [inbox EXCEPT ![c] = Append(@, m)]
          PROVE  inbox' \in [Conn -> Seq(Message)]
      <4>1. Append(inbox[c], m) \in Seq(Message)
        BY DEF Base, Typed, SocketTyped
      <4> QED
        BY <3>2, <4>1 DEF Base, Typed, SocketTyped
    <3> QED
      BY <1>1, <3>1, <3>2 DEF ClientConnect, ClientClose, ClientStall, ClientSend
  <2>2. conn' \in [Conn -> {"unborn", "backlog", "served", "done"}]
    BY <1>1 DEF Base, Typed, SocketTyped, ClientConnect, ClientClose, ClientStall, ClientSend
  <2>3. alive' \in [Conn -> BOOLEAN] /\ stalled' \subseteq Conn
    BY <1>1 DEF Base, Typed, SocketTyped, ClientConnect, ClientClose, ClientStall, ClientSend
  <2> QED
    BY <2>1, <2>2, <2>3 DEF SocketTyped
<1>5. \A d \in Conn : conn'[d] = "served" <=> conn[d] = "served"
  BY <1>1 DEF Base, Typed, SocketTyped, ClientConnect, ClientClose, ClientStall, ClientSend
<1>6. Seated'
  BY <1>2, <1>5 DEF Base, Seated, table
<1>7. Pending'
  BY <1>2, <1>5 DEF Base, Typed, LoopTyped, Pending, table, loop
<1> QED
  BY <1>3, <1>4, <1>6, <1>7 DEF Base, Typed

\* A grace period ends.
LEMMA GraceElapsesBase == ASSUME Base, NEW o \in Slots, GraceElapses(o) PROVE Base'
<1>1. /\ orphans' \in [Slots -> OrphanRec]
      /\ \A k \in Slots : orphans'[k].token = orphans[k].token
  BY DEF Base, Typed, TableTyped, OrphanRec, GraceElapses
<1>2. Typed'
  BY <1>1 DEF Base, Typed, SceneTyped, TableTyped, SocketTyped, OutTyped, LoopTyped, GraceElapses,
              scene, socket, loop
<1>3. Seated' /\ Pending'
  BY DEF Base, Seated, Pending, GraceElapses, socket, loop
<1> QED
  BY <1>2, <1>3 DEF Base

\* What a resolution change makes of a window.
Refitted(w, m) ==
  IF w.role = "DESKTOP" THEN [w EXCEPT !.x = 0, !.y = 0, !.w = m.w, !.h = m.h] ELSE w

LEMMA Refitting ==
  ASSUME Sound(stack), NEW m \in Screens, SetMode(m)
  PROVE  /\ Sound(stack') /\ SameShape(stack, stack') /\ stack'.next_id = stack.next_id
         /\ Contents(stack') = {Refitted(w, m) : w \in Contents(stack)}
         /\ \A w \in Contents(stack) :
              /\ Refitted(w, m).id = w.id /\ Refitted(w, m).role = w.role
              /\ Refitted(w, m).buf = w.buf
              /\ w.role = "DESKTOP" =>
                   RectOf(Refitted(w, m)) = [x |-> 0, y |-> 0, w |-> m.w, h |-> m.h]
<1> DEFINE n  == Len(stack.windows)
           ws == [i \in 1 .. n |-> Refitted(stack.windows[i], m)]
<1>1. /\ stack \in Stack /\ n \in Nat /\ DOMAIN stack.windows = 1 .. n
      /\ \A i \in 1 .. n : stack.windows[i] \in Window
  BY DEF Sound, Stack
<1>2. m.w \in Int /\ m.h \in Int
  BY FieldsAssumption
<1>3. ASSUME NEW w \in Window
      PROVE  /\ Refitted(w, m) \in Window /\ Refitted(w, m).id = w.id
             /\ Refitted(w, m).role = w.role /\ Refitted(w, m).buf = w.buf
             /\ w.role = "DESKTOP" =>
                  RectOf(Refitted(w, m)) = [x |-> 0, y |-> 0, w |-> m.w, h |-> m.h]
  <2>1. CASE w.role # "DESKTOP"
    BY <2>1 DEF Refitted
  <2>2. CASE w.role = "DESKTOP"
    <3> DEFINE z  == 0
               mw == m.w
               mh == m.h
               v  == [w EXCEPT !.x = z, !.y = z, !.w = mw, !.h = mh]
    <3>1. Refitted(w, m) = v
      BY <2>2 DEF Refitted
    <3>2. z \in Int /\ mw \in Int /\ mh \in Int
      BY <1>2
    <3> HIDE DEF z, mw, mh
    <3>3. /\ v \in Window /\ v.id = w.id /\ v.role = w.role /\ v.buf = w.buf
          /\ v.x = z /\ v.y = z /\ v.w = mw /\ v.h = mh
      BY <1>3, <3>2 DEF Window
    <3> HIDE DEF v
    <3> QED
      BY <3>1, <3>3 DEF RectOf, z, mw, mh
  <2> QED
    BY <2>1, <2>2
<1>4. stack' = [stack EXCEPT !.windows = ws]
  BY <1>1 DEF SetMode, Refitted
<1>5. ws \in Seq(Window) /\ Len(ws) = n /\ DOMAIN ws = 1 .. n
  BY <1>1, <1>3
<1>6. \A i \in 1 .. n : ws[i] = Refitted(stack.windows[i], m)
  OBVIOUS
<1> HIDE DEF ws
<1>7. /\ stack' \in Stack /\ stack'.windows = ws /\ stack'.focus_id = stack.focus_id
      /\ stack'.next_id = stack.next_id
  BY <1>1, <1>4, <1>5 DEF Stack
<1>8. SameShape(stack, stack')
  BY <1>1, <1>3, <1>5, <1>6, <1>7 DEF SameShape
<1>9. Sound(stack')
  BY <1>1, <1>5, <1>7, <1>8 DEF Sound, SameShape, UniqueIds, FocusLive, CountBounded, Exists
<1>10. Contents(stack') = {Refitted(w, m) : w \in Contents(stack)}
  BY <1>5, <1>6, <1>7 DEF Contents
<1> QED
  BY <1>3, <1>7, <1>8, <1>9, <1>10, ContentsDecide

LEMMA SetModeBase == ASSUME Base, NEW m \in Screens, SetMode(m) PROVE Base'
<1>1. Sound(stack')
  BY Refitting DEF Base, Typed, SceneTyped
<1>2. OutTyped'
  BY DEF Base, Typed, OutTyped, OutRec, SetMode, ScreenAudience
<1>3. Typed'
  BY <1>1, <1>2 DEF Base, Typed, SceneTyped, TableTyped, SocketTyped, LoopTyped, SetMode,
                    table, socket, loop
<1>4. Seated' /\ Pending'
  BY DEF Base, Seated, Pending, SetMode, table, socket, loop
<1> QED
  BY <1>3, <1>4 DEF Base

\* A connection is given the first free slot, or refused.
LEMMA AcceptBase == ASSUME Base, NEW c \in Conn, Accept(c) PROVE Base'
<1> DEFINE free == {k \in Slots : clients[k].fd = NoConn}
           new  == [NoClient EXCEPT !.fd = c]
<1>1. conn[c] = "backlog" /\ pc = "accept"
  BY DEF Accept
<1>2. new \in ClientRec /\ new.fd = c /\ new.token = 0
  BY NullsTyped DEF NoClient, ClientRec
<1>3. SceneTyped' /\ OutTyped' /\ LoopTyped'
  BY DEF Base, Typed, SceneTyped, OutTyped, LoopTyped, Accept, scene, loop
<1>4. SocketTyped'
  <2>1. conn' = [conn EXCEPT ![c] = "served"] \/ conn' = [conn EXCEPT ![c] = "done"]
    BY DEF Accept
  <2>2. conn' \in [Conn -> {"unborn", "backlog", "served", "done"}]
    BY <2>1 DEF Base, Typed, SocketTyped
  <2>3. inbox' = inbox \/ inbox' = [inbox EXCEPT ![c] = << >>]
    BY DEF Accept
  <2>4. inbox' \in [Conn -> Seq(Message)]
    <3>1. << >> \in Seq(Message)
      OBVIOUS
    <3>2. CASE inbox' = inbox
      BY <3>2 DEF Base, Typed, SocketTyped
    <3>3. CASE inbox' = [inbox EXCEPT ![c] = << >>]
      BY <3>1, <3>3 DEF Base, Typed, SocketTyped
    <3> QED
      BY <2>3, <3>2, <3>3
  <2> QED
    BY <2>2, <2>4 DEF Base, Typed, SocketTyped, Accept
<1>5. c # NoConn
  BY ConnAssumption
<1>6. \A k \in Slots : clients[k].fd # c
  BY <1>1 DEF Base, Seated
<1>7. \A d \in evs.in \cup evs.hup : conn'[d] = "served"
  BY <1>1 DEF Base, Typed, SocketTyped, LoopTyped, Pending, Accept
<1>8. Pending'
  BY <1>1, <1>7 DEF Base, Pending, Accept, loop
<1>9. CASE free # {} /\ clients' = [clients EXCEPT ![Min(free)] = new]
                     /\ conn' = [conn EXCEPT ![c] = "served"]
  <2> DEFINE f == Min(free)
  <2>1. f \in Slots /\ clients[f].fd = NoConn
    BY <1>9, FirstSlot
  <2> HIDE DEF f, free, new
  <2>2. clients' = [clients EXCEPT ![f] = new]
    BY <1>9 DEF f
  <2>3. TableTyped'
    BY <1>2, <2>1, <2>2 DEF Base, Typed, TableTyped, Accept, loop
  <2>4. /\ clients'[f] = new
        /\ \A k \in Slots : k # f => clients'[k] = clients[k]
    BY <2>1, <2>2 DEF Base, Typed, TableTyped
  <2>5. \A d \in Conn : conn'[d] = "served" <=> conn[d] = "served" \/ d = c
    BY <1>9 DEF Base, Typed, SocketTyped
  <2>6. Seated'
    BY <1>2, <1>5, <1>6, <2>1, <2>4, <2>5, ConnAssumption DEF Base, Seated
  <2> QED
    BY <1>3, <1>4, <1>8, <2>3, <2>6 DEF Base, Typed
<1>10. CASE clients' = clients /\ conn' = [conn EXCEPT ![c] = "done"]
  <2>1. TableTyped'
    BY <1>10 DEF Base, Typed, TableTyped, Accept
  <2>2. Seated'
    BY <1>1, <1>10 DEF Base, Typed, SocketTyped, Seated
  <2> QED
    BY <1>3, <1>4, <1>8, <2>1, <2>2 DEF Base, Typed
<1> QED
  BY <1>9, <1>10 DEF Accept

\* A readable socket is drained next.
LEMMA ReadableBase == ASSUME Base, NEW c \in Conn, client_readable(c) PROVE Base'
<1>1. /\ c \in evs.in /\ conn[c] = "served" /\ running
      /\ evs'.in = evs.in \ {c} /\ evs'.hup = evs.hup
      /\ evs' \in [listen : BOOLEAN, in : SUBSET Conn, hup : SUBSET Conn]
  BY DEF Base, Typed, LoopTyped, Pending, client_readable
<1>2. cur' \in Slots /\ clients[cur'].fd = c
  BY <1>1, ServedSlot DEF Base, Typed, client_readable
<1>3. Typed'
  BY <1>1, <1>2, SlotIsCursor DEF Base, Typed, SceneTyped, TableTyped, SocketTyped, OutTyped,
     LoopTyped, Phases, client_readable, scene, table, socket
<1>4. Seated'
  BY DEF Base, Seated, client_readable, table, socket
<1>5. Pending'
  BY <1>1, <1>2, ConnAssumption DEF Base, Pending, client_readable, table, socket
<1> QED
  BY <1>3, <1>4, <1>5 DEF Base

\* The last step of transport_destroy.
LEMMA HaltBase == ASSUME Base, Halt PROVE Base'
<1>1. Typed'
  BY DEF Base, Typed, SceneTyped, TableTyped, SocketTyped, OutTyped, LoopTyped, Phases, Halt,
         scene, table
<1>2. Seated'
  BY DEF Base, Typed, SocketTyped, Seated, Halt, table
<1>3. Pending'
  BY DEF Base, Typed, SocketTyped, Pending, Halt, table, NoEvents
<1> QED
  BY <1>1, <1>2, <1>3 DEF Base

----------------------------------------------------------------------------
(* The ways a client is lost.                                              *)

\* The event being handled is taken off the list, or there was none for this client.
Handling(k) ==
  /\ k \in Slots /\ clients[k].fd # NoConn
  /\ \/ evs' = evs /\ clients[k].fd \notin evs.in \cup evs.hup
     \/ clients[k].fd \in evs.hup /\ evs' = [evs EXCEPT !.hup = @ \ {clients[k].fd}]

\* What a closed slot leaves of the pending events.
LEMMA EventsLeft ==
  ASSUME Base, NEW k, Handling(k)
  PROVE  /\ evs' \in [listen : BOOLEAN, in : SUBSET Conn, hup : SUBSET Conn]
         /\ evs'.in \subseteq evs.in /\ evs'.hup \subseteq evs.hup
         /\ clients[k].fd \notin evs'.in \cup evs'.hup
         /\ evs = NoEvents => evs' = NoEvents
  BY DEF Base, Typed, LoopTyped, Pending, Handling, NoEvents

\* close(c->fd) and the free slot.
LEMMA ReleaseBase ==
  ASSUME Base, NEW k, Handling(k), Release(k),
         orphans' \in [Slots -> OrphanRec],
         \A o \in Slots : orphans'[o].token <= next_token,
         UNCHANGED <<scene, focused_server_id, next_token, alive, running>>
  PROVE  Base'
<1> DEFINE c == clients[k].fd
<1>1. k \in Slots /\ c \in Conn /\ conn[c] = "served"
  BY ServedSlot DEF Base, Typed, Handling
<1>2. /\ clients' = [clients EXCEPT ![k] = NoClient]
      /\ conn' = [conn EXCEPT ![c] = "done"]
      /\ inbox' = [inbox EXCEPT ![c] = << >>]
      /\ stalled' = stalled \ {c}
      /\ out' = [out EXCEPT !.told = {f \in @ : f[1] # c}, !.lost = @ \ {c},
                   !.screen[c] = NoScreen]
      /\ prior' = [d \in Conn |-> IF d = c THEN {} ELSE prior[d] \ {c}]
      /\ pc' = AfterDrop /\ cur' = 0
  BY DEF Release
<1>3. /\ evs' \in [listen : BOOLEAN, in : SUBSET Conn, hup : SUBSET Conn]
      /\ evs'.in \subseteq evs.in /\ evs'.hup \subseteq evs.hup
      /\ c \notin evs'.in \cup evs'.hup
      /\ evs = NoEvents => evs' = NoEvents
  BY EventsLeft
<1>4. /\ pc' \in {"events", "stop"}
      /\ running' = running
      /\ pc' = "events" <=> running
  BY <1>2 DEF AfterDrop
<1> HIDE DEF c
<1>5. SceneTyped'
  BY DEF Base, Typed, SceneTyped, scene
<1>6. /\ clients' \in [Slots -> ClientRec]
      /\ clients'[k] = NoClient
      /\ \A j \in Slots : j # k => clients'[j] = clients[j]
  BY <1>1, <1>2, NullsTyped DEF Base, Typed, TableTyped
<1>7. TableTyped'
  BY <1>6 DEF Base, Typed, TableTyped, NoClient
<1>8. SocketTyped'
  <2>1. << >> \in Seq(Message)
    OBVIOUS
  <2>2. inbox' \in [Conn -> Seq(Message)]
    BY <1>1, <1>2, <2>1 DEF Base, Typed, SocketTyped
  <2> QED
    BY <1>1, <1>2, <2>2 DEF Base, Typed, SocketTyped
<1>9. OutTyped'
  <2>1. /\ out'.told = {f \in out.told : f[1] # c} /\ out'.lost = out.lost \ {c}
        /\ out'.screen = [out.screen EXCEPT ![c] = NoScreen]
        /\ out' \in [told : SUBSET (Conn \X Wid), lost : SUBSET Conn,
                     screen : [Conn -> Screens \cup {NoScreen}]]
    BY <1>1, <1>2 DEF Base, Typed, OutTyped, OutRec
  <2> QED
    BY <2>1 DEF OutTyped, OutRec
<1>10. LoopTyped'
  BY <1>2, <1>3, <1>4, SlotIsCursor DEF Base, Typed, LoopTyped, Phases
<1>11. \A d \in Conn : conn'[d] = "served" <=> conn[d] = "served" /\ d # c
  BY <1>1, <1>2 DEF Base, Typed, SocketTyped
<1>12. Seated'
  BY <1>1, <1>6, <1>11, ConnAssumption DEF Base, Seated, NoClient, c
<1>13. Pending'
  BY <1>3, <1>4, <1>11 DEF Base, Typed, LoopTyped, Pending
<1> QED
  BY <1>5, <1>7, <1>8, <1>9, <1>10, <1>12, <1>13 DEF Base, Typed

\* client_drop: the windows are parked and the slot freed, or they are reaped next.
LEMMA DropBase ==
  ASSUME Base, NEW k, Handling(k), client_drop(k),
         UNCHANGED <<scene, focused_server_id, next_token, alive, running>>
  PROVE  Base'
<1>1. CASE Parks(k) /\ Release(k)
           /\ orphans' = [orphans EXCEPT ![Min(FreeOrphans)] =
                [token |-> clients[k].token, due |-> FALSE, wins |-> clients[k].wins]]
  <2> DEFINE f == Min(FreeOrphans)
             r == [token |-> clients[k].token, due |-> FALSE, wins |-> clients[k].wins]
  <2>1. f \in Slots
    BY <1>1, FirstSlot DEF Parks, FreeOrphans
  <2>2. r \in OrphanRec /\ r.token <= next_token
    BY DEF Base, Typed, TableTyped, ClientRec, OrphanRec, Handling
  <2>3. orphans' = [orphans EXCEPT ![f] = r]
    BY <1>1
  <2> HIDE DEF f, r
  <2>4. orphans' \in [Slots -> OrphanRec] /\ \A o \in Slots : orphans'[o].token <= next_token
    BY <2>1, <2>2, <2>3 DEF Base, Typed, TableTyped
  <2> QED
    BY <1>1, <2>4, ReleaseBase
<1>2. CASE /\ pc' = "reap" /\ cur' = k
           /\ UNCHANGED <<clients, orphans, conn, inbox, stalled, out, prior>>
  <2>1. /\ evs' \in [listen : BOOLEAN, in : SUBSET Conn, hup : SUBSET Conn]
        /\ evs'.in \subseteq evs.in /\ evs'.hup \subseteq evs.hup
        /\ clients[k].fd \notin evs'.in \cup evs'.hup
        /\ evs = NoEvents => evs' = NoEvents
    BY EventsLeft
  <2>2. k \in Slots /\ clients[k].fd # NoConn
    BY DEF Handling
  <2>3. Typed'
    BY <1>2, <2>1, <2>2, SlotIsCursor DEF Base, Typed, SceneTyped, TableTyped, SocketTyped,
       OutTyped, LoopTyped, Phases, scene
  <2>4. Seated'
    BY <1>2 DEF Base, Seated
  <2>5. Pending'
    BY <1>2, <2>1, <2>2 DEF Base, Pending
  <2> QED
    BY <2>3, <2>4, <2>5 DEF Base
<1> QED
  BY <1>1, <1>2 DEF client_drop

\* Each way to lose a client is a drop of its slot.
Lose == DispatchReject \/ RecvHangup \/ (\E c \in Conn : HandleHangup(c))
        \/ \E k \in Slots : StopClient(k)

LEMMA LosingDrops ==
  ASSUME Base, Lose
  PROVE  /\ UNCHANGED <<scene, focused_server_id, next_token, alive, running>>
         /\ \E k : Handling(k) /\ client_drop(k)
<1>1. CASE DispatchReject \/ RecvHangup
  <2>1. Handling(cur) /\ client_drop(cur)
    BY <1>1 DEF Base, Pending, Handling, DispatchReject, RecvHangup
  <2> QED
    BY <1>1, <2>1 DEF DispatchReject, RecvHangup
<1>2. ASSUME NEW c \in Conn, HandleHangup(c)
      PROVE  /\ UNCHANGED <<scene, focused_server_id, next_token, alive, running>>
             /\ \E k : Handling(k) /\ client_drop(k)
  <2>1. SlotOf(c) \in Slots /\ clients[SlotOf(c)].fd = c
    BY <1>2, ServedSlot DEF Base, Typed, Pending, HandleHangup
  <2>2. Handling(SlotOf(c)) /\ client_drop(SlotOf(c))
    BY <1>2, <2>1, ConnAssumption DEF Handling, HandleHangup
  <2> QED
    BY <1>2, <2>2 DEF HandleHangup
<1>3. ASSUME NEW k \in Slots, StopClient(k)
      PROVE  /\ UNCHANGED <<scene, focused_server_id, next_token, alive, running>>
             /\ \E j : Handling(j) /\ client_drop(j)
  <2>1. Handling(k) /\ client_drop(k)
    BY <1>3 DEF Base, Pending, Handling, StopClient, NoEvents
  <2> QED
    BY <1>3, <2>1 DEF StopClient
<1> QED
  BY <1>1, <1>2, <1>3 DEF Lose

LEMMA LoseBase == ASSUME Base, Lose PROVE Base'
  BY LosingDrops, DropBase

\* The slot of a reaped client is freed last.
LEMMA ReapDoneBase == ASSUME Base, ReapDone PROVE Base'
<1>1. Handling(cur)
  BY DEF Base, Pending, Handling, ReapDone
<1>2. orphans' \in [Slots -> OrphanRec] /\ \A o \in Slots : orphans'[o].token <= next_token
  BY DEF Base, Typed, TableTyped, ReapDone
<1> QED
  BY <1>1, <1>2, ReleaseBase DEF ReapDone

----------------------------------------------------------------------------
(* Steps that serve a client: windows come and go, datagrams are consumed,  *)
(* no connection is opened or closed.                                      *)

\* A step that keeps every slot's connection and the place in the loop.
LEMMA ServingBase ==
  ASSUME Base, SceneTyped', TableTyped', SocketTyped', OutTyped',
         UNCHANGED <<conn, pc, cur, evs, running>>,
         prior' \in [Conn -> SUBSET Conn],
         \A k \in Slots : /\ clients'[k].fd = clients[k].fd
                          /\ clients[k].fd = NoConn => clients'[k] = clients[k]
  PROVE  Base'
<1>1. LoopTyped'
  BY DEF Base, Typed, LoopTyped
<1>2. Seated'
  BY DEF Base, Seated
<1>3. Pending'
  BY DEF Base, Pending
<1> QED
  BY <1>1, <1>2, <1>3 DEF Base, Typed

\* The datagram being dispatched, from a served client.
LEMMA Receiving ==
  ASSUME Base, NEW type, Recv(type)
  PROVE  /\ cur \in Slots /\ Fd \in Conn /\ clients[cur].fd # NoConn
         /\ Msg \in Message /\ Msg.type = type
         /\ inbox[Fd] # << >>
         /\ Consume /\ UNCHANGED <<conn, alive, stalled>> => SocketTyped'
<1>1. cur \in Slots /\ clients[cur].fd # NoConn
  BY DEF Base, Pending, Recv
<1>2. Fd \in Conn
  BY <1>1, ServedSlot DEF Base, Typed, Fd
<1>3. inbox[Fd] # << >> /\ Msg.type = type
  BY DEF Recv
<1>4. Msg \in Message /\ Tail(inbox[Fd]) \in Seq(Message)
  BY <1>2, <1>3, HeadOfQueue DEF Base, Typed, Msg
<1>5. ASSUME Consume, UNCHANGED <<conn, alive, stalled>>
      PROVE  SocketTyped'
  <2>1. inbox' = [inbox EXCEPT ![Fd] = Tail(inbox[Fd])]
    BY <1>5 DEF Consume
  <2>2. inbox' \in [Conn -> Seq(Message)]
    BY <1>2, <1>4, <2>1 DEF Base, Typed, SocketTyped
  <2> QED
    BY <1>5, <2>2 DEF Base, Typed, SocketTyped
<1> QED
  BY <1>1, <1>2, <1>3, <1>4, <1>5

\* One entry of a client's table changes.
PutClient(k, w, e) ==
  /\ TableTyped /\ e \in Entry
  /\ clients' = [clients EXCEPT ![k].wins[w] = e]
  /\ UNCHANGED <<orphans, next_token>> /\ focused_server_id' \in Nat

LEMMA ClientEntry ==
  ASSUME NEW k \in Slots, NEW w \in Wid, NEW e, PutClient(k, w, e)
  PROVE  /\ TableTyped'
         /\ \A j \in Slots : j # k => clients'[j] = clients[j]
         /\ clients'[k].fd = clients[k].fd /\ clients'[k].hello = clients[k].hello
         /\ clients'[k].token = clients[k].token
         /\ clients'[k].wins[w] = e
         /\ \A x \in Wid : x # w => clients'[k].wins[x] = clients[k].wins[x]
<1> DEFINE r == [clients[k] EXCEPT !.wins[w] = e]
<1>1. clients[k] \in ClientRec
  BY DEF PutClient, TableTyped
<1>2. /\ r \in ClientRec /\ r.fd = clients[k].fd /\ r.hello = clients[k].hello
      /\ r.token = clients[k].token /\ r.wins[w] = e
      /\ \A x \in Wid : x # w => r.wins[x] = clients[k].wins[x]
  BY <1>1 DEF PutClient, ClientRec
<1>3. clients' = [clients EXCEPT ![k] = r]
  BY DEF PutClient
<1> HIDE DEF r
<1>4. /\ clients' \in [Slots -> ClientRec] /\ clients'[k] = r
      /\ \A j \in Slots : j # k => clients'[j] = clients[j]
  BY <1>2, <1>3 DEF PutClient, TableTyped
<1>5. \A j \in Slots : clients'[j].token = clients[j].token
  BY <1>2, <1>4
<1>6. TableTyped'
  BY <1>4, <1>5 DEF PutClient, TableTyped
<1> QED
  BY <1>2, <1>4, <1>6

\* The same of an orphan's table.
PutOrphan(o, w, e) ==
  /\ TableTyped /\ e \in Entry
  /\ orphans' = [orphans EXCEPT ![o].wins[w] = e]
  /\ UNCHANGED <<clients, next_token, focused_server_id>>

LEMMA OrphanEntry ==
  ASSUME NEW o \in Slots, NEW w \in Wid, NEW e, PutOrphan(o, w, e)
  PROVE  /\ TableTyped'
         /\ \A p \in Slots : p # o => orphans'[p] = orphans[p]
         /\ orphans'[o].token = orphans[o].token /\ orphans'[o].due = orphans[o].due
         /\ orphans'[o].wins[w] = e
         /\ \A x \in Wid : x # w => orphans'[o].wins[x] = orphans[o].wins[x]
<1> DEFINE r == [orphans[o] EXCEPT !.wins[w] = e]
<1>1. orphans[o] \in OrphanRec
  BY DEF PutOrphan, TableTyped
<1>2. /\ r \in OrphanRec /\ r.token = orphans[o].token /\ r.due = orphans[o].due
      /\ r.wins[w] = e
      /\ \A x \in Wid : x # w => r.wins[x] = orphans[o].wins[x]
  BY <1>1 DEF PutOrphan, OrphanRec
<1>3. orphans' = [orphans EXCEPT ![o] = r]
  BY DEF PutOrphan
<1> HIDE DEF r
<1>4. /\ orphans' \in [Slots -> OrphanRec] /\ orphans'[o] = r
      /\ \A p \in Slots : p # o => orphans'[p] = orphans[p]
  BY <1>2, <1>3 DEF PutOrphan, TableTyped
<1>5. \A p \in Slots : orphans'[p].token = orphans[p].token
  BY <1>2, <1>4
<1>6. TableTyped'
  BY <1>4, <1>5 DEF PutOrphan, TableTyped
<1> QED
  BY <1>2, <1>4, <1>6

\* An entry's window is taken off the screen and its buffer unmapped.
TakenOff(e) ==
  /\ stack' = window_destroy(win_drop_buffer(stack, e), e.server_id)
  /\ mapped' = mapped \ {e.buf}

LEMMA TakingOff ==
  ASSUME SceneTyped, NEW e \in Entry, TakenOff(e),
         UNCHANGED <<screen, fd_leak, cursor_from>>
  PROVE  SceneTyped'
<1>1. Sound(stack')
  BY TakeDown DEF SceneTyped, TakenOff
<1>2. mapped' \subseteq mapped /\ IsFiniteSet(mapped')
  BY FS_Subset DEF SceneTyped, TakenOff
<1> QED
  BY <1>1, <1>2 DEF SceneTyped

LEMMA ReapWindowBase == ASSUME Base, ReapWindow PROVE Base'
<1>1. cur \in Slots /\ clients[cur].fd # NoConn
  BY DEF Base, Pending, ReapWindow
<1>2. PICK w \in Used(clients[cur].wins) :
        /\ TakenOff(clients[cur].wins[w])
        /\ clients' = [clients EXCEPT ![cur].wins[w] = NoWin]
        /\ out' = [out EXCEPT !.told = @ \ {<<clients[cur].fd, w>>}]
  BY DEF ReapWindow, TakenOff
<1>3. w \in Wid /\ clients[cur].wins[w] \in Entry
  BY <1>1, <1>2 DEF Base, Typed, TableTyped, ClientRec, Used
<1>4. SceneTyped'
  BY <1>2, <1>3, TakingOff DEF Base, Typed, ReapWindow
<1>5. /\ TableTyped'
      /\ \A j \in Slots : j # cur => clients'[j] = clients[j]
      /\ clients'[cur].fd = clients[cur].fd
  BY <1>1, <1>2, <1>3, NullsTyped, ClientEntry DEF Base, Typed, TableTyped, ReapWindow, PutClient
<1>6. SocketTyped' /\ OutTyped'
  BY <1>2 DEF Base, Typed, SocketTyped, OutTyped, OutRec, ReapWindow, socket
<1>7. prior' \in [Conn -> SUBSET Conn] /\ UNCHANGED <<conn, pc, cur, evs, running>>
  BY DEF Base, Typed, LoopTyped, ReapWindow, loop, socket
<1> QED
  BY <1>1, <1>4, <1>5, <1>6, <1>7, ServingBase

LEMMA OrphanDestroyBase == ASSUME Base, NEW o \in Slots, orphan_destroy(o) PROVE Base'
<1>1. UNCHANGED <<screen, fd_leak, cursor_from, clients, focused_server_id, next_token,
                  socket, out, loop>>
  BY DEF orphan_destroy
<1>2. SocketTyped' /\ OutTyped'
  BY <1>1 DEF Base, Typed, SocketTyped, OutTyped, socket
<1>3. prior' \in [Conn -> SUBSET Conn] /\ UNCHANGED <<conn, pc, cur, evs, running>>
  BY <1>1 DEF Base, Typed, LoopTyped, loop, socket
<1>4. ASSUME NEW w \in Used(orphans[o].wins), TakenOff(orphans[o].wins[w]),
             orphans' = [orphans EXCEPT ![o].wins[w] = NoWin]
      PROVE  SceneTyped' /\ TableTyped'
  <2>1. w \in Wid /\ orphans[o].wins[w] \in Entry
    BY <1>4 DEF Base, Typed, TableTyped, OrphanRec, Used
  <2> QED
    BY <1>1, <1>4, <2>1, NullsTyped, TakingOff, OrphanEntry DEF Base, Typed, PutOrphan
<1>5. ASSUME orphans' = [orphans EXCEPT ![o] = NoOrphan], UNCHANGED <<stack, mapped>>
      PROVE  SceneTyped' /\ TableTyped'
  <2>1. SceneTyped'
    BY <1>1, <1>5 DEF Base, Typed, SceneTyped
  <2>2. /\ orphans' \in [Slots -> OrphanRec]
        /\ \A p \in Slots : orphans'[p] = orphans[p] \/ orphans'[p] = NoOrphan
    BY <1>5, NullsTyped DEF Base, Typed, TableTyped
  <2>3. NoOrphan.token = 0
    BY DEF NoOrphan
  <2>4. TableTyped'
    BY <1>1, <2>2, <2>3 DEF Base, Typed, TableTyped
  <2> QED
    BY <2>1, <2>4
<1>6. \/ \E w \in Used(orphans[o].wins) : /\ TakenOff(orphans[o].wins[w])
                                          /\ orphans' = [orphans EXCEPT ![o].wins[w] = NoWin]
      \/ orphans' = [orphans EXCEPT ![o] = NoOrphan] /\ UNCHANGED <<stack, mapped>>
  BY DEF orphan_destroy, TakenOff
<1>7. SceneTyped' /\ TableTyped'
  BY <1>4, <1>5, <1>6
<1> QED
  BY <1>1, <1>2, <1>3, <1>7, ServingBase

\* Datagrams that leave the tables alone.
LEMMA DispatchPlainBase ==
  ASSUME Base, DispatchOther \/ on_set_cursor \/ on_set_geometry
  PROVE  Base'
<1>1. PICK type \in {"OTHER", "HELLO", "CURSOR", "GEOMETRY"} :
        /\ Recv(type) /\ Consume
        /\ type = "GEOMETRY" <=> on_set_geometry
  BY DEF DispatchOther, on_set_cursor, on_set_geometry, Recv
<1>2. /\ cur \in Slots /\ Fd \in Conn /\ Msg \in Message /\ Msg.type = type
      /\ UNCHANGED <<conn, alive, stalled>>
      /\ UNCHANGED <<table, out, loop, screen, mapped, fd_leak>>
  BY <1>1, Receiving DEF DispatchOther, on_set_cursor, on_set_geometry, scene
<1>3. SocketTyped'
  BY <1>1, <1>2, Receiving
<1>4. Sound(stack')
  <2>1. CASE type = "GEOMETRY"
    <3>1. Msg.rect \in Rect
      BY <1>2, <2>1, MessageForms
    <3> DEFINE e == clients[cur].wins[Msg.wid]
    <3>2. CASE stack' = stack
      BY <3>2 DEF Base, Typed, SceneTyped
    <3>3. CASE Exists(stack, e.server_id)
               /\ stack' = window_set_geometry(stack, e.server_id, Msg.rect)
      BY <3>1, <3>3, SetGeometrySound DEF Base, Typed, SceneTyped
    <3> QED
      BY <1>1, <2>1, <3>2, <3>3 DEF on_set_geometry, Movable
  <2>2. CASE type # "GEOMETRY"
    BY <1>1, <2>2 DEF Base, Typed, SceneTyped, DispatchOther, on_set_cursor, scene
  <2> QED
    BY <2>1, <2>2
<1>5. cursor_from' \in Conn \cup {NoConn}
  BY <1>2 DEF Base, Typed, SceneTyped, DispatchOther, on_set_cursor, on_set_geometry, scene
<1>6. SceneTyped' /\ TableTyped' /\ OutTyped'
  BY <1>2, <1>4, <1>5 DEF Base, Typed, SceneTyped, TableTyped, OutTyped, table
<1>7. prior' \in [Conn -> SUBSET Conn] /\ UNCHANGED <<clients, pc, cur, evs, running>>
  BY <1>2 DEF Base, Typed, LoopTyped, loop, table
<1> QED
  BY <1>2, <1>3, <1>6, <1>7, ServingBase

LEMMA DestroyWindowBase == ASSUME Base, on_destroy_window PROVE Base'
<1> DEFINE wid == Msg.wid
           e   == clients[cur].wins[wid]
<1>1. Recv("DESTROY") /\ Consume /\ UNCHANGED <<conn, alive, stalled, loop>>
  BY DEF on_destroy_window
<1>2. /\ cur \in Slots /\ Fd \in Conn /\ clients[cur].fd # NoConn
      /\ SocketTyped' /\ wid \in Wid
  BY <1>1, Receiving, MessageForms
<1>3. e \in Entry
  BY <1>2 DEF Base, Typed, TableTyped, ClientRec
<1>4. prior' \in [Conn -> SUBSET Conn] /\ UNCHANGED <<pc, cur, evs, running>>
  BY <1>1 DEF Base, Typed, LoopTyped, loop
<1>5. ASSUME TakenOff(e), clients' = [clients EXCEPT ![cur].wins[wid] = NoWin],
             out' = [out EXCEPT !.told = @ \ {<<Fd, wid>>}]
      PROVE  Base'
  <2>1. SceneTyped'
    BY <1>3, <1>5, TakingOff DEF Base, Typed, on_destroy_window
  <2>2. /\ TableTyped'
        /\ \A j \in Slots : j # cur => clients'[j] = clients[j]
        /\ clients'[cur].fd = clients[cur].fd
    BY <1>2, <1>5, NullsTyped, ClientEntry DEF Base, Typed, TableTyped, on_destroy_window, PutClient
  <2>3. OutTyped'
    BY <1>5 DEF Base, Typed, OutTyped, OutRec
  <2> QED
    BY <1>1, <1>2, <1>4, <2>1, <2>2, <2>3, ServingBase
<1>6. CASE UNCHANGED <<stack, mapped, clients, out>>
  <2>1. SceneTyped' /\ TableTyped' /\ OutTyped'
    BY <1>6 DEF Base, Typed, SceneTyped, TableTyped, OutTyped, on_destroy_window
  <2> QED
    BY <1>1, <1>2, <1>4, <1>6, <2>1, ServingBase
<1> QED
  BY <1>5, <1>6 DEF on_destroy_window, TakenOff

\* A buffer number that is not mapped, as the kernel picks an address.
LEMMA FreshMapping ==
  ASSUME NEW M, M \subseteq Nat \ {0}, IsFiniteSet(M)
  PROVE  Min((1 .. Cardinality(M) + 1) \ M) \in (Nat \ {0}) \ M
<1> DEFINE n == Cardinality(M)
           F == (1 .. n + 1) \ M
<1>1. n \in Nat
  BY FS_CardinalityType
<1>2. IsFiniteSet(1 .. n + 1) /\ Cardinality(1 .. n + 1) = n + 1
  BY <1>1, FS_Interval
<1>3. ~(1 .. n + 1 \subseteq M)
  <2>1. PICK I : I = 1 .. n + 1
    OBVIOUS
  <2> HIDE DEF n
  <2>2. ASSUME I \in SUBSET M
        PROVE  Cardinality(I) <= Cardinality(M)
    BY <2>2, FS_Subset
  <2>3. Cardinality(I) = n + 1 /\ Cardinality(M) = n /\ ~(n + 1 <= n)
    BY <1>1, <1>2, <2>1 DEF n
  <2> QED
    BY <2>1, <2>2, <2>3
<1>4. F # {} /\ F \subseteq Nat
  BY <1>3
<1>5. Min(F) \in F
  BY <1>4, MinOfNats
<1> QED
  BY <1>5

\* What a served CL_CREATE_WINDOW does: a window of the next id, without a buffer, is
\* entered under the client's id for it, and an application's window takes the focus.
Created ==
  /\ ~IsFull(stack)
  /\ \/ Msg.wid = ZeroWid /\ ZeroWid \in CreateWids /\ clients' = clients
     \/ /\ Msg.wid \in Wid /\ clients[cur].wins[Msg.wid].server_id = 0
        /\ clients' = [clients EXCEPT ![cur].wins[Msg.wid] =
                         [server_id |-> stack.next_id, buf |-> 0]]
  /\ Sound(stack') /\ stack'.next_id = stack.next_id + 1
  /\ \E v \in Window :
       /\ v.id = stack.next_id /\ v.buf = 0
       /\ Contents(stack') = Contents(stack) \cup {v}
       /\ v.role = "DESKTOP" =>
            RectOf(v) = [x |-> 0, y |-> 0, w |-> screen.w, h |-> screen.h]
  /\ Ordered(stack) => Ordered(stack')
  /\ \/ /\ stack'.focus_id = stack.next_id
        /\ focused_server_id' = stack.next_id
        /\ out' = notify_focus(cl_send(out, Fd, out), clients', stack.next_id)
     \/ /\ UNCHANGED focused_server_id
        /\ out' = cl_send(out, Fd, out)

LEMMA Creating ==
  ASSUME Base, on_create_window
  PROVE  UNCHANGED <<stack, clients, focused_server_id, out>> \/ Created
<1> DEFINE m    == Msg
           id   == stack.next_id
           size == [m.rect EXCEPT !.w = IF @ = 0 THEN 320 ELSE @, !.h = IF @ = 0 THEN 240 ELSE @]
           s2   == ClientWindow(stack, m.role, size)
           full == [x |-> 0, y |-> 0, w |-> screen.w, h |-> screen.h]
           s3   == window_set_geometry(s2, id, full)
           cls  == IF m.wid = ZeroWid THEN clients
                   ELSE [clients EXCEPT ![cur].wins[m.wid] = [server_id |-> id, buf |-> 0]]
           cfgd == cl_send(out, Fd, out)
<1>1. /\ Recv("CREATE") /\ m \in Message /\ m.type = "CREATE"
      /\ m.wid \in Wid \cup {ZeroWid} /\ m.wid \in CreateWids /\ m.role \in Role
      /\ m.rect \in Rect
  BY Receiving, MessageForms DEF on_create_window
<1>2. Sound(stack) /\ screen.w \in Nat \ {0} /\ screen.h \in Nat \ {0}
  BY FieldsAssumption DEF Base, Typed, SceneTyped
<1>3. size \in Rect /\ full \in Rect /\ full.w > 0 /\ full.h > 0
  <2> DEFINE q  == m.rect
             nw == IF q.w = 0 THEN 320 ELSE q.w
             nh == IF q.h = 0 THEN 240 ELSE q.h
  <2>1. q \in Rect /\ nw \in Int /\ nh \in Int
    BY <1>1 DEF Rect
  <2>2. size = [q EXCEPT !.w = nw, !.h = nh]
    OBVIOUS
  <2> HIDE DEF q, nw, nh, m, size
  <2>3. size \in Rect
    BY <2>1, <2>2 DEF Rect
  <2>4. full \in Rect /\ full.w > 0 /\ full.h > 0
    BY <1>2 DEF Rect
  <2> QED
    BY <2>3, <2>4
<1>4. \/ UNCHANGED <<stack, clients, focused_server_id, out>>
      \/ /\ m.wid = ZeroWid \/ clients[cur].wins[m.wid].server_id = 0
         /\ ~IsFull(stack)
         /\ clients' = cls
         /\ \/ /\ m.role = "NORMAL"
               /\ stack' = window_focus(s2, id)
               /\ out' = notify_focus(cfgd, cls, id)
               /\ focused_server_id' = id
            \/ /\ m.role = "DESKTOP"
               /\ stack' = window_lower(s3, id)
               /\ out' = cfgd
               /\ UNCHANGED focused_server_id
            \/ /\ m.role \notin {"NORMAL", "DESKTOP"}
               /\ stack' = s2
               /\ out' = cfgd
               /\ UNCHANGED focused_server_id
  BY DEF on_create_window, ClientWindow
<1> SUFFICES ASSUME ~IsFull(stack), m.wid = ZeroWid \/ clients[cur].wins[m.wid].server_id = 0,
                    clients' = cls,
                    \/ /\ m.role = "NORMAL"
                       /\ stack' = window_focus(s2, id)
                       /\ out' = notify_focus(cfgd, cls, id)
                       /\ focused_server_id' = id
                    \/ /\ m.role = "DESKTOP"
                       /\ stack' = window_lower(s3, id)
                       /\ out' = cfgd
                       /\ UNCHANGED focused_server_id
                    \/ /\ m.role \notin {"NORMAL", "DESKTOP"}
                       /\ stack' = s2
                       /\ out' = cfgd
                       /\ UNCHANGED focused_server_id
             PROVE  Created
  BY <1>4
<1> HIDE DEF size, full
<1>5. /\ Sound(s2) /\ Exists(s2, id)
      /\ s2.next_id = id + 1 /\ s2.focus_id = stack.focus_id
  BY <1>1, <1>2, <1>3, ClientWindowCreates
<1>6. PICK v \in Window : /\ v.id = id /\ v.role = m.role /\ v.buf = 0
                          /\ Contents(s2) = Contents(stack) \cup {v}
                          /\ window_by_id(s2, id) = v
  BY <1>1, <1>2, <1>3, ClientWindowCreates
<1>7. Ordered(stack) =>
         /\ m.role = "NORMAL" => Ordered(window_focus(s2, id))
         /\ m.role = "DESKTOP" => Ordered(window_lower(s3, id))
         /\ m.role \notin {"NORMAL", "DESKTOP"} => Ordered(s2)
  BY <1>1, <1>2, <1>3, ClientWindowOrders
<1> HIDE DEF s2, s3
<1>8. \/ m.wid = ZeroWid /\ ZeroWid \in CreateWids /\ clients' = clients
      \/ /\ m.wid \in Wid /\ clients[cur].wins[m.wid].server_id = 0
         /\ clients' = [clients EXCEPT ![cur].wins[m.wid] = [server_id |-> id, buf |-> 0]]
  BY <1>1, ConnAssumption
<1>9. CASE /\ m.role = "NORMAL"
           /\ stack' = window_focus(s2, id)
           /\ out' = notify_focus(cfgd, cls, id)
           /\ focused_server_id' = id
  <2>1. /\ Sound(stack') /\ stack'.next_id = id + 1 /\ stack'.focus_id = id
        /\ Contents(stack') = Contents(stack) \cup {v}
    BY <1>5, <1>6, <1>9, FocusSound, FocusContents
  <2>2. v.role # "DESKTOP"
    BY <1>6, <1>9
  <2> QED
    BY <1>6, <1>7, <1>8, <1>9, <2>1, <2>2 DEF Created
<1>10. CASE /\ m.role = "DESKTOP"
            /\ stack' = window_lower(s3, id)
            /\ out' = cfgd
            /\ UNCHANGED focused_server_id
  <2>1. Sound(s3) /\ s3.next_id = id + 1
    BY <1>3, <1>5, SetGeometrySound DEF s3
  <2>2. PICK x \in Window : /\ x.id = id /\ x.role = v.role /\ x.buf = v.buf
                            /\ RectOf(x) = full
                            /\ Contents(s3) = {z \in Contents(s2) : z.id # id} \cup {x}
    BY <1>3, <1>5, <1>6, MoveWindow DEF s3
  <2>3. \A z \in Contents(stack) : z.id # id
    <3>1. stack.next_id \in Nat
      BY <1>2 DEF Sound, Stack
    <3>2. \A z \in Contents(stack) : z.id < stack.next_id /\ z.id \in Nat
      BY <1>2, ContentsDecide DEF Window
    <3> QED
      BY <3>1, <3>2
  <2>4. Contents(s3) = Contents(stack) \cup {x}
    BY <1>6, <2>2, <2>3
  <2>5. Sound(stack') /\ stack'.next_id = id + 1 /\ Contents(stack') = Contents(s3)
    BY <1>10, <2>1, LowerSound, LowerContents
  <2> QED
    BY <1>6, <1>7, <1>8, <1>10, <2>2, <2>4, <2>5 DEF Created, full
<1>11. CASE /\ m.role \notin {"NORMAL", "DESKTOP"}
            /\ stack' = s2
            /\ out' = cfgd
            /\ UNCHANGED focused_server_id
  BY <1>5, <1>6, <1>7, <1>8, <1>11 DEF Created
<1> QED
  BY <1>9, <1>10, <1>11

LEMMA CreateWindowBase == ASSUME Base, on_create_window PROVE Base'
<1>1. /\ Recv("CREATE") /\ Consume /\ UNCHANGED <<conn, alive, stalled, loop>>
      /\ UNCHANGED <<screen, mapped, fd_leak, cursor_from, orphans, next_token>>
  BY DEF on_create_window
<1>2. /\ cur \in Slots /\ Fd \in Conn /\ clients[cur].fd # NoConn /\ SocketTyped'
  BY <1>1, Receiving
<1>3. prior' \in [Conn -> SUBSET Conn] /\ UNCHANGED <<pc, cur, evs, running>>
  BY <1>1 DEF Base, Typed, LoopTyped, loop
<1>4. CASE UNCHANGED <<stack, clients, focused_server_id, out>>
  <2>1. SceneTyped' /\ TableTyped' /\ OutTyped'
    BY <1>1, <1>4 DEF Base, Typed, SceneTyped, TableTyped, OutTyped
  <2> QED
    BY <1>1, <1>2, <1>3, <1>4, <2>1, ServingBase
<1>5. CASE Created
  <2> DEFINE e == [server_id |-> stack.next_id, buf |-> 0]
  <2>1. stack.next_id \in Nat /\ e \in Entry
    BY DEF Base, Typed, SceneTyped, Sound, Stack, Entry
  <2>2. focused_server_id' \in Nat
    BY <1>5, <2>1 DEF Base, Typed, TableTyped, Created
  <2>3. SceneTyped'
    BY <1>1, <1>5 DEF Base, Typed, SceneTyped, Created
  <2>4. /\ TableTyped'
        /\ \A k \in Slots : /\ clients'[k].fd = clients[k].fd
                            /\ clients[k].fd = NoConn => clients'[k] = clients[k]
    <3>1. CASE clients' = clients
      BY <1>1, <2>2, <3>1 DEF Base, Typed, TableTyped
    <3>2. CASE Msg.wid \in Wid /\ clients' = [clients EXCEPT ![cur].wins[Msg.wid] = e]
      <4> HIDE DEF e
      <4> QED
        BY <1>1, <1>2, <2>1, <2>2, <3>2, ClientEntry DEF Base, Typed, PutClient
    <3> QED
      BY <1>5, <3>1, <3>2 DEF Created
  <2>5. OutTyped'
    <3>1. cl_send(out, Fd, out) \in OutRec
      BY <1>2, Sending DEF Base, Typed, OutTyped
    <3>2. notify_focus(cl_send(out, Fd, out), clients', stack.next_id) \in OutRec
      BY <2>4, <3>1, Notifying DEF TableTyped
    <3> QED
      BY <1>5, <3>1, <3>2 DEF Created, OutTyped
  <2> QED
    BY <1>1, <1>2, <1>3, <2>3, <2>4, <2>5, ServingBase
<1> QED
  BY <1>4, <1>5, Creating

\* What a served CL_COMMIT with a frame does: the entry has a new buffer that its
\* window shows, and the previous one is unmapped.
Committed(e, fresh) ==
  /\ e.server_id # 0 /\ Exists(stack, e.server_id)
  /\ fresh \in (Nat \ {0}) \ mapped
  /\ mapped' = (mapped \cup {fresh}) \ {e.buf}
  /\ clients' = [clients EXCEPT ![cur].wins[Msg.wid] =
                   [server_id |-> e.server_id, buf |-> fresh]]
  /\ Sound(stack') /\ SameShape(stack, stack') /\ stack'.next_id = stack.next_id
  /\ \E v \in Window :
       /\ v.id = e.server_id /\ v.buf = fresh
       /\ Contents(stack') = {z \in Contents(stack) : z.id # e.server_id} \cup {v}
  /\ Like(stack, stack')

LEMMA Committing ==
  ASSUME Base, on_commit
  PROVE  /\ Msg.wid \in Wid /\ Msg.form \in Commits
         /\ \/ UNCHANGED <<mapped, clients, stack>>
            \/ \E fresh : Committed(clients[cur].wins[Msg.wid], fresh)
<1> DEFINE wid   == Msg.wid
           e     == clients[cur].wins[wid]
           fresh == Min((1 .. Cardinality(mapped) + 1) \ mapped)
           s1    == win_drop_buffer(stack, e)
           t     == Update(s1, e.server_id, [window_by_id(s1, e.server_id) EXCEPT !.buf = fresh])
<1>1. cur \in Slots /\ wid \in Wid /\ Msg.form \in Commits
  BY Receiving, MessageForms DEF on_commit
<1>2. e \in Entry
  BY <1>1 DEF Base, Typed, TableTyped, ClientRec
<1>3. \/ UNCHANGED <<mapped, clients, stack>>
      \/ /\ e.server_id # 0 /\ Exists(stack, e.server_id)
         /\ mapped' = (mapped \cup {fresh}) \ {e.buf}
         /\ clients' = [clients EXCEPT ![cur].wins[wid].buf = fresh]
         /\ stack' = t
  BY DEF on_commit, ReplaceMapping
<1> SUFFICES ASSUME e.server_id # 0, Exists(stack, e.server_id),
                    mapped' = (mapped \cup {fresh}) \ {e.buf},
                    clients' = [clients EXCEPT ![cur].wins[wid].buf = fresh],
                    stack' = t
             PROVE  Committed(e, fresh)
  BY <1>1, <1>3
<1>4. fresh \in (Nat \ {0}) \ mapped
  BY FreshMapping DEF Base, Typed, SceneTyped
<1> HIDE DEF fresh
<1>5. /\ Sound(t) /\ SameShape(stack, t) /\ t.next_id = stack.next_id
      /\ \E v \in Window : /\ v.id = e.server_id /\ v.buf = fresh
                           /\ Contents(t) = {z \in Contents(stack) : z.id # e.server_id} \cup {v}
      /\ Like(stack, t)
  BY <1>2, <1>4, ShowBuffer DEF Base, Typed, SceneTyped
<1> HIDE DEF t
<1>6. clients' = [clients EXCEPT ![cur].wins[wid] = [server_id |-> e.server_id, buf |-> fresh]]
  <2>1. [e EXCEPT !.buf = fresh] = [server_id |-> e.server_id, buf |-> fresh]
    BY <1>2 DEF Entry
  <2>2. clients' = [clients EXCEPT ![cur].wins[wid] = [e EXCEPT !.buf = fresh]]
    OBVIOUS
  <2> QED
    BY <2>1, <2>2
<1> QED
  BY <1>4, <1>5, <1>6 DEF Committed

LEMMA CommitBase == ASSUME Base, on_commit PROVE Base'
<1>1. /\ Recv("COMMIT") /\ Consume /\ UNCHANGED <<conn, alive, stalled, loop>>
      /\ UNCHANGED <<screen, cursor_from, orphans, focused_server_id, next_token, out>>
  BY DEF on_commit
<1>2. /\ cur \in Slots /\ Fd \in Conn /\ clients[cur].fd # NoConn /\ SocketTyped'
  BY <1>1, Receiving
<1>3. prior' \in [Conn -> SUBSET Conn] /\ UNCHANGED <<pc, cur, evs, running>>
  BY <1>1 DEF Base, Typed, LoopTyped, loop
<1>4. fd_leak' \in BOOLEAN
  BY DEF Base, Typed, SceneTyped, on_commit
<1>5. OutTyped'
  BY <1>1 DEF Base, Typed, OutTyped
<1>6. CASE UNCHANGED <<mapped, clients, stack>>
  <2>1. SceneTyped' /\ TableTyped'
    BY <1>1, <1>4, <1>6 DEF Base, Typed, SceneTyped, TableTyped
  <2> QED
    BY <1>1, <1>2, <1>3, <1>5, <1>6, <2>1, ServingBase
<1>7. ASSUME NEW fresh, Committed(clients[cur].wins[Msg.wid], fresh), Msg.wid \in Wid
      PROVE  Base'
  <2> DEFINE wid == Msg.wid
             e   == clients[cur].wins[wid]
             f   == [server_id |-> e.server_id, buf |-> fresh]
  <2>1. fresh \in Nat \ {0} /\ clients' = [clients EXCEPT ![cur].wins[wid] = f]
    BY <1>7 DEF Committed
  <2>2. f \in Entry
    BY <1>2, <1>7, <2>1 DEF Base, Typed, TableTyped, ClientRec, Entry
  <2>3. IsFiniteSet(mapped')
    <3>1. IsFiniteSet(mapped \cup {fresh})
      BY FS_AddElement DEF Base, Typed, SceneTyped
    <3>2. mapped' \subseteq mapped \cup {fresh}
      BY <1>7 DEF Committed
    <3> QED
      BY <3>1, <3>2, FS_Subset
  <2>4. SceneTyped'
    BY <1>1, <1>4, <1>7, <2>1, <2>3 DEF Base, Typed, SceneTyped, Committed
  <2> HIDE DEF f, e
  <2>5. /\ TableTyped'
        /\ \A j \in Slots : j # cur => clients'[j] = clients[j]
        /\ clients'[cur].fd = clients[cur].fd
    BY <1>1, <1>2, <1>7, <2>1, <2>2, ClientEntry DEF Base, Typed, TableTyped, PutClient
  <2> QED
    BY <1>1, <1>2, <1>3, <1>5, <2>4, <2>5, ServingBase
<1> QED
  BY <1>6, <1>7, Committing

LEMMA HelloBase == ASSUME Base, DispatchHello PROVE Base'
<1>1. /\ Recv("HELLO") /\ Consume /\ UNCHANGED <<conn, alive, stalled, pc, cur, evs, running>>
      /\ UNCHANGED <<scene, focused_server_id>>
      /\ out' = send_welcome(out, Fd)
      /\ prior' = [prior EXCEPT ![Fd] = {}]
  BY DEF DispatchHello
<1>2. /\ cur \in Slots /\ Fd \in Conn /\ clients[cur].fd # NoConn /\ SocketTyped'
      /\ Msg.token \in Nat
  BY <1>1, Receiving, MessageForms, FieldsAssumption
<1>3. SceneTyped' /\ prior' \in [Conn -> SUBSET Conn]
  BY <1>1, <1>2 DEF Base, Typed, SceneTyped, LoopTyped, scene
<1>4. OutTyped'
  <2> DEFINE d == [out EXCEPT !.screen[Fd] = screen]
  <2>1. d \in OutRec
    BY <1>2 DEF Base, Typed, SceneTyped, OutTyped, OutRec
  <2>2. out' = cl_send(out, Fd, d)
    BY <1>1 DEF send_welcome
  <2> HIDE DEF d
  <2> QED
    BY <1>2, <2>1, <2>2, Sending DEF Base, Typed, OutTyped
<1> DEFINE match == Reclaimable(Msg.token)
           o     == Min(match)
           r     == [fd |-> Fd, hello |-> TRUE, token |-> Msg.token, wins |-> orphans[o].wins]
           q     == [clients[cur] EXCEPT !.hello = TRUE, !.token = assign_token]
<1>5. ASSUME match # {}, clients' = [clients EXCEPT ![cur] = r],
             orphans' = [orphans EXCEPT ![o] = NoOrphan], next_token' = next_token
      PROVE  TableTyped' /\ \A k \in Slots : /\ clients'[k].fd = clients[k].fd
                                             /\ clients[k].fd = NoConn => clients'[k] = clients[k]
  <2>1. o \in Slots /\ orphans[o].token = Msg.token
    BY <1>5, FirstSlot DEF Reclaimable
  <2> HIDE DEF o
  <2>2. r \in ClientRec /\ r.fd = clients[cur].fd /\ r.token <= next_token
    BY <1>2, <2>1 DEF Base, Typed, TableTyped, ClientRec, OrphanRec, Fd
  <2> HIDE DEF r
  <2>3. /\ clients' \in [Slots -> ClientRec] /\ clients'[cur] = r
        /\ \A k \in Slots : k # cur => clients'[k] = clients[k]
    BY <1>2, <1>5, <2>2 DEF Base, Typed, TableTyped
  <2>4. /\ orphans' \in [Slots -> OrphanRec] /\ orphans'[o] = NoOrphan
        /\ \A k \in Slots : k # o => orphans'[k] = orphans[k]
    BY <1>5, <2>1, NullsTyped DEF Base, Typed, TableTyped
  <2>5. NoOrphan.token = 0
    BY DEF NoOrphan
  <2>6. TableTyped'
    BY <1>1, <1>5, <2>2, <2>3, <2>4, <2>5 DEF Base, Typed, TableTyped
  <2> QED
    BY <1>2, <2>2, <2>3, <2>6
<1>6. ASSUME clients' = [clients EXCEPT ![cur].hello = TRUE, ![cur].token = assign_token],
             orphans' = [k \in Slots |-> IF k \in match THEN NoOrphan ELSE orphans[k]],
             next_token' = next_token + 1
      PROVE  TableTyped' /\ \A k \in Slots : /\ clients'[k].fd = clients[k].fd
                                             /\ clients[k].fd = NoConn => clients'[k] = clients[k]
  <2>1. clients' = [clients EXCEPT ![cur] = q]
    BY <1>2, <1>6 DEF Base, Typed, TableTyped
  <2>2. q \in ClientRec /\ q.fd = clients[cur].fd /\ q.token = next_token + 1
    <3> DEFINE t == next_token + 1
               c == clients[cur]
    <3>1. t \in Nat /\ c \in ClientRec
      BY <1>2 DEF Base, Typed, TableTyped
    <3>2. q = [c EXCEPT !.hello = TRUE, !.token = t]
      BY DEF assign_token
    <3> HIDE DEF t, c, q
    <3>3. q \in ClientRec /\ q.fd = c.fd /\ q.token = t
      BY <3>1, <3>2 DEF ClientRec
    <3> QED
      BY <3>3 DEF t, c
  <2> HIDE DEF q
  <2>3. /\ clients' \in [Slots -> ClientRec] /\ clients'[cur] = q
        /\ \A k \in Slots : k # cur => clients'[k] = clients[k]
    BY <1>2, <2>1, <2>2 DEF Base, Typed, TableTyped
  <2>4. /\ orphans' \in [Slots -> OrphanRec]
        /\ \A k \in Slots : orphans'[k] = orphans[k] \/ orphans'[k] = NoOrphan
    BY <1>6, NullsTyped DEF Base, Typed, TableTyped
  <2>5. NoOrphan.token = 0
    BY DEF NoOrphan
  <2>6. next_token \in Nat /\ next_token' \in Nat /\ next_token <= next_token'
    BY <1>6 DEF Base, Typed, TableTyped
  <2>7. \A k \in Slots : clients'[k].token <= next_token' /\ orphans'[k].token <= next_token'
    <3>1. \A k \in Slots : /\ clients[k].token <= next_token /\ clients[k].token \in Nat
                           /\ orphans[k].token <= next_token /\ orphans[k].token \in Nat
      BY DEF Base, Typed, TableTyped, ClientRec, OrphanRec
    <3>2. \A k \in Slots : clients'[k].token <= next_token'
      <4>1. clients'[cur].token = next_token'
        BY <1>6, <2>2, <2>3
      <4>2. ASSUME NEW k \in Slots, k # cur
            PROVE  clients'[k].token <= next_token'
        BY <2>3, <2>6, <3>1, <4>2
      <4> QED
        BY <2>6, <4>1, <4>2
    <3>3. \A k \in Slots : orphans'[k].token <= next_token'
      BY <2>4, <2>5, <2>6, <3>1
    <3> QED
      BY <3>2, <3>3
  <2>8. TableTyped'
    BY <1>1, <2>3, <2>4, <2>6, <2>7 DEF Base, Typed, TableTyped
  <2> QED
    BY <1>2, <2>2, <2>3, <2>8
<1>7. TableTyped' /\ \A k \in Slots : /\ clients'[k].fd = clients[k].fd
                                      /\ clients[k].fd = NoConn => clients'[k] = clients[k]
  BY <1>5, <1>6 DEF DispatchHello
<1> QED
  BY <1>1, <1>2, <1>3, <1>4, <1>7, ServingBase

----------------------------------------------------------------------------
LEMMA InitBase == ASSUME Init PROVE Base
<1>1. SceneTyped
  <2>1. Sound(window_stack_init) /\ Contents(window_stack_init) = {}
    BY WinMaxAssumption
       DEF window_stack_init, Sound, Stack, UniqueIds, FocusLive, CountBounded, Contents
  <2> QED
    BY <2>1, FS_EmptySet DEF Init, SceneTyped
<1>2. TableTyped /\ OutTyped /\ LoopTyped
  BY NullsTyped, SlotIsCursor DEF Init, TableTyped, OutTyped, OutRec, LoopTyped, Phases, NoClient,
                                  NoOrphan
<1>3. SocketTyped
  <2>1. << >> \in Seq(Message)
    OBVIOUS
  <2> QED
    BY <2>1 DEF Init, SocketTyped
<1>4. Seated /\ Pending
  BY ConnAssumption DEF Init, Seated, Pending, NoEvents, NoClient
<1> QED
  BY <1>1, <1>2, <1>3, <1>4 DEF Base, Typed

LEMMA NextBase == ASSUME Base, [Next]_vars PROVE Base'
<1>1. CASE ServerStep
  <2>1. CASE Wake
    BY <2>1, PollBase DEF Wake, Base, Typed, SceneTyped
  <2>2. CASE ExpireDone \/ HandleListen \/ AcceptDone \/ EventsDone
    BY <2>2, GotoBase
  <2>3. CASE RecvEnd \/ transport_update_focus
    BY <2>3, TurnBase
  <2>4. CASE Lose
    BY <2>4, LoseBase
  <2>5. ASSUME NEW c \in Conn, Accept(c) \/ client_readable(c)
        PROVE  Base'
    BY <2>5, AcceptBase, ReadableBase
  <2>6. ASSUME NEW o \in Slots, orphan_destroy(o)
        PROVE  Base'
    BY <2>6, OrphanDestroyBase
  <2>7. CASE TransportProcess \/ Halt \/ ReapWindow \/ ReapDone
    BY <2>7, TransportProcessBase, HaltBase, ReapWindowBase, ReapDoneBase
  <2>8. CASE Dispatch
    BY <2>4, <2>8, DispatchPlainBase, DestroyWindowBase, CreateWindowBase, CommitBase, HelloBase
       DEF Dispatch, Lose
  <2> QED
    BY <1>1, <2>1, <2>2, <2>3, <2>4, <2>5, <2>6, <2>7, <2>8 DEF ServerStep, Lose
<1>2. CASE Client
  BY <1>2, ClientBase
<1>3. CASE InputFocus
  <2>1. PICK id : Poll(window_focus(stack, id))
    BY <1>3 DEF InputFocus
  <2> QED
    BY <2>1, FocusSound, PollBase DEF Base, Typed, SceneTyped
<1>4. CASE Quit
  BY <1>4, TurnBase
<1>5. ASSUME NEW o \in Slots, GraceElapses(o)
      PROVE  Base'
  BY <1>5, GraceElapsesBase
<1>6. ASSUME NEW m \in Screens, SetMode(m)
      PROVE  Base'
  BY <1>6, SetModeBase
<1>7. CASE UNCHANGED vars
  <2>1. Typed'
    BY <1>7 DEF Base, Typed, SceneTyped, TableTyped, SocketTyped, OutTyped, LoopTyped, vars, scene,
            table, socket, loop
  <2>2. Seated' /\ Pending'
    BY <1>7 DEF Base, Seated, Pending, vars, table, socket, loop
  <2> QED
    BY <2>1, <2>2 DEF Base
<1> QED
  BY <1>1, <1>2, <1>3, <1>4, <1>5, <1>6, <1>7 DEF Next

\* Types, slots and pending events: a connection that is served has one slot, and an
\* event is only ever handled for a connection that still has its slot.
THEOREM BaseHolds == Spec => []Base
<1>1. Init => Base
  BY InitBase
<1>2. Base /\ [Next]_vars => Base'
  BY NextBase
<1> QED
  BY <1>1, <1>2, PTL DEF Spec

LEMMA BaseImpliesTypes == Base => TypeOK
  BY DEF Base, Typed, SceneTyped, TableTyped, SocketTyped, OutTyped, LoopTyped, TypeOK, Sound,
         ClientRec, OrphanRec, Entry, OutRec, Phases

\* Every variable of the transport keeps its type, whatever clients send, in whatever
\* order connections come and go.
THEOREM TransportTypes == Spec => []TypeOK
  BY BaseHolds, BaseImpliesTypes, PTL

----------------------------------------------------------------------------
(* Reconnect tokens.                                                       *)

\* A client slot without a session, and an orphan slot without one.
NoSession(r) == ~r.hello /\ r.token = 0 /\ Used(r.wins) = {}
Unheld(r)    == r.token = 0 /\ Used(r.wins) = {}

SameSession(r, s) == /\ s.fd = r.fd /\ s.hello = r.hello /\ s.token = r.token
                     /\ Used(s.wins) \subseteq Used(r.wins) \/ s.hello
SameHeld(r, s)    == s.token = r.token /\ Used(s.wins) \subseteq Used(r.wins)

LEMMA NullSessions == /\ NoSession(NoClient) /\ Unheld(NoOrphan)
                      /\ \A c : NoSession([NoClient EXCEPT !.fd = c])
  BY DEF NoSession, Unheld, NoClient, NoOrphan, NoWins, NoWin, Used

\* Sessions stay where they are or end.
LEMMA SessionsEnd ==
  ASSUME TokensUnique,
         \A k \in Slots : SameSession(clients[k], clients'[k]) \/ NoSession(clients'[k]),
         \A o \in Slots : SameHeld(orphans[o], orphans'[o]) \/ Unheld(orphans'[o])
  PROVE  TokensUnique'
<1>1. \A k \in Served' : clients'[k].hello => /\ k \in Served /\ clients[k].hello
                                              /\ clients[k].token = clients'[k].token
  BY DEF Served, SameSession, NoSession
<1>2. \A o \in Held' : o \in Held /\ orphans[o].token = orphans'[o].token
  BY DEF Held, SameHeld, Unheld
<1>3. \A k \in Slots : clients'[k].hello <=> clients'[k].token # 0
  BY DEF TokensUnique, SameSession, NoSession
<1>4. \A j, k \in Served' : clients'[j].hello /\ clients'[j].token = clients'[k].token => j = k
  BY <1>1, <1>3 DEF Served, TokensUnique
<1>5. \A o, p \in Held' : orphans'[o].token = orphans'[p].token => o = p
  BY <1>2 DEF TokensUnique
<1>6. \A k \in Served', o \in Held' : clients'[k].token # orphans'[o].token
  BY <1>1, <1>2, <1>3 DEF TokensUnique, Served, Held
<1>7. \A k \in Slots : ~clients'[k].hello => Used(clients'[k].wins) = {}
  BY DEF TokensUnique, SameSession, NoSession
<1>8. \A o \in Slots \ Held' : Used(orphans'[o].wins) = {}
  BY DEF TokensUnique, SameHeld, Unheld, Held
<1> QED
  BY <1>3, <1>4, <1>5, <1>6, <1>7, <1>8 DEF TokensUnique

\* A shell's session moves from its client slot to an orphan slot.
LEMMA ParkTokens ==
  ASSUME Base, TokensUnique, NEW k \in Slots, clients[k].fd # NoConn, Parks(k),
         clients' = [clients EXCEPT ![k] = NoClient],
         orphans' = [orphans EXCEPT ![Min(FreeOrphans)] =
           [token |-> clients[k].token, due |-> FALSE, wins |-> clients[k].wins]]
  PROVE  TokensUnique'
<1> DEFINE f == Min(FreeOrphans)
           r == [token |-> clients[k].token, due |-> FALSE, wins |-> clients[k].wins]
<1>1. f \in Slots /\ orphans[f].token = 0
  BY FirstSlot DEF Parks, FreeOrphans
<1>2. clients[k].token # 0 /\ k \in Served
  BY DEF Parks, Served
<1>3. r.token = clients[k].token /\ r.wins = clients[k].wins
  OBVIOUS
<1> HIDE DEF f, r
<1>4. /\ clients'[k] = NoClient /\ orphans'[f] = r
      /\ \A j \in Slots : j # k => clients'[j] = clients[j]
      /\ \A o \in Slots : o # f => orphans'[o] = orphans[o]
  BY <1>1 DEF Base, Typed, TableTyped, f, r
<1>5. NoClient.fd = NoConn /\ NoSession(NoClient)
  BY NullSessions DEF NoClient
<1>6. Served' = Served \ {k}
  BY <1>2, <1>4, <1>5 DEF Served
<1>7. Held' = Held \cup {f}
  BY <1>1, <1>2, <1>3, <1>4 DEF Held
<1>8. \A i, j \in Served' : clients'[i].hello /\ clients'[i].token = clients'[j].token => i = j
  BY <1>4, <1>6 DEF TokensUnique, Served
<1>9. \A o, p \in Held' : orphans'[o].token = orphans'[p].token => o = p
  BY <1>2, <1>3, <1>4, <1>7 DEF TokensUnique, Held
<1>10. \A j \in Served', o \in Held' : clients'[j].token # orphans'[o].token
  <2>1. clients[k].hello
    BY <1>2 DEF TokensUnique
  <2>2. \A j \in Served' : clients'[j].token # clients[k].token
    BY <1>2, <1>4, <1>6, <2>1 DEF TokensUnique, Served
  <2> QED
    BY <1>3, <1>4, <1>6, <1>7, <2>2 DEF TokensUnique, Served, Held
<1>11. \A j \in Slots : clients'[j].hello <=> clients'[j].token # 0
  BY <1>4, <1>5 DEF TokensUnique, NoSession
<1>12. \A j \in Slots : ~clients'[j].hello => Used(clients'[j].wins) = {}
  BY <1>4, <1>5 DEF TokensUnique, NoSession
<1>13. \A o \in Slots \ Held' : Used(orphans'[o].wins) = {}
  BY <1>4, <1>7 DEF TokensUnique, Held
<1> QED
  BY <1>8, <1>9, <1>10, <1>11, <1>12, <1>13 DEF TokensUnique

\* The two outcomes of a handshake: an orphan's windows and token pass to the client,
\* or the client is given the next token and an orphan without windows is dropped.
Reclaimed(o) ==
  /\ orphans[o].token # 0 /\ orphans[o].token = Msg.token
  /\ clients'[cur] = [fd |-> clients[cur].fd, hello |-> TRUE, token |-> orphans[o].token,
                      wins |-> orphans[o].wins]
  /\ orphans'[o] = NoOrphan
  /\ \A p \in Slots : p # o => orphans'[p] = orphans[p]
  /\ UNCHANGED next_token

Greeted ==
  /\ clients'[cur].fd = clients[cur].fd /\ clients'[cur].hello
  /\ clients'[cur].token = next_token + 1
  /\ clients'[cur].wins = clients[cur].wins
  /\ \A o \in Slots : \/ orphans'[o] = orphans[o]
                      \/ orphans'[o] = NoOrphan /\ Used(orphans[o].wins) = {}

LEMMA Greeting ==
  ASSUME Base, TokensUnique, DispatchHello
  PROVE  /\ cur \in Slots /\ clients[cur].fd # NoConn /\ ~clients[cur].hello
         /\ \A k \in Slots : k # cur => clients'[k] = clients[k]
         /\ Greeted \/ \E o \in Slots : Reclaimed(o)
<1> DEFINE match == Reclaimable(Msg.token)
           o     == Min(match)
           r     == [fd |-> Fd, hello |-> TRUE, token |-> Msg.token, wins |-> orphans[o].wins]
           q     == [clients[cur] EXCEPT !.hello = TRUE, !.token = assign_token]
<1>1. cur \in Slots /\ clients[cur].fd # NoConn /\ ~clients[cur].hello
  BY Receiving DEF DispatchHello
<1>2. \/ /\ match # {} /\ clients' = [clients EXCEPT ![cur] = r]
         /\ orphans' = [orphans EXCEPT ![o] = NoOrphan]
         /\ UNCHANGED next_token
      \/ /\ ~(match # {} /\ Used(orphans[o].wins) # {})
         /\ clients' = [clients EXCEPT ![cur].hello = TRUE, ![cur].token = assign_token]
         /\ orphans' = [k \in Slots |-> IF k \in match THEN NoOrphan ELSE orphans[k]]
  BY DEF DispatchHello
<1>3. match # {} => o \in match /\ o \in Slots /\ orphans[o].token = Msg.token /\ Msg.token # 0
  BY FirstSlot DEF Reclaimable
<1>4. \A p \in match : p = o
  BY <1>3 DEF Reclaimable, TokensUnique, Held
<1>5. \A p \in Slots \ match : p \in Slots
  OBVIOUS
<1> HIDE DEF o, match
<1>6. CASE /\ match # {} /\ clients' = [clients EXCEPT ![cur] = r]
           /\ orphans' = [orphans EXCEPT ![o] = NoOrphan]
           /\ UNCHANGED next_token
  <2>1. /\ clients'[cur] = r
        /\ \A k \in Slots : k # cur => clients'[k] = clients[k]
    BY <1>1, <1>6 DEF Base, Typed, TableTyped
  <2>2. /\ orphans'[o] = NoOrphan
        /\ \A p \in Slots : p # o => orphans'[p] = orphans[p]
    BY <1>3, <1>6 DEF Base, Typed, TableTyped
  <2>3. Reclaimed(o)
    BY <1>3, <1>6, <2>1, <2>2 DEF Reclaimed, Fd
  <2> QED
    BY <1>1, <1>3, <1>6, <2>1, <2>3
<1>7. CASE /\ ~(match # {} /\ Used(orphans[o].wins) # {})
           /\ clients' = [clients EXCEPT ![cur].hello = TRUE, ![cur].token = assign_token]
           /\ orphans' = [k \in Slots |-> IF k \in match THEN NoOrphan ELSE orphans[k]]
  <2>1. clients' = [clients EXCEPT ![cur] = q]
    BY <1>1, <1>7 DEF Base, Typed, TableTyped
  <2>2. q.fd = clients[cur].fd /\ q.hello /\ q.token = next_token + 1 /\ q.wins = clients[cur].wins
    <3> DEFINE t == next_token + 1
               c == clients[cur]
    <3>1. c \in ClientRec
      BY <1>1 DEF Base, Typed, TableTyped
    <3>2. q = [c EXCEPT !.hello = TRUE, !.token = t]
      BY DEF assign_token
    <3> HIDE DEF t, c, q
    <3>3. q.fd = c.fd /\ q.hello = TRUE /\ q.token = t /\ q.wins = c.wins
      BY <3>1, <3>2 DEF ClientRec
    <3> QED
      BY <3>3 DEF t, c
  <2> HIDE DEF q
  <2>3. clients'[cur] = q /\ \A k \in Slots : k # cur => clients'[k] = clients[k]
    BY <1>1, <2>1 DEF Base, Typed, TableTyped
  <2>4. \A p \in Slots : \/ orphans'[p] = orphans[p]
                         \/ orphans'[p] = NoOrphan /\ Used(orphans[p].wins) = {}
    BY <1>4, <1>7
  <2>5. Greeted
    BY <2>2, <2>3, <2>4 DEF Greeted
  <2> QED
    BY <1>1, <2>3, <2>5
<1> QED
  BY <1>2, <1>6, <1>7

LEMMA HelloTokens == ASSUME Base, TokensUnique, DispatchHello PROVE TokensUnique'
<1>1. /\ cur \in Slots /\ clients[cur].fd # NoConn /\ ~clients[cur].hello
      /\ \A k \in Slots : k # cur => clients'[k] = clients[k]
      /\ Greeted \/ \E o \in Slots : Reclaimed(o)
  BY Greeting
<1>2. NoOrphan.token = 0 /\ Unheld(NoOrphan)
  BY NullSessions DEF NoOrphan
<1>3. \A k \in Slots : /\ clients[k].token <= next_token /\ orphans[k].token <= next_token
                       /\ clients[k].token \in Nat /\ orphans[k].token \in Nat
  BY DEF Base, Typed, TableTyped, ClientRec, OrphanRec
<1>4. CASE Greeted
  <2>1. Served' = Served
    BY <1>1, <1>4 DEF Served, Greeted
  <2>2. \A o \in Held' : o \in Held /\ orphans'[o] = orphans[o]
    BY <1>2, <1>4 DEF Held, Greeted
  <2>3. next_token + 1 # 0 /\ \A k \in Slots : /\ clients[k].token # next_token + 1
                                               /\ orphans[k].token # next_token + 1
    <3>1. next_token \in Nat
      BY DEF Base, Typed, TableTyped
    <3> QED
      BY <1>3, <3>1
  <2>4. \A j, k \in Served' : clients'[j].hello /\ clients'[j].token = clients'[k].token => j = k
    BY <1>1, <1>4, <2>1, <2>3 DEF Greeted, TokensUnique, Served
  <2>5. \A o, p \in Held' : orphans'[o].token = orphans'[p].token => o = p
    BY <2>2 DEF TokensUnique
  <2>6. \A k \in Served', o \in Held' : clients'[k].token # orphans'[o].token
    BY <1>1, <1>4, <2>1, <2>2, <2>3 DEF Greeted, TokensUnique, Served, Held
  <2>7. \A k \in Slots : clients'[k].hello <=> clients'[k].token # 0
    BY <1>1, <1>4, <2>3 DEF Greeted, TokensUnique
  <2>8. \A k \in Slots : ~clients'[k].hello => Used(clients'[k].wins) = {}
    BY <1>1, <1>4 DEF Greeted, TokensUnique
  <2>9. \A o \in Slots \ Held' : Used(orphans'[o].wins) = {}
    BY <1>2, <1>4 DEF Greeted, TokensUnique, Held, Unheld
  <2> QED
    BY <2>4, <2>5, <2>6, <2>7, <2>8, <2>9 DEF TokensUnique
<1>5. ASSUME NEW o \in Slots, Reclaimed(o)
      PROVE  TokensUnique'
  <2>1. /\ o \in Held /\ Held' = Held \ {o}
        /\ \A p \in Held' : orphans'[p] = orphans[p]
    BY <1>2, <1>5 DEF Held, Reclaimed
  <2>2. /\ clients'[cur].fd = clients[cur].fd /\ clients'[cur].hello
        /\ clients'[cur].token = orphans[o].token /\ orphans[o].token # 0
    BY <1>5 DEF Reclaimed
  <2>3. Served' = Served /\ cur \in Served
    BY <1>1, <2>2 DEF Served
  <2>4. \A j, k \in Served' : clients'[j].hello /\ clients'[j].token = clients'[k].token => j = k
    BY <1>1, <2>1, <2>2, <2>3 DEF TokensUnique, Served
  <2>5. \A p, q \in Held' : orphans'[p].token = orphans'[q].token => p = q
    BY <2>1 DEF TokensUnique
  <2>6. \A k \in Served', p \in Held' : clients'[k].token # orphans'[p].token
    BY <1>1, <2>1, <2>2, <2>3 DEF TokensUnique, Served, Held
  <2>7. \A k \in Slots : clients'[k].hello <=> clients'[k].token # 0
    BY <1>1, <2>2 DEF TokensUnique
  <2>8. \A k \in Slots : ~clients'[k].hello => Used(clients'[k].wins) = {}
    BY <1>1, <2>2 DEF TokensUnique
  <2>9. \A p \in Slots \ Held' : Used(orphans'[p].wins) = {}
    BY <1>2, <1>5, <2>1 DEF Reclaimed, TokensUnique, Held, Unheld
  <2> QED
    BY <2>4, <2>5, <2>6, <2>7, <2>8, <2>9 DEF TokensUnique
<1> QED
  BY <1>1, <1>4, <1>5

\* Steps that keep the client table.
Still == \/ Wake \/ InputFocus \/ TransportProcess \/ ExpireDone \/ HandleListen \/ AcceptDone
         \/ EventsDone \/ RecvEnd \/ transport_update_focus \/ Quit \/ Client \/ Halt
         \/ DispatchOther \/ on_set_geometry \/ on_set_cursor
         \/ (\E o \in Slots : GraceElapses(o)) \/ (\E m \in Screens : SetMode(m))
         \/ UNCHANGED vars

LEMMA StillTables ==
  ASSUME Base, Still
  PROVE  /\ UNCHANGED clients
         /\ \A o \in Slots : orphans'[o].token = orphans[o].token
                             /\ orphans'[o].wins = orphans[o].wins
         /\ mapped' = mapped
<1>1. ASSUME NEW o \in Slots, GraceElapses(o)
      PROVE  /\ UNCHANGED clients
             /\ \A p \in Slots : orphans'[p].token = orphans[p].token
                                 /\ orphans'[p].wins = orphans[p].wins
             /\ mapped' = mapped
  BY <1>1 DEF GraceElapses, scene, Base, Typed, TableTyped, OrphanRec
<1>2. ASSUME Wake \/ InputFocus \/ Client \/ UNCHANGED vars
      PROVE  UNCHANGED <<clients, orphans, mapped>>
  BY <1>2 DEF Wake, InputFocus, Poll, Client, ClientConnect, ClientClose, ClientStall,
              ClientSend, table, scene, vars
<1>3. ASSUME \/ TransportProcess \/ ExpireDone \/ HandleListen \/ AcceptDone \/ EventsDone
             \/ RecvEnd \/ transport_update_focus \/ Quit \/ Halt
      PROVE  UNCHANGED <<clients, orphans, mapped>>
  BY <1>3 DEF TransportProcess, ExpireDone, HandleListen, AcceptDone, EventsDone, RecvEnd,
              transport_update_focus, Quit, Halt, Goto, table, scene
<1>4. ASSUME \/ DispatchOther \/ on_set_geometry \/ on_set_cursor
             \/ \E m \in Screens : SetMode(m)
      PROVE  UNCHANGED <<clients, orphans, mapped>>
  BY <1>4 DEF DispatchOther, on_set_geometry, on_set_cursor, SetMode, table, scene
<1> QED
  BY <1>1, <1>2, <1>3, <1>4 DEF Still

\* Every step of the transport, as the proofs about the tables take them.
LEMMA Steps ==
  ASSUME [Next]_vars
  PROVE  \/ Still \/ Lose \/ ReapWindow \/ ReapDone
         \/ (\E c \in Conn : Accept(c) \/ client_readable(c))
         \/ (\E o \in Slots : orphan_destroy(o))
         \/ DispatchHello \/ on_create_window \/ on_commit \/ on_destroy_window
  BY DEF Next, ServerStep, Dispatch, Still, Lose

LEMMA NextTokens == ASSUME Base, TokensUnique, [Next]_vars PROVE TokensUnique'
<1>1. CASE Still
  <2>1. /\ UNCHANGED clients
        /\ \A o \in Slots : orphans'[o].token = orphans[o].token
                            /\ orphans'[o].wins = orphans[o].wins
    BY <1>1, StillTables
  <2> QED
    BY <2>1, SessionsEnd DEF SameSession, SameHeld
<1>2. CASE Lose
  <2>1. PICK k : Handling(k) /\ client_drop(k)
    BY <1>2, LosingDrops
  <2>2. k \in Slots /\ clients[k].fd # NoConn
    BY <2>1 DEF Handling
  <2>3. CASE UNCHANGED <<clients, orphans>>
    BY <2>3, SessionsEnd DEF SameSession, SameHeld
  <2> QED
    BY <2>1, <2>2, <2>3, ParkTokens DEF client_drop, Release
<1>3. CASE ReapWindow
  <2>1. PICK w \in Wid : clients' = [clients EXCEPT ![cur].wins[w] = NoWin]
    BY <1>3 DEF ReapWindow, Used
  <2>2. cur \in Slots /\ UNCHANGED <<orphans, next_token>> /\ focused_server_id' \in Nat
        /\ PutClient(cur, w, NoWin)
    BY <1>3, <2>1, NullsTyped DEF Base, Typed, TableTyped, Pending, ReapWindow, PutClient
  <2>3. /\ \A j \in Slots : j # cur => clients'[j] = clients[j]
        /\ clients'[cur].fd = clients[cur].fd /\ clients'[cur].hello = clients[cur].hello
        /\ clients'[cur].token = clients[cur].token
        /\ clients'[cur].wins[w] = NoWin
        /\ \A x \in Wid : x # w => clients'[cur].wins[x] = clients[cur].wins[x]
    BY <2>2, ClientEntry
  <2>4. Used(clients'[cur].wins) \subseteq Used(clients[cur].wins)
    BY <2>3 DEF Used, NoWin
  <2> QED
    BY <2>2, <2>3, <2>4, SessionsEnd DEF SameSession, SameHeld
<1>4. CASE ReapDone
  <2>1. cur \in Slots /\ clients' = [clients EXCEPT ![cur] = NoClient] /\ UNCHANGED orphans
    BY <1>4 DEF Base, Pending, ReapDone, Release
  <2>2. clients'[cur] = NoClient /\ \A j \in Slots : j # cur => clients'[j] = clients[j]
    BY <2>1 DEF Base, Typed, TableTyped
  <2> QED
    BY <2>1, <2>2, NullSessions, SessionsEnd DEF SameSession, SameHeld
<1>5. ASSUME NEW c \in Conn, Accept(c)
      PROVE  TokensUnique'
  <2> DEFINE new == [NoClient EXCEPT !.fd = c]
             f   == Min({k \in Slots : clients[k].fd = NoConn})
  <2>1. CASE UNCHANGED clients
    BY <1>5, <2>1, SessionsEnd DEF Accept, SameSession, SameHeld
  <2>2. CASE {k \in Slots : clients[k].fd = NoConn} # {} /\ clients' = [clients EXCEPT ![f] = new]
    <3>1. f \in Slots
      BY <2>2, FirstSlot
    <3> HIDE DEF f, new
    <3>2. clients'[f] = new /\ \A j \in Slots : j # f => clients'[j] = clients[j]
      BY <2>2, <3>1 DEF Base, Typed, TableTyped
    <3>3. NoSession(new)
      BY NullSessions DEF new
    <3> QED
      BY <1>5, <3>2, <3>3, SessionsEnd DEF Accept, SameSession, SameHeld
  <2> QED
    BY <1>5, <2>1, <2>2 DEF Accept
<1>6. ASSUME NEW c \in Conn, client_readable(c)
      PROVE  TokensUnique'
  BY <1>6, SessionsEnd DEF client_readable, table, SameSession, SameHeld
<1>7. ASSUME NEW o \in Slots, orphan_destroy(o)
      PROVE  TokensUnique'
  <2>1. UNCHANGED <<clients, next_token, focused_server_id>> /\ TableTyped /\ NoWin \in Entry
    BY <1>7, NullsTyped DEF orphan_destroy, Base, Typed
  <2>2. CASE orphans' = [orphans EXCEPT ![o] = NoOrphan]
    <3>1. orphans'[o] = NoOrphan /\ \A p \in Slots : p # o => orphans'[p] = orphans[p]
      BY <2>2 DEF Base, Typed, TableTyped
    <3> QED
      BY <2>1, <3>1, NullSessions, SessionsEnd DEF SameSession, SameHeld
  <2>3. ASSUME NEW w \in Wid, orphans' = [orphans EXCEPT ![o].wins[w] = NoWin]
        PROVE  TokensUnique'
    <3>1. PutOrphan(o, w, NoWin)
      BY <2>1, <2>3 DEF PutOrphan
    <3>2. /\ \A p \in Slots : p # o => orphans'[p] = orphans[p]
          /\ orphans'[o].token = orphans[o].token
          /\ orphans'[o].wins[w] = NoWin
          /\ \A x \in Wid : x # w => orphans'[o].wins[x] = orphans[o].wins[x]
      BY <3>1, OrphanEntry
    <3>3. Used(orphans'[o].wins) \subseteq Used(orphans[o].wins)
      BY <3>2 DEF Used, NoWin
    <3> QED
      BY <2>1, <3>2, <3>3, SessionsEnd DEF SameSession, SameHeld
  <2> QED
    BY <1>7, <2>2, <2>3 DEF orphan_destroy, Used
<1>8. ASSUME on_create_window \/ on_commit \/ on_destroy_window
      PROVE  TokensUnique'
  <2>1. cur \in Slots /\ clients[cur].hello /\ Msg.wid \in Wid \cup {ZeroWid}
    BY <1>8, Receiving, MessageForms DEF on_create_window, on_commit, on_destroy_window
  <2>2. UNCHANGED <<orphans, next_token>>
    BY <1>8 DEF on_create_window, on_commit, on_destroy_window
  <2>3. CASE clients' = clients
    BY <2>2, <2>3, SessionsEnd DEF SameSession, SameHeld
  <2>4. ASSUME NEW e \in Entry, Msg.wid \in Wid, clients' = [clients EXCEPT ![cur].wins[Msg.wid] = e]
        PROVE  TokensUnique'
    <3>1. focused_server_id' \in Nat
      BY <1>8, NextBase DEF Next, ServerStep, Dispatch, Base, Typed, TableTyped
    <3>2. /\ \A j \in Slots : j # cur => clients'[j] = clients[j]
          /\ clients'[cur].fd = clients[cur].fd /\ clients'[cur].hello = clients[cur].hello
          /\ clients'[cur].token = clients[cur].token
      BY <2>1, <2>2, <2>4, <3>1, ClientEntry DEF Base, Typed, PutClient
    <3> QED
      BY <2>1, <2>2, <3>2, SessionsEnd DEF SameSession, SameHeld
  <2>5. CASE on_create_window
    <3>1. [server_id |-> stack.next_id, buf |-> 0] \in Entry
      BY DEF Base, Typed, SceneTyped, Sound, Stack, Entry
    <3> QED
      BY <2>3, <2>4, <2>5, <3>1, Creating DEF Created
  <2>6. CASE on_commit
    <3>1. Msg.wid \in Wid /\ clients[cur].wins[Msg.wid] \in Entry
      BY <2>1, <2>6, Committing DEF Base, Typed, TableTyped, ClientRec
    <3>2. ASSUME NEW fresh, Committed(clients[cur].wins[Msg.wid], fresh)
          PROVE  TokensUnique'
      <4>1. [server_id |-> clients[cur].wins[Msg.wid].server_id, buf |-> fresh] \in Entry
        BY <3>1, <3>2 DEF Committed, Entry
      <4> QED
        BY <2>4, <3>1, <3>2, <4>1 DEF Committed
    <3> QED
      BY <2>3, <2>6, <3>2, Committing
  <2>7. CASE on_destroy_window
    <3>1. Msg.wid \in Wid
      BY <2>7, Receiving, MessageForms DEF on_destroy_window
    <3> QED
      BY <2>3, <2>4, <2>7, <3>1, NullsTyped DEF on_destroy_window
  <2> QED
    BY <1>8, <2>5, <2>6, <2>7
<1> QED
  BY <1>1, <1>2, <1>3, <1>4, <1>5, <1>6, <1>7, <1>8, Steps, HelloTokens

LEMMA InitTokens == Init => TokensUnique
  BY NullSessions DEF Init, TokensUnique, Served, Held, NoSession, Unheld, NoClient, NoOrphan

\* A reconnect token names one session at any moment: no two live clients and held
\* orphans share one, whatever clients present in CL_HELLO and whoever crashes when.
THEOREM OneSessionPerToken == Spec => []TokensUnique
<1>1. Base /\ TokensUnique /\ [Next]_vars => TokensUnique'
  BY NextTokens
<1> QED
  BY <1>1, InitTokens, BaseHolds, PTL DEF Spec

----------------------------------------------------------------------------
(* Windows, entries and buffers.                                           *)

\* Every entry in use names a window on screen that shows its buffer, no two name the
\* same window, a window no entry names (created under the id 0) shows nothing, and
\* the mappings are what the windows show, each shown once.
Shown == \A e \in InUse : \E v \in Contents(stack) :
  v.id = EntryAt(e).server_id /\ v.buf = EntryAt(e).buf
Apart == \A e, f \in InUse : EntryAt(e).server_id = EntryAt(f).server_id => e = f
OwnedOrBare == \A v \in Contents(stack) :
  \/ \E e \in InUse : EntryAt(e).server_id = v.id
  \/ v.buf = 0 /\ ZeroWid \in CreateWids
MappedIsShown == mapped = {v.buf : v \in Contents(stack)} \ {0}
BuffersApart == \A u, v \in Contents(stack) : u.buf = v.buf /\ u.buf # 0 => u = v

Owning == Shown /\ Apart /\ OwnedOrBare /\ MappedIsShown /\ BuffersApart

\* The entries of the two tables.
LEMMA EntryForms ==
  /\ \A k \in Slots, w \in Wid :
       /\ <<"client", k, w>> \in Entries /\ EntryAt(<<"client", k, w>>) = clients[k].wins[w]
       /\ <<"orphan", k, w>> \in Entries /\ EntryAt(<<"orphan", k, w>>) = orphans[k].wins[w]
  /\ \A e \in Entries : \E k \in Slots, w \in Wid :
       e = <<"client", k, w>> \/ e = <<"orphan", k, w>>
  BY DEF Entries, EntryAt

LEMMA EntryTyped == ASSUME TableTyped, NEW e \in Entries PROVE EntryAt(e) \in Entry
<1>1. PICK k \in Slots, w \in Wid : e = <<"client", k, w>> \/ e = <<"orphan", k, w>>
  BY EntryForms
<1>2. clients[k].wins[w] \in Entry /\ orphans[k].wins[w] \in Entry
  BY DEF TableTyped, ClientRec, OrphanRec
<1> QED
  BY <1>1, <1>2, EntryForms

\* The windows keep their ids and buffers.
SameWindows(s, t) ==
  /\ \A v \in Contents(s) : \E u \in Contents(t) : u.id = v.id /\ u.buf = v.buf
  /\ \A u \in Contents(t) : \E v \in Contents(s) : u.id = v.id /\ u.buf = v.buf

\* Entries change their place, the windows stay.
LEMMA Rehoused ==
  ASSUME Owning, Sound(stack), Sound(stack'), SameWindows(stack, stack'), mapped' = mapped,
         NEW g, \A e \in InUse' : g[e] \in InUse /\ EntryAt(e)' = EntryAt(g[e]),
         \A e, f \in InUse' : g[e] = g[f] => e = f,
         \A f \in InUse : \E e \in InUse' : g[e] = f
  PROVE  Owning'
<1>1. \A u, v \in Contents(stack') : u.id = v.id => u = v
  BY ContentsDecide
<1>2. \A u, v \in Contents(stack) : u.id = v.id => u = v
  BY ContentsDecide
<1>3. Shown'
  BY DEF Owning, Shown, SameWindows
<1>4. Apart'
  BY DEF Owning, Apart
<1>5. OwnedOrBare'
  BY DEF Owning, OwnedOrBare, SameWindows
<1>6. {v.buf : v \in Contents(stack')} = {v.buf : v \in Contents(stack)}
  BY DEF SameWindows
<1>7. MappedIsShown'
  BY <1>6 DEF Owning, MappedIsShown
<1>8. BuffersApart'
  <2> SUFFICES ASSUME NEW u \in Contents(stack'), NEW v \in Contents(stack'),
                      u.buf = v.buf, u.buf # 0
               PROVE  u = v
    BY DEF BuffersApart
  <2>1. PICK x \in Contents(stack), y \in Contents(stack) :
          x.id = u.id /\ x.buf = u.buf /\ y.id = v.id /\ y.buf = v.buf
    BY DEF SameWindows
  <2>2. x = y
    BY <2>1 DEF Owning, BuffersApart
  <2> QED
    BY <1>1, <2>1, <2>2
<1> QED
  BY <1>3, <1>4, <1>5, <1>7, <1>8 DEF Owning

\* Nothing moves at all.
LEMMA SameEntries ==
  ASSUME Owning, Sound(stack), Sound(stack'), SameWindows(stack, stack'), mapped' = mapped,
         \A e \in Entries : \/ EntryAt(e)' = EntryAt(e)
                            \/ EntryAt(e).server_id = 0 /\ EntryAt(e)'.server_id = 0
  PROVE  Owning'
<1> DEFINE g == [e \in Entries |-> e]
<1>1. InUse' = InUse /\ InUse \subseteq Entries
  BY DEF InUse
<1>2. \A e \in InUse : g[e] = e /\ EntryAt(e)' = EntryAt(e)
  BY <1>1 DEF InUse
<1> HIDE DEF g
<1> QED
  BY <1>1, <1>2, Rehoused

\* A window is created, under an id of its client or under the id 0.
LEMMA EntryAdded ==
  ASSUME Owning, Sound(stack), Sound(stack'), mapped' = mapped,
         NEW v, v.id = stack.next_id, v.buf = 0, Contents(stack') = Contents(stack) \cup {v},
         NEW e0 \in Entries,
         \A e \in Entries : e # e0 => EntryAt(e)' = EntryAt(e),
         \/ ZeroWid \in CreateWids /\ EntryAt(e0)' = EntryAt(e0)
         \/ /\ EntryAt(e0).server_id = 0
            /\ EntryAt(e0)' = [server_id |-> stack.next_id, buf |-> 0]
  PROVE  Owning'
<1>1. stack.next_id \in Nat \ {0} /\ \A u \in Contents(stack) : u.id \in Nat /\ u.id < stack.next_id
  BY ContentsDecide DEF Sound, Stack, Window
<1>2. \A u \in Contents(stack) : u.id # stack.next_id
  BY <1>1
<1>3. \A e \in InUse : EntryAt(e).server_id # stack.next_id
  BY <1>2 DEF Owning, Shown
<1>4. MappedIsShown'
  <2>1. {u.buf : u \in Contents(stack')} \ {0} = {u.buf : u \in Contents(stack)} \ {0}
    OBVIOUS
  <2> QED
    BY <2>1 DEF Owning, MappedIsShown
<1>5. BuffersApart'
  BY DEF Owning, BuffersApart
<1>6. CASE ZeroWid \in CreateWids /\ EntryAt(e0)' = EntryAt(e0)
  <2>1. InUse' = InUse /\ \A e \in InUse : EntryAt(e)' = EntryAt(e)
    BY <1>6 DEF InUse
  <2>2. Shown' /\ Apart'
    BY <2>1 DEF Owning, Shown, Apart
  <2>3. OwnedOrBare'
    BY <1>6, <2>1 DEF Owning, OwnedOrBare
  <2> QED
    BY <1>4, <1>5, <2>2, <2>3 DEF Owning
<1>7. CASE /\ EntryAt(e0).server_id = 0
           /\ EntryAt(e0)' = [server_id |-> stack.next_id, buf |-> 0]
  <2>1. EntryAt(e0)'.server_id = stack.next_id /\ EntryAt(e0)'.buf = 0
    BY <1>7
  <2>2. InUse' = InUse \cup {e0} /\ \A e \in InUse : EntryAt(e)' = EntryAt(e)
    BY <1>1, <1>7, <2>1 DEF InUse
  <2>3. Shown'
    BY <2>1, <2>2 DEF Owning, Shown
  <2>4. Apart'
    BY <1>3, <2>1, <2>2 DEF Owning, Apart
  <2>5. OwnedOrBare'
    BY <2>1, <2>2 DEF Owning, OwnedOrBare
  <2> QED
    BY <1>4, <1>5, <2>3, <2>4, <2>5 DEF Owning
<1> QED
  BY <1>6, <1>7

\* The window of an entry in use, which alone shows the entry's buffer.
LEMMA ShownAlone ==
  ASSUME Owning, Sound(stack), NEW e \in InUse
  PROVE  \E v \in Contents(stack) :
           /\ v.id = EntryAt(e).server_id /\ v.buf = EntryAt(e).buf
           /\ \A u \in Contents(stack) : /\ u.id = v.id => u = v
                                         /\ u.buf = v.buf /\ u.buf # 0 => u = v
<1>1. PICK v \in Contents(stack) : v.id = EntryAt(e).server_id /\ v.buf = EntryAt(e).buf
  BY DEF Owning, Shown
<1>2. \A u \in Contents(stack) : u.id = v.id => u = v
  BY ContentsDecide
<1>3. \A u \in Contents(stack) : u.buf = v.buf /\ u.buf # 0 => u = v
  BY DEF Owning, BuffersApart
<1> QED
  BY <1>1, <1>2, <1>3

\* A window goes with its entry.
LEMMA EntryRemoved ==
  ASSUME Owning, Sound(stack), NEW e0 \in InUse,
         Contents(stack') = {v \in Contents(stack) : v.id # EntryAt(e0).server_id},
         mapped' = mapped \ {EntryAt(e0).buf},
         EntryAt(e0)' = NoWin,
         \A e \in Entries : e # e0 => EntryAt(e)' = EntryAt(e)
  PROVE  Owning'
<1>1. PICK v \in Contents(stack) :
        /\ v.id = EntryAt(e0).server_id /\ v.buf = EntryAt(e0).buf
        /\ \A u \in Contents(stack) : /\ u.id = v.id => u = v
                                      /\ u.buf = v.buf /\ u.buf # 0 => u = v
  BY ShownAlone
<1>2. Contents(stack') = Contents(stack) \ {v}
  BY <1>1
<1>3. InUse' = InUse \ {e0} /\ \A e \in InUse' : EntryAt(e)' = EntryAt(e)
  BY DEF InUse, NoWin
<1>4. \A e \in InUse' : EntryAt(e).server_id # v.id
  BY <1>1, <1>3 DEF Owning, Apart
<1>5. Shown'
  BY <1>2, <1>3, <1>4 DEF Owning, Shown
<1>6. Apart'
  BY <1>3 DEF Owning, Apart
<1>7. ASSUME NEW u \in Contents(stack')
      PROVE  \/ \E e \in InUse' : EntryAt(e).server_id = u.id
             \/ u.buf = 0 /\ ZeroWid \in CreateWids
  <2>1. u \in Contents(stack) /\ u.id # EntryAt(e0).server_id
    OBVIOUS
  <2>2. ASSUME NEW e \in InUse, EntryAt(e).server_id = u.id
        PROVE  e \in InUse'
    BY <1>3, <2>1, <2>2
  <2>3. \/ \E e \in InUse : EntryAt(e).server_id = u.id
        \/ u.buf = 0 /\ ZeroWid \in CreateWids
    BY <2>1 DEF Owning, OwnedOrBare
  <2> QED
    BY <2>2, <2>3
<1>8. OwnedOrBare'
  BY <1>3, <1>7 DEF OwnedOrBare
<1>9. MappedIsShown'
  <2>1. {u.buf : u \in Contents(stack')} \ {0}
          = ({u.buf : u \in Contents(stack)} \ {0}) \ {v.buf}
    BY <1>1, <1>2
  <2> QED
    BY <1>1, <2>1 DEF Owning, MappedIsShown
<1>10. BuffersApart'
  BY <1>2 DEF Owning, BuffersApart
<1> QED
  BY <1>5, <1>6, <1>8, <1>9, <1>10 DEF Owning

\* A window is given a buffer of its own.
LEMMA EntryRefilled ==
  ASSUME Owning, Sound(stack), NEW e0 \in InUse, NEW fresh, fresh # 0, fresh \notin mapped,
         NEW v, v.id = EntryAt(e0).server_id, v.buf = fresh,
         Contents(stack') = {z \in Contents(stack) : z.id # EntryAt(e0).server_id} \cup {v},
         mapped' = (mapped \cup {fresh}) \ {EntryAt(e0).buf},
         EntryAt(e0)' = [server_id |-> EntryAt(e0).server_id, buf |-> fresh],
         \A e \in Entries : e # e0 => EntryAt(e)' = EntryAt(e)
  PROVE  Owning'
<1>1. PICK x \in Contents(stack) :
        /\ x.id = EntryAt(e0).server_id /\ x.buf = EntryAt(e0).buf
        /\ \A u \in Contents(stack) : /\ u.id = x.id => u = x
                                      /\ u.buf = x.buf /\ u.buf # 0 => u = x
  BY ShownAlone
<1>2. Contents(stack') = (Contents(stack) \ {x}) \cup {v}
  BY <1>1
<1>3. EntryAt(e0)'.server_id = EntryAt(e0).server_id /\ EntryAt(e0)'.buf = fresh
  OBVIOUS
<1>4. /\ InUse' = InUse
      /\ \A e \in InUse : e # e0 => EntryAt(e)' = EntryAt(e)
      /\ \A e \in InUse : EntryAt(e)'.server_id = EntryAt(e).server_id
  BY <1>3 DEF InUse
<1>5. \A e \in InUse : e # e0 => EntryAt(e).server_id # x.id
  BY <1>1 DEF Owning, Apart
<1>6. Shown'
  BY <1>2, <1>3, <1>4, <1>5 DEF Owning, Shown
<1>7. Apart'
  BY <1>4 DEF Owning, Apart
<1>8. OwnedOrBare'
  BY <1>1, <1>2, <1>4 DEF Owning, OwnedOrBare
<1>9. fresh # x.buf
  BY <1>1 DEF Owning, MappedIsShown
<1>10. MappedIsShown'
  <2>1. {u.buf : u \in Contents(stack')} \ {0}
          = ((({u.buf : u \in Contents(stack)} \ {0}) \cup {fresh}) \ {x.buf})
    BY <1>1, <1>2, <1>9
  <2> QED
    BY <1>1, <2>1 DEF Owning, MappedIsShown
<1>11. BuffersApart'
  BY <1>2 DEF Owning, MappedIsShown, BuffersApart
<1> QED
  BY <1>6, <1>7, <1>8, <1>10, <1>11 DEF Owning

\* A step that changes one client entry changes that entry alone.
LEMMA OneClientEntry ==
  ASSUME TableTyped, NEW k \in Slots, NEW w \in Wid, NEW e \in Entry,
         clients' = [clients EXCEPT ![k].wins[w] = e], orphans' = orphans
  PROVE  LET e0 == <<"client", k, w>>
         IN  /\ e0 \in Entries /\ EntryAt(e0) = clients[k].wins[w] /\ EntryAt(e0)' = e
             /\ \A f \in Entries : f # e0 => EntryAt(f)' = EntryAt(f)
<1> DEFINE r  == [clients[k] EXCEPT !.wins[w] = e]
           e0 == <<"client", k, w>>
<1>1. clients[k] \in ClientRec
  BY DEF TableTyped
<1>2. r.wins[w] = e /\ \A x \in Wid : x # w => r.wins[x] = clients[k].wins[x]
  BY <1>1 DEF ClientRec
<1>3. clients' = [clients EXCEPT ![k] = r]
  OBVIOUS
<1> HIDE DEF r
<1>4. clients'[k] = r /\ \A j \in Slots : j # k => clients'[j] = clients[j]
  BY <1>3 DEF TableTyped
<1>5. e0 \in Entries /\ EntryAt(e0) = clients[k].wins[w] /\ EntryAt(e0)' = clients'[k].wins[w]
  BY EntryForms DEF EntryAt
<1>6. ASSUME NEW f \in Entries, f # e0
      PROVE  EntryAt(f)' = EntryAt(f)
  <2>1. PICK j \in Slots, x \in Wid : f = <<"client", j, x>> \/ f = <<"orphan", j, x>>
    BY EntryForms
  <2>2. CASE f = <<"orphan", j, x>>
    BY <2>2 DEF EntryAt
  <2>3. CASE f = <<"client", j, x>>
    <3>1. j # k \/ x # w
      BY <1>6, <2>3
    <3>2. EntryAt(f) = clients[j].wins[x] /\ EntryAt(f)' = clients'[j].wins[x]
      BY <2>3 DEF EntryAt
    <3> QED
      BY <1>2, <1>4, <3>1, <3>2
  <2> QED
    BY <2>1, <2>2, <2>3
<1> QED
  BY <1>2, <1>4, <1>5, <1>6

\* The same of an orphan entry.
LEMMA OneOrphanEntry ==
  ASSUME TableTyped, NEW o \in Slots, NEW w \in Wid, NEW e \in Entry,
         orphans' = [orphans EXCEPT ![o].wins[w] = e], clients' = clients
  PROVE  LET e0 == <<"orphan", o, w>>
         IN  /\ e0 \in Entries /\ EntryAt(e0) = orphans[o].wins[w] /\ EntryAt(e0)' = e
             /\ \A f \in Entries : f # e0 => EntryAt(f)' = EntryAt(f)
<1> DEFINE r  == [orphans[o] EXCEPT !.wins[w] = e]
           e0 == <<"orphan", o, w>>
<1>1. orphans[o] \in OrphanRec
  BY DEF TableTyped
<1>2. r.wins[w] = e /\ \A x \in Wid : x # w => r.wins[x] = orphans[o].wins[x]
  BY <1>1 DEF OrphanRec
<1>3. orphans' = [orphans EXCEPT ![o] = r]
  OBVIOUS
<1> HIDE DEF r
<1>4. orphans'[o] = r /\ \A j \in Slots : j # o => orphans'[j] = orphans[j]
  BY <1>3 DEF TableTyped
<1>5. e0 \in Entries /\ EntryAt(e0) = orphans[o].wins[w] /\ EntryAt(e0)' = orphans'[o].wins[w]
  BY EntryForms DEF EntryAt
<1>6. ASSUME NEW f \in Entries, f # e0
      PROVE  EntryAt(f)' = EntryAt(f)
  <2>1. PICK j \in Slots, x \in Wid : f = <<"client", j, x>> \/ f = <<"orphan", j, x>>
    BY EntryForms
  <2>2. CASE f = <<"client", j, x>>
    BY <2>2 DEF EntryAt
  <2>3. CASE f = <<"orphan", j, x>>
    <3>1. j # o \/ x # w
      BY <1>6, <2>3
    <3>2. EntryAt(f) = orphans[j].wins[x] /\ EntryAt(f)' = orphans'[j].wins[x]
      BY <2>3 DEF EntryAt
    <3> QED
      BY <1>2, <1>4, <3>1, <3>2
  <2> QED
    BY <2>1, <2>2, <2>3
<1> QED
  BY <1>2, <1>4, <1>5, <1>6

\* Client slots that had no windows may be opened or closed, orphans without windows
\* dropped.
LEMMA OwningKept ==
  ASSUME Owning, Sound(stack), Sound(stack'), SameWindows(stack, stack'), mapped' = mapped,
         \A k \in Slots : \/ clients'[k].wins = clients[k].wins
                          \/ Used(clients[k].wins) = {} /\ Used(clients'[k].wins) = {},
         \A o \in Slots : \/ orphans'[o].wins = orphans[o].wins
                          \/ Used(orphans[o].wins) = {} /\ Used(orphans'[o].wins) = {}
  PROVE  Owning'
<1>1. ASSUME NEW e \in Entries
      PROVE  \/ EntryAt(e)' = EntryAt(e)
             \/ EntryAt(e).server_id = 0 /\ EntryAt(e)'.server_id = 0
  <2>1. PICK k \in Slots, w \in Wid : e = <<"client", k, w>> \/ e = <<"orphan", k, w>>
    BY EntryForms
  <2>2. CASE e = <<"client", k, w>>
    BY <2>2 DEF EntryAt, Used
  <2>3. CASE e = <<"orphan", k, w>>
    BY <2>3 DEF EntryAt, Used
  <2> QED
    BY <2>1, <2>2, <2>3
<1> QED
  BY <1>1, SameEntries

LEMMA SameWindowsSame == \A s : SameWindows(s, s)
  BY DEF SameWindows

\* The windows of a slot of either table.
WinsAt(side, k) == IF side = "client" THEN clients[k].wins ELSE orphans[k].wins
Side == {"client", "orphan"}

LEMMA EntryOfSide ==
  /\ \A a \in Side, k \in Slots, w \in Wid :
       <<a, k, w>> \in Entries /\ EntryAt(<<a, k, w>>) = WinsAt(a, k)[w]
  /\ \A e \in Entries : \E a \in Side, k \in Slots, w \in Wid : e = <<a, k, w>>
  BY DEF Entries, EntryAt, Side, WinsAt

\* Windows pass from one slot to an empty one, in whichever tables, and the first ends
\* empty.
LEMMA OwningMoved ==
  ASSUME Owning, Sound(stack), UNCHANGED <<stack, mapped>>,
         NEW a \in Side, NEW k \in Slots, NEW b \in Side, NEW f \in Slots, <<a, k>> # <<b, f>>,
         Used(WinsAt(b, f)) = {}, WinsAt(b, f)' = WinsAt(a, k), Used(WinsAt(a, k)') = {},
         \A s \in Side, j \in Slots : <<s, j>> \notin {<<a, k>>, <<b, f>>} =>
            WinsAt(s, j)' = WinsAt(s, j)
  PROVE  Owning'
<1> DEFINE from(e) == IF e[1] = b /\ e[2] = f THEN <<a, k, e[3]>> ELSE e
           g == [e \in Entries |-> from(e)]
<1>1. \A s \in Side, j \in Slots, w \in Wid :
        /\ <<s, j, w>> \in Entries
        /\ EntryAt(<<s, j, w>>) = WinsAt(s, j)[w]
        /\ EntryAt(<<s, j, w>>)' = WinsAt(s, j)'[w]
        /\ g[<<s, j, w>>] = IF s = b /\ j = f THEN <<a, k, w>> ELSE <<s, j, w>>
  BY EntryOfSide DEF EntryAt, WinsAt, Side
<1> HIDE DEF g
<1>2. ASSUME NEW s \in Side, NEW j \in Slots, NEW w \in Wid, <<s, j, w>> \in InUse'
      PROVE  /\ g[<<s, j, w>>] \in InUse /\ EntryAt(<<s, j, w>>)' = EntryAt(g[<<s, j, w>>])
             /\ ~(s = a /\ j = k)
  <2>1. WinsAt(s, j)'[w].server_id # 0
    BY <1>1, <1>2 DEF InUse
  <2>2. ~(s = a /\ j = k)
    BY <2>1 DEF Used
  <2>3. CASE s = b /\ j = f
    <3>1. g[<<s, j, w>>] = <<a, k, w>> /\ WinsAt(s, j)' = WinsAt(a, k)
      BY <1>1, <2>3
    <3>2. <<a, k, w>> \in Entries /\ EntryAt(<<a, k, w>>) = WinsAt(a, k)[w]
      BY <1>1
    <3> QED
      BY <1>1, <2>1, <2>2, <3>1, <3>2 DEF InUse
  <2>4. CASE ~(s = b /\ j = f)
    <3>1. g[<<s, j, w>>] = <<s, j, w>> /\ WinsAt(s, j)' = WinsAt(s, j)
      BY <1>1, <2>2, <2>4
    <3>2. EntryAt(<<s, j, w>>)' = WinsAt(s, j)'[w]
      BY <1>1
    <3>3. <<s, j, w>> \in Entries /\ EntryAt(<<s, j, w>>) = WinsAt(s, j)[w]
      BY <1>1
    <3>4. <<s, j, w>> \in InUse
      BY <2>1, <3>1, <3>3 DEF InUse
    <3>5. EntryAt(<<s, j, w>>)' = EntryAt(<<s, j, w>>)
      BY <3>1, <3>2, <3>3
    <3> QED
      BY <2>2, <3>1, <3>4, <3>5
  <2> QED
    BY <2>3, <2>4
<1>3. ASSUME NEW e \in InUse'
      PROVE  g[e] \in InUse /\ EntryAt(e)' = EntryAt(g[e])
  <2>1. PICK s \in Side, j \in Slots, w \in Wid : e = <<s, j, w>>
    BY EntryOfSide DEF InUse
  <2> QED
    BY <1>2, <2>1
<1>4. ASSUME NEW e \in InUse', NEW d \in InUse', g[e] = g[d]
      PROVE  e = d
  <2>1. PICK s \in Side, j \in Slots, w \in Wid : e = <<s, j, w>>
    BY EntryOfSide DEF InUse
  <2>2. PICK t \in Side, i \in Slots, x \in Wid : d = <<t, i, x>>
    BY EntryOfSide DEF InUse
  <2>3. ~(s = a /\ j = k) /\ ~(t = a /\ i = k)
    BY <1>2, <2>1, <2>2
  <2>4. /\ g[e] = IF s = b /\ j = f THEN <<a, k, w>> ELSE <<s, j, w>>
        /\ g[d] = IF t = b /\ i = f THEN <<a, k, x>> ELSE <<t, i, x>>
    BY <1>1, <2>1, <2>2
  <2>5. CASE (s = b /\ j = f) /\ (t = b /\ i = f)
    BY <1>4, <2>1, <2>2, <2>4, <2>5
  <2>6. CASE (s = b /\ j = f) /\ ~(t = b /\ i = f)
    <3>1. <<a, k, w>> = <<t, i, x>>
      BY <1>4, <2>4, <2>6
    <3> QED
      BY <2>3, <3>1
  <2>7. CASE ~(s = b /\ j = f) /\ (t = b /\ i = f)
    <3>1. <<s, j, w>> = <<a, k, x>>
      BY <1>4, <2>4, <2>7
    <3> QED
      BY <2>3, <3>1
  <2>8. CASE ~(s = b /\ j = f) /\ ~(t = b /\ i = f)
    BY <1>4, <2>1, <2>2, <2>4, <2>8
  <2> QED
    BY <2>5, <2>6, <2>7, <2>8
<1>5. ASSUME NEW d \in InUse
      PROVE  \E e \in InUse' : g[e] = d
  <2>1. PICK s \in Side, j \in Slots, w \in Wid : d = <<s, j, w>>
    BY EntryOfSide DEF InUse
  <2>2. WinsAt(s, j)[w].server_id # 0
    BY <1>1, <2>1 DEF InUse
  <2>3. ~(s = b /\ j = f)
    BY <2>2 DEF Used
  <2>4. CASE s = a /\ j = k
    <3>1. /\ <<b, f, w>> \in Entries /\ EntryAt(<<b, f, w>>)' = WinsAt(b, f)'[w]
          /\ g[<<b, f, w>>] = <<a, k, w>>
      BY <1>1
    <3>2. d = <<a, k, w>> /\ WinsAt(s, j) = WinsAt(a, k)
      BY <2>1, <2>4
    <3>3. EntryAt(<<b, f, w>>)'.server_id # 0
      BY <2>2, <3>1, <3>2
    <3>4. <<b, f, w>> \in InUse'
      BY <3>1, <3>3 DEF InUse
    <3> QED
      BY <3>1, <3>2, <3>4
  <2>5. CASE ~(s = a /\ j = k)
    <3>1. WinsAt(s, j)' = WinsAt(s, j)
      BY <2>3, <2>5
    <3>2. g[d] = d /\ d \in Entries
      BY <1>1, <2>1, <2>3
    <3>3. EntryAt(<<s, j, w>>)' = WinsAt(s, j)'[w]
      BY <1>1
    <3>4. EntryAt(d)' = WinsAt(s, j)[w]
      BY <2>1, <3>1, <3>3
    <3> QED
      BY <2>2, <3>2, <3>4 DEF InUse
  <2> QED
    BY <2>4, <2>5
<1> QED
  BY <1>3, <1>4, <1>5, Rehoused, SameWindowsSame

\* Steps that keep the tables keep the windows, but for their place and order.
LEMMA StillWindows == ASSUME Base, Still PROVE SameWindows(stack, stack')
<1> USE SameWindowsSame
<1>1. Sound(stack)
  BY DEF Base, Typed, SceneTyped
<1>2. ASSUME \/ Wake \/ TransportProcess \/ ExpireDone \/ HandleListen \/ AcceptDone
             \/ EventsDone \/ RecvEnd \/ transport_update_focus \/ Quit \/ Client \/ Halt
             \/ DispatchOther \/ on_set_cursor \/ (\E o \in Slots : GraceElapses(o))
             \/ UNCHANGED vars
      PROVE  stack' = stack
  BY <1>2 DEF Wake, Poll, TransportProcess, ExpireDone, HandleListen, AcceptDone, EventsDone,
              RecvEnd, transport_update_focus, Quit, Client, ClientConnect, ClientClose,
              ClientStall, ClientSend, Halt, DispatchOther, on_set_cursor, GraceElapses, Goto,
              vars, scene
<1>3. CASE InputFocus
  <2>1. PICK id : stack' = window_focus(stack, id)
    BY <1>3 DEF InputFocus, Poll
  <2> QED
    BY <1>1, <2>1, FocusContents DEF SameWindows
<1>4. CASE on_set_geometry
  <2> DEFINE id == clients[cur].wins[Msg.wid].server_id
             r  == Msg.rect
  <2>1. r \in Rect
    BY <1>4, Receiving, MessageForms DEF on_set_geometry
  <2>2. CASE stack' = stack
    BY <2>2
  <2>3. CASE Exists(stack, id) /\ stack' = window_set_geometry(stack, id, r)
    <3> HIDE DEF id, r
    <3>1. PICK v \in Window :
            /\ v.id = id /\ v.buf = window_by_id(stack, id).buf
            /\ Contents(stack') = {z \in Contents(stack) : z.id # id} \cup {v}
      BY <1>1, <2>1, <2>3, MoveWindow
    <3>2. window_by_id(stack, id) \in Contents(stack) /\ window_by_id(stack, id).id = id
      BY <1>1, <2>3, ContentsDecide
    <3>3. \A z \in Contents(stack) : z.id = id => z = window_by_id(stack, id)
      BY <1>1, ContentsDecide
    <3> QED
      BY <3>1, <3>2, <3>3 DEF SameWindows
  <2> QED
    BY <1>4, <2>2, <2>3 DEF on_set_geometry, Movable
<1>5. ASSUME NEW m \in Screens, SetMode(m)
      PROVE  SameWindows(stack, stack')
  <2>1. /\ Contents(stack') = {Refitted(w, m) : w \in Contents(stack)}
        /\ \A w \in Contents(stack) : Refitted(w, m).id = w.id /\ Refitted(w, m).buf = w.buf
    BY <1>1, <1>5, Refitting
  <2>2. ASSUME NEW v \in Contents(stack)
        PROVE  \E u \in Contents(stack') : u.id = v.id /\ u.buf = v.buf
    <3>1. Refitted(v, m) \in Contents(stack')
      BY <2>1
    <3> QED
      BY <2>1, <3>1
  <2>3. ASSUME NEW u \in Contents(stack')
        PROVE  \E v \in Contents(stack) : u.id = v.id /\ u.buf = v.buf
    <3>1. PICK v \in Contents(stack) : u = Refitted(v, m)
      BY <2>1
    <3> QED
      BY <2>1, <3>1
  <2> QED
    BY <2>2, <2>3 DEF SameWindows
<1> QED
  BY <1>2, <1>3, <1>4, <1>5 DEF Still

LEMMA LoseOwning ==
  ASSUME Base, TokensUnique, Owning, Lose
  PROVE  Owning'
<1>1. PICK k : Handling(k) /\ client_drop(k)
  BY LosingDrops
<1>2. /\ k \in Slots /\ UNCHANGED <<stack, mapped>> /\ Sound(stack)
  BY <1>1, LosingDrops DEF Handling, scene, Base, Typed, SceneTyped
<1>3. CASE UNCHANGED <<clients, orphans>>
  BY <1>2, <1>3, SameWindowsSame, OwningKept
<1>4. CASE /\ Parks(k) /\ clients' = [clients EXCEPT ![k] = NoClient]
           /\ orphans' = [orphans EXCEPT ![Min(FreeOrphans)] =
                [token |-> clients[k].token, due |-> FALSE, wins |-> clients[k].wins]]
  <2> DEFINE r == [token |-> clients[k].token, due |-> FALSE, wins |-> clients[k].wins]
  <2>1. PICK f \in Slots : f = Min(FreeOrphans) /\ orphans[f].token = 0
    <3>1. FreeOrphans # {} /\ FreeOrphans \subseteq Slots
      BY <1>4 DEF Parks, FreeOrphans
    <3>2. Min(FreeOrphans) \in FreeOrphans
      BY <3>1, FirstSlot
    <3> QED
      BY <3>1, <3>2 DEF FreeOrphans
  <2>2. orphans' = [orphans EXCEPT ![f] = r] /\ r.wins = clients[k].wins
    BY <1>4, <2>1
  <2> HIDE DEF r
  <2>3. /\ clients'[k] = NoClient /\ \A j \in Slots : j # k => clients'[j] = clients[j]
        /\ orphans'[f] = r /\ \A o \in Slots : o # f => orphans'[o] = orphans[o]
    BY <1>2, <1>4, <2>1, <2>2 DEF Base, Typed, TableTyped
  <2>4. Used(orphans[f].wins) = {}
    BY <2>1 DEF TokensUnique, Held
  <2>5. Used(NoClient.wins) = {}
    BY NullSessions DEF NoSession
  <2> DEFINE a == "client"
             b == "orphan"
  <2>6. a \in Side /\ b \in Side /\ <<a, k>> # <<b, f>>
    BY DEF Side
  <2>7. /\ Used(WinsAt(b, f)) = {} /\ WinsAt(b, f)' = WinsAt(a, k)
        /\ Used(WinsAt(a, k)') = {}
    BY <2>2, <2>3, <2>4, <2>5 DEF WinsAt
  <2>8. \A s \in Side, j \in Slots : <<s, j>> \notin {<<a, k>>, <<b, f>>} =>
           WinsAt(s, j)' = WinsAt(s, j)
    BY <2>3 DEF WinsAt, Side
  <2> HIDE DEF a, b
  <2> QED
    BY <1>2, <2>1, <2>6, <2>7, <2>8, OwningMoved
<1> QED
  BY <1>1, <1>3, <1>4 DEF client_drop, Release

LEMMA ReapOwning ==
  ASSUME Base, Owning, ReapWindow \/ ReapDone
  PROVE  Owning'
<1>1. Sound(stack) /\ TableTyped
  BY DEF Base, Typed, SceneTyped
<1> PICK k \in Slots : k = cur
  BY DEF Base, Pending, ReapWindow, ReapDone
<1>2. CASE ReapWindow
  <2>1. PICK w \in Used(clients[k].wins) :
          /\ TakenOff(clients[k].wins[w])
          /\ clients' = [clients EXCEPT ![k].wins[w] = NoWin]
    BY <1>2 DEF ReapWindow, TakenOff
  <2> DEFINE e0 == <<"client", k, w>>
             e  == clients[k].wins[w]
  <2>2. w \in Wid /\ e \in Entry /\ e.server_id # 0 /\ orphans' = orphans
    BY <1>1, <1>2, <2>1 DEF TableTyped, ClientRec, Used, ReapWindow
  <2>3. /\ e0 \in Entries /\ EntryAt(e0) = e /\ EntryAt(e0)' = NoWin
        /\ \A f \in Entries : f # e0 => EntryAt(f)' = EntryAt(f)
    BY <1>1, <2>1, <2>2, NullsTyped, OneClientEntry
  <2>4. mapped' = mapped \ {e.buf} /\ Contents(stack') = {v \in Contents(stack) : v.id # e.server_id}
    BY <1>1, <2>1, <2>2, TakeDown DEF TakenOff
  <2> HIDE DEF e, e0
  <2>5. e0 \in InUse
    BY <2>2, <2>3 DEF InUse
  <2> QED
    BY <1>1, <2>3, <2>4, <2>5, EntryRemoved
<1>3. CASE ReapDone
  <2>1. /\ clients' = [clients EXCEPT ![k] = NoClient] /\ Used(clients[k].wins) = {}
        /\ UNCHANGED <<orphans, stack, mapped>>
    BY <1>3 DEF ReapDone, Release, scene
  <2>2. clients'[k] = NoClient /\ \A j \in Slots : j # k => clients'[j] = clients[j]
    BY <1>1, <2>1 DEF TableTyped
  <2>3. Used(NoClient.wins) = {}
    BY NullSessions DEF NoSession
  <2> QED
    BY <1>1, <2>1, <2>2, <2>3, SameWindowsSame, OwningKept
<1> QED
  BY <1>2, <1>3

LEMMA OrphanOwning ==
  ASSUME Base, Owning, NEW o \in Slots, orphan_destroy(o)
  PROVE  Owning'
<1>1. Sound(stack) /\ TableTyped /\ clients' = clients
  BY DEF Base, Typed, SceneTyped, orphan_destroy
<1>2. ASSUME NEW w \in Used(orphans[o].wins), TakenOff(orphans[o].wins[w]),
             orphans' = [orphans EXCEPT ![o].wins[w] = NoWin]
      PROVE  Owning'
  <2> DEFINE e0 == <<"orphan", o, w>>
             e  == orphans[o].wins[w]
  <2>1. w \in Wid /\ e \in Entry /\ e.server_id # 0
    BY <1>1, <1>2 DEF TableTyped, OrphanRec, Used
  <2>2. /\ e0 \in Entries /\ EntryAt(e0) = e /\ EntryAt(e0)' = NoWin
        /\ \A f \in Entries : f # e0 => EntryAt(f)' = EntryAt(f)
    BY <1>1, <1>2, <2>1, NullsTyped, OneOrphanEntry
  <2>3. mapped' = mapped \ {e.buf} /\ Contents(stack') = {v \in Contents(stack) : v.id # e.server_id}
    BY <1>1, <1>2, <2>1, TakeDown DEF TakenOff
  <2> HIDE DEF e, e0
  <2>4. e0 \in InUse
    BY <2>1, <2>2 DEF InUse
  <2> QED
    BY <1>1, <2>2, <2>3, <2>4, EntryRemoved
<1>3. CASE /\ Used(orphans[o].wins) = {} /\ orphans' = [orphans EXCEPT ![o] = NoOrphan]
           /\ UNCHANGED <<stack, mapped>>
  <2>1. orphans'[o] = NoOrphan /\ \A p \in Slots : p # o => orphans'[p] = orphans[p]
    BY <1>1, <1>3 DEF TableTyped
  <2>2. Used(NoOrphan.wins) = {}
    BY NullSessions DEF Unheld
  <2> QED
    BY <1>1, <1>3, <2>1, <2>2, SameWindowsSame, OwningKept
<1>4. \/ \E w \in Used(orphans[o].wins) : /\ TakenOff(orphans[o].wins[w])
                                          /\ orphans' = [orphans EXCEPT ![o].wins[w] = NoWin]
      \/ /\ Used(orphans[o].wins) = {} /\ orphans' = [orphans EXCEPT ![o] = NoOrphan]
         /\ UNCHANGED <<stack, mapped>>
  BY DEF orphan_destroy, TakenOff
<1> QED
  BY <1>2, <1>3, <1>4

LEMMA HelloOwning ==
  ASSUME Base, TokensUnique, Owning, DispatchHello
  PROVE  Owning'
<1>1. /\ Sound(stack) /\ UNCHANGED <<stack, mapped>>
      /\ cur \in Slots /\ ~clients[cur].hello
      /\ \A j \in Slots : j # cur => clients'[j] = clients[j]
      /\ Greeted \/ \E o \in Slots : Reclaimed(o)
  BY Greeting DEF DispatchHello, scene, Base, Typed, SceneTyped
<1>2. Used(NoOrphan.wins) = {}
  BY NullSessions DEF Unheld
<1>3. CASE Greeted
  BY <1>1, <1>2, <1>3, SameWindowsSame, OwningKept DEF Greeted
<1>4. ASSUME NEW o \in Slots, Reclaimed(o)
      PROVE  Owning'
  <2>1. PICK k \in Slots : k = cur
    BY <1>1
  <2>2. /\ clients'[k].wins = orphans[o].wins /\ orphans'[o] = NoOrphan
        /\ \A p \in Slots : p # o => orphans'[p] = orphans[p]
        /\ Used(clients[k].wins) = {}
    BY <1>1, <1>4, <2>1 DEF Reclaimed, TokensUnique
  <2> DEFINE a == "orphan"
             b == "client"
  <2>3. a \in Side /\ b \in Side /\ <<a, o>> # <<b, k>>
    BY DEF Side
  <2>4. /\ Used(WinsAt(b, k)) = {} /\ WinsAt(b, k)' = WinsAt(a, o)
        /\ Used(WinsAt(a, o)') = {}
    BY <1>2, <2>2 DEF WinsAt
  <2>5. \A s \in Side, j \in Slots : <<s, j>> \notin {<<a, o>>, <<b, k>>} =>
           WinsAt(s, j)' = WinsAt(s, j)
    BY <1>1, <2>1, <2>2 DEF WinsAt, Side
  <2> HIDE DEF a, b
  <2> QED
    BY <1>1, <2>3, <2>4, <2>5, OwningMoved
<1> QED
  BY <1>1, <1>3, <1>4

LEMMA AcceptOwning ==
  ASSUME Base, Owning, NEW c \in Conn, Accept(c)
  PROVE  Owning'
<1> DEFINE free == {k \in Slots : clients[k].fd = NoConn}
           new  == [NoClient EXCEPT !.fd = c]
<1>1. Sound(stack) /\ UNCHANGED <<stack, mapped, orphans>>
  BY DEF Accept, scene, Base, Typed, SceneTyped
<1>2. CASE UNCHANGED clients
  BY <1>1, <1>2, SameWindowsSame, OwningKept
<1>3. CASE free # {} /\ clients' = [clients EXCEPT ![Min(free)] = new]
  <2>1. Min(free) \in free
    BY <1>3, FirstSlot
  <2> DEFINE f == Min(free)
  <2>2. f \in Slots /\ clients[f] = NoClient
    BY <2>1 DEF Base, Seated
  <2> HIDE DEF f, free, new
  <2>3. clients' = [clients EXCEPT ![f] = new]
    BY <1>3 DEF f
  <2>4. clients'[f] = new /\ \A j \in Slots : j # f => clients'[j] = clients[j]
    BY <2>2, <2>3 DEF Base, Typed, TableTyped
  <2>5. Used(NoClient.wins) = {} /\ Used(new.wins) = {}
    BY NullSessions DEF NoSession, new
  <2> QED
    BY <1>1, <2>2, <2>4, <2>5, SameWindowsSame, OwningKept
<1> QED
  BY <1>2, <1>3 DEF Accept

LEMMA CreateOwning ==
  ASSUME Base, Owning, on_create_window
  PROVE  Owning'
<1>1. /\ Sound(stack) /\ TableTyped /\ cur \in Slots /\ orphans' = orphans /\ mapped' = mapped
      /\ Sound(stack')
  BY Receiving, CreateWindowBase DEF on_create_window, Base, Typed, SceneTyped
<1>2. CASE UNCHANGED <<stack, clients, focused_server_id, out>>
  BY <1>1, <1>2, SameWindowsSame, OwningKept
<1>3. CASE Created
  <2> DEFINE id == stack.next_id
  <2>1. PICK v \in Window : /\ v.id = id /\ v.buf = 0
                            /\ Contents(stack') = Contents(stack) \cup {v}
    BY <1>3 DEF Created
  <2>2. CASE ZeroWid \in CreateWids /\ clients' = clients
    <3>1. \A e \in Entries : EntryAt(e)' = EntryAt(e)
      BY <1>1, <2>2 DEF EntryAt
    <3>2. CASE Entries = {}
      <4>1. InUse = {} /\ InUse' = {}
        BY <3>2 DEF InUse
      <4>2. Shown' /\ Apart'
        BY <4>1 DEF Shown, Apart
      <4>3. OwnedOrBare'
        BY <2>1, <2>2, <4>1 DEF Owning, OwnedOrBare
      <4>4. {u.buf : u \in Contents(stack')} \ {0} = {u.buf : u \in Contents(stack)} \ {0}
        BY <2>1
      <4>5. MappedIsShown' /\ BuffersApart'
        BY <1>1, <2>1, <4>4 DEF Owning, MappedIsShown, BuffersApart
      <4> QED
        BY <4>2, <4>3, <4>5 DEF Owning
    <3>3. ASSUME NEW e0 \in Entries
          PROVE  Owning'
      BY <1>1, <2>1, <2>2, <3>1, EntryAdded
    <3> QED
      BY <3>2, <3>3
  <2>3. CASE /\ Msg.wid \in Wid /\ clients[cur].wins[Msg.wid].server_id = 0
             /\ clients' = [clients EXCEPT ![cur].wins[Msg.wid] = [server_id |-> id, buf |-> 0]]
    <3>1. PICK k \in Slots, w \in Wid : k = cur /\ w = Msg.wid
      BY <1>1, <2>3
    <3>2. PICK e : e = [server_id |-> id, buf |-> 0]
      OBVIOUS
    <3>3. e \in Entry
      BY <1>1, <3>2 DEF Sound, Stack, Entry
    <3>4. clients' = [clients EXCEPT ![k].wins[w] = e] /\ clients[k].wins[w].server_id = 0
      BY <2>3, <3>1, <3>2
    <3> DEFINE e0 == <<"client", k, w>>
    <3>5. /\ e0 \in Entries /\ EntryAt(e0) = clients[k].wins[w] /\ EntryAt(e0)' = e
          /\ \A f \in Entries : f # e0 => EntryAt(f)' = EntryAt(f)
      BY <1>1, <3>3, <3>4, OneClientEntry
    <3> HIDE DEF e0
    <3> QED
      BY <1>1, <2>1, <3>2, <3>4, <3>5, EntryAdded
  <2> QED
    BY <1>3, <2>2, <2>3 DEF Created
<1> QED
  BY <1>2, <1>3, Creating

LEMMA CommitOwning ==
  ASSUME Base, Owning, on_commit
  PROVE  Owning'
<1>1. Sound(stack) /\ TableTyped /\ cur \in Slots /\ Msg.wid \in Wid /\ orphans' = orphans
  BY Receiving, Committing DEF on_commit, Base, Typed, SceneTyped
<1>2. CASE UNCHANGED <<mapped, clients, stack>>
  BY <1>1, <1>2, SameWindowsSame, OwningKept
<1>3. ASSUME NEW fresh, Committed(clients[cur].wins[Msg.wid], fresh)
      PROVE  Owning'
  <2>1. PICK k \in Slots, w \in Wid : k = cur /\ w = Msg.wid
    BY <1>1
  <2>2. PICK d : d = clients[k].wins[w]
    OBVIOUS
  <2>3. PICK e : e = [server_id |-> d.server_id, buf |-> fresh]
    OBVIOUS
  <2>4. /\ d.server_id # 0 /\ fresh \in Nat \ {0} /\ fresh \notin mapped
        /\ mapped' = (mapped \cup {fresh}) \ {d.buf}
        /\ clients' = [clients EXCEPT ![k].wins[w] = e]
    BY <1>3, <2>1, <2>2, <2>3 DEF Committed
  <2>5. PICK v \in Window :
          /\ v.id = d.server_id /\ v.buf = fresh
          /\ Contents(stack') = {z \in Contents(stack) : z.id # d.server_id} \cup {v}
    BY <1>3, <2>1, <2>2 DEF Committed
  <2>6. e \in Entry
    BY <1>1, <2>2, <2>3, <2>4 DEF TableTyped, ClientRec, Entry
  <2> DEFINE e0 == <<"client", k, w>>
  <2>7. /\ e0 \in Entries /\ EntryAt(e0) = d /\ EntryAt(e0)' = e
        /\ \A f \in Entries : f # e0 => EntryAt(f)' = EntryAt(f)
    BY <1>1, <2>2, <2>4, <2>6, OneClientEntry
  <2> HIDE DEF e0
  <2>8. e0 \in InUse
    BY <2>4, <2>7 DEF InUse
  <2> QED
    BY <1>1, <2>3, <2>4, <2>5, <2>7, <2>8, EntryRefilled
<1> QED
  BY <1>2, <1>3, Committing

LEMMA DestroyOwning ==
  ASSUME Base, Owning, on_destroy_window
  PROVE  Owning'
<1>1. Sound(stack) /\ TableTyped /\ cur \in Slots /\ Msg.wid \in Wid /\ orphans' = orphans
  BY Receiving, MessageForms DEF on_destroy_window, Base, Typed, SceneTyped
<1> PICK k \in Slots, w \in Wid : k = cur /\ w = Msg.wid
  BY <1>1
<1>2. CASE UNCHANGED <<stack, mapped, clients, out>>
  BY <1>1, <1>2, SameWindowsSame, OwningKept
<1>3. CASE /\ clients[k].wins[w].server_id # 0 /\ TakenOff(clients[k].wins[w])
           /\ clients' = [clients EXCEPT ![k].wins[w] = NoWin]
  <2>1. PICK d \in Entry : d = clients[k].wins[w]
    BY <1>1 DEF TableTyped, ClientRec
  <2> DEFINE e0 == <<"client", k, w>>
  <2>2. /\ e0 \in Entries /\ EntryAt(e0) = d /\ EntryAt(e0)' = NoWin
        /\ \A f \in Entries : f # e0 => EntryAt(f)' = EntryAt(f)
    BY <1>1, <1>3, <2>1, NullsTyped, OneClientEntry
  <2>3. mapped' = mapped \ {d.buf} /\ Contents(stack') = {v \in Contents(stack) : v.id # d.server_id}
    BY <1>1, <1>3, <2>1, TakeDown DEF TakenOff
  <2> HIDE DEF e0
  <2>4. e0 \in InUse
    BY <1>3, <2>1, <2>2 DEF InUse
  <2> QED
    BY <1>1, <2>2, <2>3, <2>4, EntryRemoved
<1> QED
  BY <1>2, <1>3 DEF on_destroy_window, TakenOff

LEMMA NextOwning == ASSUME Base, TokensUnique, Owning, [Next]_vars PROVE Owning'
<1>1. Sound(stack) /\ Sound(stack')
  BY NextBase DEF Base, Typed, SceneTyped
<1>2. CASE Still
  BY <1>1, <1>2, StillTables, StillWindows, OwningKept
<1>3. ASSUME NEW c \in Conn, client_readable(c)
      PROVE  Owning'
  BY <1>1, <1>3, SameWindowsSame, OwningKept DEF client_readable, table, scene
<1> QED
  BY <1>2, <1>3, Steps, LoseOwning, ReapOwning, OrphanOwning, HelloOwning, AcceptOwning,
     CreateOwning, CommitOwning, DestroyOwning

LEMMA InitOwning == Init => Owning
<1> SUFFICES ASSUME Init PROVE Owning
  OBVIOUS
<1>1. Contents(stack) = {} /\ mapped = {}
  BY DEF Init, window_stack_init, Contents
<1>2. InUse = {}
  <2>1. \A k \in Slots : clients[k].wins = NoWins /\ orphans[k].wins = NoWins
    BY DEF Init, NoClient, NoOrphan
  <2>2. \A e \in Entries : EntryAt(e) = NoWin
    <3>1. ASSUME NEW e \in Entries PROVE EntryAt(e) = NoWin
      <4>1. PICK k \in Slots, w \in Wid : e = <<"client", k, w>> \/ e = <<"orphan", k, w>>
        BY EntryForms
      <4>2. NoWins[w] = NoWin
        BY DEF NoWins
      <4>3. EntryAt(e) = clients[k].wins[w] \/ EntryAt(e) = orphans[k].wins[w]
        BY <4>1 DEF EntryAt
      <4> QED
        BY <2>1, <4>2, <4>3
    <3> QED
      BY <3>1
  <2> QED
    BY <2>2 DEF InUse, NoWin
<1> QED
  BY <1>1, <1>2 DEF Owning, Shown, Apart, OwnedOrBare, MappedIsShown, BuffersApart

\* Tokens, windows and buffers have one owner each, and an owner's entry shows the
\* window and the buffer it names.
THEOREM OwningHolds == Spec => [](Base /\ TokensUnique /\ Owning)
<1>1. Base /\ TokensUnique /\ Owning /\ [Next]_vars => Owning'
  BY NextOwning
<1> QED
  BY <1>1, InitOwning, BaseHolds, OneSessionPerToken, PTL DEF Spec

\* The ids of a stack are those of its windows.
LEMMA StackIds ==
  ASSUME NEW s, Sound(s)
  PROVE  Ids(s) = {v.id : v \in Contents(s)}
<1>1. DOMAIN s.windows = 1 .. Len(s.windows)
  BY DEF Sound, Stack
<1> QED
  BY <1>1 DEF Contents, Ids

\* The windows of the stack, by position and as a set.
LEMMA WindowsByPosition ==
  ASSUME Sound(stack)
  PROVE  /\ \A i \in DOMAIN stack.windows : stack.windows[i] \in Contents(stack)
         /\ Ids(stack) = {v.id : v \in Contents(stack)}
<1>1. DOMAIN stack.windows = 1 .. Len(stack.windows)
  BY DEF Sound, Stack
<1> QED
  BY <1>1 DEF Contents, Ids

LEMMA OwningImpliesBuffers == ASSUME Base, Owning PROVE BuffersOwned
<1>1. Sound(stack)
  BY DEF Base, Typed, SceneTyped
<1>2. ASSUME NEW e \in InUse, NEW v \in Contents(stack), EntryAt(e).server_id = v.id
      PROVE  EntryAt(e).buf = v.buf
  <2>1. PICK x \in Contents(stack) :
          /\ x.id = EntryAt(e).server_id /\ x.buf = EntryAt(e).buf
          /\ \A u \in Contents(stack) : u.id = x.id => u = x
    BY <1>1, ShownAlone
  <2> QED
    BY <1>2, <2>1
<1>3. mapped = {EntryAt(e).buf : e \in InUse} \ {0}
  <2>1. ASSUME NEW b \in mapped
        PROVE  b \in {EntryAt(e).buf : e \in InUse} \ {0}
    <3>1. PICK v \in Contents(stack) : b = v.buf /\ b # 0
      BY DEF Owning, MappedIsShown
    <3>2. PICK e \in InUse : EntryAt(e).server_id = v.id
      BY <3>1 DEF Owning, OwnedOrBare
    <3> QED
      BY <1>2, <3>1, <3>2
  <2>2. ASSUME NEW e \in InUse, EntryAt(e).buf # 0
        PROVE  EntryAt(e).buf \in mapped
    BY <2>2 DEF Owning, Shown, MappedIsShown
  <2> QED
    BY <2>1, <2>2
<1>4. ASSUME NEW e \in InUse, NEW f \in InUse, EntryAt(e).buf = EntryAt(f).buf,
             EntryAt(e).buf # 0
      PROVE  e = f
  <2>1. PICK v \in Contents(stack) : v.id = EntryAt(e).server_id /\ v.buf = EntryAt(e).buf
    BY DEF Owning, Shown
  <2>2. PICK u \in Contents(stack) : u.id = EntryAt(f).server_id /\ u.buf = EntryAt(f).buf
    BY DEF Owning, Shown
  <2>3. u = v
    BY <1>4, <2>1, <2>2 DEF Owning, BuffersApart
  <2> QED
    BY <2>1, <2>2, <2>3 DEF Owning, Apart
<1>5. \A i \in DOMAIN stack.windows : \A e \in InUse :
        EntryAt(e).server_id = stack.windows[i].id => EntryAt(e).buf = stack.windows[i].buf
  BY <1>1, <1>2, WindowsByPosition
<1> QED
  BY <1>3, <1>4, <1>5 DEF BuffersOwned

LEMMA OwningImpliesSingleOwner ==
  ASSUME Base, Owning, ZeroWid \notin CreateWids
  PROVE  SingleOwner
<1>1. Sound(stack)
  BY DEF Base, Typed, SceneTyped
<1>2. ASSUME NEW id \in Ids(stack)
      PROVE  Cardinality({e \in InUse : EntryAt(e).server_id = id}) = 1
  <2>1. PICK v \in Contents(stack) : v.id = id
    BY <1>1, WindowsByPosition
  <2>2. PICK e \in InUse : EntryAt(e).server_id = id
    BY <2>1 DEF Owning, OwnedOrBare
  <2>3. {f \in InUse : EntryAt(f).server_id = id} = {e}
    BY <2>2 DEF Owning, Apart
  <2> QED
    BY <2>3, FS_Singleton
<1>3. \A e \in InUse : EntryAt(e).server_id \in Ids(stack)
  BY <1>1, WindowsByPosition DEF Owning, Shown
<1> QED
  BY <1>2, <1>3 DEF SingleOwner

\* No mapping is leaked, none is used after it is unmapped, and each is sampled by the
\* window of its owner alone, through every commit, drop, parking, reclaim and reap.
THEOREM MappingsOwned == Spec => []BuffersOwned
  BY OwningHolds, OwningImpliesBuffers, PTL

\* Every window has exactly one owner and every entry its window, when clients choose
\* ids other than 0 for their windows.
THEOREM OneOwner == ASSUME ZeroWid \notin CreateWids PROVE Spec => []SingleOwner
  BY OwningHolds, OwningImpliesSingleOwner, PTL

\* What of that an id of 0 leaves standing (on_create_window takes its slot for free): even
\* then no window has two owners, every entry names a window of the stack, and a window
\* whose entry is lost holds no mapping, so it shows nothing and leaks none.
AtMostOneOwner ==
  /\ \A e, f \in InUse : EntryAt(e).server_id = EntryAt(f).server_id => e = f
  /\ \A e \in InUse : EntryAt(e).server_id \in Ids(stack)
  /\ \A i \in DOMAIN stack.windows :
       stack.windows[i].buf # 0 => \E e \in InUse : EntryAt(e).server_id = stack.windows[i].id

THEOREM NeverTwoOwners == Spec => []AtMostOneOwner
<1>1. ASSUME Base, Owning
      PROVE  AtMostOneOwner
  <2>1. /\ \A i \in DOMAIN stack.windows : stack.windows[i] \in Contents(stack)
        /\ Ids(stack) = {v.id : v \in Contents(stack)}
    BY <1>1, WindowsByPosition DEF Base, Typed, SceneTyped
  <2>2. \A e \in InUse : EntryAt(e).server_id \in Ids(stack)
    BY <1>1, <2>1 DEF Owning, Shown
  <2> QED
    BY <1>1, <2>1, <2>2 DEF AtMostOneOwner, Owning, Apart, OwnedOrBare
<1> QED
  BY <1>1, OwningHolds, PTL

\* What a step does to the stack.
LEMMA StackSteps ==
  ASSUME Base, [Next]_vars
  PROVE  \/ UNCHANGED <<stack, screen>>
         \/ UNCHANGED screen /\ \E id : Exists(stack, id) /\ stack' = window_focus(stack, id)
         \/ UNCHANGED screen /\ \E e \in Entry : TakenOff(e)
         \/ UNCHANGED screen /\ Created
         \/ UNCHANGED screen /\ \E e \in Entry : \E fresh : Committed(e, fresh)
         \/ on_set_geometry
         \/ \E m \in Screens : SetMode(m)
<1>1. ASSUME \/ Wake \/ TransportProcess \/ ExpireDone \/ HandleListen \/ AcceptDone
             \/ EventsDone \/ RecvEnd \/ transport_update_focus \/ Quit \/ Client \/ Halt
             \/ DispatchOther \/ on_set_cursor \/ (\E o \in Slots : GraceElapses(o))
             \/ UNCHANGED vars
      PROVE  UNCHANGED <<stack, screen>>
  BY <1>1 DEF Wake, Poll, TransportProcess, ExpireDone, HandleListen, AcceptDone, EventsDone,
              RecvEnd, transport_update_focus, Quit, Client, ClientConnect, ClientClose,
              ClientStall, ClientSend, Halt, DispatchOther, on_set_cursor, GraceElapses, Goto,
              vars, scene
<1>2. CASE InputFocus
  <2>1. PICK i \in DOMAIN stack.windows : Poll(window_focus(stack, stack.windows[i].id))
    BY <1>2 DEF InputFocus
  <2>2. Exists(stack, stack.windows[i].id)
    BY <2>1 DEF Exists
  <2> QED
    BY <2>1, <2>2 DEF Poll
<1>3. CASE Lose
  BY <1>3, LosingDrops DEF scene
<1>4. CASE ReapWindow
  <2>1. cur \in Slots
    BY <1>4 DEF Base, Pending, ReapWindow
  <2>2. PICK w \in Wid : TakenOff(clients[cur].wins[w])
    BY <1>4 DEF ReapWindow, TakenOff, Used
  <2>3. clients[cur].wins[w] \in Entry /\ UNCHANGED screen
    BY <1>4, <2>1 DEF Base, Typed, TableTyped, ClientRec, ReapWindow
  <2> QED
    BY <2>2, <2>3
<1>5. ASSUME NEW o \in Slots, orphan_destroy(o)
      PROVE  \/ UNCHANGED <<stack, screen>>
             \/ UNCHANGED screen /\ \E e \in Entry : TakenOff(e)
  <2>1. \A w \in Wid : orphans[o].wins[w] \in Entry
    BY DEF Base, Typed, TableTyped, OrphanRec
  <2>2. (\E w \in Wid : TakenOff(orphans[o].wins[w])) \/ UNCHANGED stack
    BY <1>5 DEF orphan_destroy, TakenOff, Used
  <2>3. UNCHANGED screen
    BY <1>5 DEF orphan_destroy
  <2>4. ASSUME NEW w \in Wid, TakenOff(orphans[o].wins[w])
        PROVE  \E e \in Entry : TakenOff(e)
    BY <2>1, <2>4
  <2> QED
    BY <2>2, <2>3, <2>4
<1>6. ASSUME ReapDone \/ DispatchHello \/ (\E c \in Conn : Accept(c) \/ client_readable(c))
      PROVE  UNCHANGED <<stack, screen>>
  BY <1>6 DEF ReapDone, DispatchHello, Accept, client_readable, scene
<1>7. CASE on_create_window
  <2>1. UNCHANGED screen
    BY <1>7 DEF on_create_window
  <2> QED
    BY <1>7, <2>1, Creating
<1>8. CASE on_commit
  <2>1. UNCHANGED screen /\ cur \in Slots /\ Msg.wid \in Wid
    BY <1>8, Receiving, Committing DEF on_commit
  <2>2. clients[cur].wins[Msg.wid] \in Entry
    BY <2>1 DEF Base, Typed, TableTyped, ClientRec
  <2> QED
    BY <1>8, <2>1, <2>2, Committing
<1>9. ASSUME on_destroy_window
      PROVE  \/ UNCHANGED <<stack, screen>>
             \/ UNCHANGED screen /\ \E e \in Entry : TakenOff(e)
  <2>1. UNCHANGED screen /\ cur \in Slots /\ Msg.wid \in Wid
    BY <1>9, Receiving, MessageForms DEF on_destroy_window
  <2>2. clients[cur].wins[Msg.wid] \in Entry
    BY <2>1 DEF Base, Typed, TableTyped, ClientRec
  <2>3. TakenOff(clients[cur].wins[Msg.wid]) \/ UNCHANGED stack
    BY <1>9 DEF on_destroy_window, TakenOff
  <2>4. TakenOff(clients[cur].wins[Msg.wid]) => \E e \in Entry : TakenOff(e)
    BY <2>2
  <2> QED
    BY <2>1, <2>3, <2>4
<1> QED
  BY <1>1, <1>2, <1>3, <1>4, <1>5, <1>6, <1>7, <1>8, <1>9, Steps DEF Still
============================================================================
