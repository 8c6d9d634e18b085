------------------------ MODULE TransportClientProofs ------------------------
(***************************************************************************)
(* What the CrystallineLattice transport promises its clients, for any     *)
(* number of connections, slots, windows and client window ids: the        *)
(* wallpaper, the screen's size, the focus, reconnection, resilience to    *)
(* the crash of another, a clean stop, and the sessions of Sessions.       *)
(***************************************************************************)
EXTENDS TransportProofs

----------------------------------------------------------------------------
(* Wallpapers.                                                             *)

ScreenRect == [x |-> 0, y |-> 0, w |-> screen.w, h |-> screen.h]
Covering == \A v \in Contents(stack) : v.role = "DESKTOP" => RectOf(v) = ScreenRect
Wallpapers == Ordered(stack) /\ Covering

LEMMA NextWallpapers == ASSUME Base, Wallpapers, [Next]_vars PROVE Wallpapers'
<1>1. Sound(stack) /\ Sound(stack') /\ Ordered(stack)
  BY NextBase DEF Base, Typed, SceneTyped, Wallpapers
<1>2. CASE UNCHANGED <<stack, screen>>
  BY <1>2 DEF Wallpapers, Covering, ScreenRect
<1>3. ASSUME UNCHANGED screen, NEW id, Exists(stack, id), stack' = window_focus(stack, id)
      PROVE  Wallpapers'
  <2>1. Ordered(stack')
    BY <1>1, <1>3, FocusOrders DEF Ordered
  <2>2. Contents(stack') = Contents(stack)
    BY <1>1, <1>3, FocusContents
  <2> QED
    BY <1>3, <2>1, <2>2 DEF Wallpapers, Covering, ScreenRect
<1>4. ASSUME UNCHANGED screen, NEW e \in Entry, TakenOff(e)
      PROVE  Wallpapers'
  <2>1. Ordered(stack') /\ Contents(stack') \subseteq Contents(stack)
    BY <1>1, <1>4, TakeDown DEF TakenOff
  <2> QED
    BY <1>4, <2>1 DEF Wallpapers, Covering, ScreenRect
<1>5. CASE UNCHANGED screen /\ Created
  BY <1>1, <1>5 DEF Wallpapers, Covering, ScreenRect, Created
<1>6. ASSUME UNCHANGED screen, NEW e \in Entry, NEW fresh, Committed(e, fresh)
      PROVE  Wallpapers'
  <2>1. SameShape(stack, stack') /\ Like(stack, stack')
    BY <1>6 DEF Committed
  <2>2. Ordered(stack')
    BY <1>1, <2>1, ShapeDecides DEF Sound
  <2>3. Covering'
    BY <1>6, <2>1 DEF Wallpapers, Covering, ScreenRect, Like
  <2> QED
    BY <2>2, <2>3 DEF Wallpapers
<1>7. CASE on_set_geometry
  <2> DEFINE id == clients[cur].wins[Msg.wid].server_id
             r  == Msg.rect
  <2>1. r \in Rect /\ UNCHANGED screen
    BY <1>7, Receiving, MessageForms DEF on_set_geometry
  <2>2. CASE stack' = stack
    BY <2>1, <2>2, <1>2
  <2>3. CASE /\ Exists(stack, id) /\ window_by_id(stack, id).role # "DESKTOP"
             /\ stack' = window_set_geometry(stack, id, r)
    <3> HIDE DEF id, r
    <3>1. PICK v \in Window :
            /\ v.role = window_by_id(stack, id).role
            /\ Contents(stack') = {z \in Contents(stack) : z.id # id} \cup {v}
      BY <1>1, <2>1, <2>3, MoveWindow
    <3>2. Ordered(stack')
      BY <1>1, <2>1, <2>3, SetGeometryShape, ShapeDecides DEF Sound
    <3>3. Covering'
      BY <2>1, <2>3, <3>1 DEF Wallpapers, Covering, ScreenRect
    <3> QED
      BY <3>2, <3>3 DEF Wallpapers
  <2> QED
    BY <1>7, <2>2, <2>3 DEF on_set_geometry, Movable
<1>8. ASSUME NEW m \in Screens, SetMode(m)
      PROVE  Wallpapers'
  <2>1. /\ SameShape(stack, stack')
        /\ Contents(stack') = {Refitted(w, m) : w \in Contents(stack)}
        /\ \A w \in Contents(stack) :
             /\ Refitted(w, m).role = w.role
             /\ w.role = "DESKTOP" =>
                  RectOf(Refitted(w, m)) = [x |-> 0, y |-> 0, w |-> m.w, h |-> m.h]
    BY <1>1, <1>8, Refitting
  <2>2. screen' = m
    BY <1>8 DEF SetMode
  <2>3. Ordered(stack')
    BY <1>1, <2>1, ShapeDecides DEF Sound
  <2>4. ASSUME NEW v \in Contents(stack'), v.role = "DESKTOP"
        PROVE  RectOf(v) = [x |-> 0, y |-> 0, w |-> m.w, h |-> m.h]
    <3>1. PICK w \in Contents(stack) : v = Refitted(w, m)
      BY <2>1
    <3> QED
      BY <2>1, <2>4, <3>1
  <2> QED
    BY <2>2, <2>3, <2>4 DEF Wallpapers, Covering, ScreenRect
<1> QED
  BY <1>2, <1>3, <1>4, <1>5, <1>6, <1>7, <1>8, StackSteps

LEMMA InitWallpapers == Init => Wallpapers
  BY DEF Init, window_stack_init, Wallpapers, Covering, Contents, Ordered, DesktopsBelow,
         FocusedAppOnTop, AppsHaveFocus

LEMMA WallpapersCover == ASSUME Base, Wallpapers PROVE WallpaperBelowAll
<1>1. Sound(stack)
  BY DEF Base, Typed, SceneTyped
<1> QED
  BY <1>1, WindowsByPosition DEF Wallpapers, Covering, ScreenRect, Ordered, WallpaperBelowAll

\* Every wallpaper covers the screen and lies below every other window, whatever
\* geometry clients ask for and whichever resolution is set while its owner is gone.
THEOREM WallpapersBelow == Spec => []WallpaperBelowAll
<1>1. Base /\ Wallpapers /\ [Next]_vars => Wallpapers'
  BY NextWallpapers
<1>2. Spec => []Wallpapers
  BY <1>1, InitWallpapers, BaseHolds, PTL DEF Spec
<1> QED
  BY <1>2, BaseHolds, WallpapersCover, PTL

----------------------------------------------------------------------------
(* What clients have been told.                                            *)

SameClient(k) == /\ clients'[k].fd = clients[k].fd /\ clients'[k].hello = clients[k].hello
                 /\ \A w \in Wid : clients'[k].wins[w].server_id = clients[k].wins[w].server_id
NewClient(k) == /\ clients[k].fd = NoConn
                /\ NoSession(clients'[k])

\* Nobody is told anything, and at most a slot is taken by a new connection.
Silent ==
  /\ UNCHANGED <<out, screen, focused_server_id>>
  /\ \A k \in Slots : SameClient(k) \/ NewClient(k)

\* A slot is freed, and what its connection was told is forgotten.
Freed(k) ==
  /\ UNCHANGED <<screen, focused_server_id>>
  /\ clients[k].fd \in Conn
  /\ clients'[k] = NoClient /\ \A j \in Slots : j # k => clients'[j] = clients[j]
  /\ out'.told = {f \in out.told : f[1] # clients[k].fd}
  /\ out'.lost = out.lost \ {clients[k].fd}
  /\ \A c \in Conn : c # clients[k].fd => out'.screen[c] = out.screen[c]

\* A client's window goes, and with it that the client was told of its focus.
Withdrawn(k, w) ==
  /\ UNCHANGED <<screen, focused_server_id>>
  /\ \A j \in Slots : j # k => clients'[j] = clients[j]
  /\ clients'[k].fd = clients[k].fd /\ clients'[k].hello = clients[k].hello
  /\ clients'[k].wins[w].server_id = 0
  /\ \A x \in Wid : x # w => clients'[k].wins[x] = clients[k].wins[x]
  /\ out'.told = out.told \ {<<clients[k].fd, w>>}
  /\ out'.lost = out.lost /\ out'.screen = out.screen

\* What a step does to what clients have been told.
LEMMA TellingSteps ==
  ASSUME Base, [Next]_vars
  PROVE  \/ Silent
         \/ \E k \in Slots : Freed(k)
         \/ \E k \in Slots, w \in Wid : Withdrawn(k, w)
         \/ DispatchHello
         \/ on_create_window /\ Created
         \/ transport_update_focus
         \/ \E m \in Screens : SetMode(m)
<1>1. ASSUME \/ Wake \/ InputFocus \/ TransportProcess \/ ExpireDone \/ HandleListen
             \/ AcceptDone \/ EventsDone \/ RecvEnd \/ Quit \/ Client \/ Halt
             \/ DispatchOther \/ on_set_cursor \/ on_set_geometry
             \/ (\E o \in Slots : GraceElapses(o) \/ orphan_destroy(o))
             \/ (\E c \in Conn : client_readable(c))
             \/ UNCHANGED vars
      PROVE  Silent
  <2>1. ASSUME \/ Wake \/ InputFocus \/ TransportProcess \/ ExpireDone \/ HandleListen
               \/ AcceptDone \/ EventsDone \/ RecvEnd \/ Quit
        PROVE  UNCHANGED <<clients, out, screen, focused_server_id>>
    BY <2>1 DEF Wake, InputFocus, Poll, TransportProcess, ExpireDone, HandleListen, AcceptDone,
                EventsDone, RecvEnd, Quit, Goto, table, scene
  <2>2. ASSUME \/ Client \/ Halt \/ DispatchOther \/ on_set_cursor \/ on_set_geometry
               \/ (\E o \in Slots : GraceElapses(o) \/ orphan_destroy(o))
               \/ (\E c \in Conn : client_readable(c))
               \/ UNCHANGED vars
        PROVE  UNCHANGED <<clients, out, screen, focused_server_id>>
    BY <2>2 DEF Client, ClientConnect, ClientClose, ClientStall, ClientSend, Halt,
                DispatchOther, on_set_cursor, on_set_geometry, GraceElapses, orphan_destroy,
                client_readable, table, scene, vars
  <2> QED
    BY <1>1, <2>1, <2>2 DEF Silent, SameClient
<1>2. ASSUME NEW k, Handling(k), Release(k), UNCHANGED <<screen, focused_server_id>>
      PROVE  \E j \in Slots : Freed(j)
  <2>1. k \in Slots /\ clients[k].fd \in Conn
    BY <1>2, ServedSlot DEF Handling, Base, Typed
  <2> DEFINE c == clients[k].fd
  <2>2. /\ clients' = [clients EXCEPT ![k] = NoClient]
        /\ out' = [out EXCEPT !.told = {f \in @ : f[1] # c}, !.lost = @ \ {c},
                     !.screen[c] = NoScreen]
    BY <1>2 DEF Release
  <2>3. clients'[k] = NoClient /\ \A j \in Slots : j # k => clients'[j] = clients[j]
    BY <2>1, <2>2 DEF Base, Typed, TableTyped
  <2> HIDE DEF c
  <2>4. /\ out'.told = {f \in out.told : f[1] # c} /\ out'.lost = out.lost \ {c}
        /\ \A d \in Conn : d # c => out'.screen[d] = out.screen[d]
    BY <2>2 DEF Base, Typed, OutTyped, OutRec
  <2> QED
    BY <1>2, <2>1, <2>3, <2>4 DEF Freed, c
<1>3. CASE Lose
  <2>1. PICK k : Handling(k) /\ client_drop(k)
    BY <1>3, LosingDrops
  <2>2. UNCHANGED <<screen, focused_server_id>>
    BY <1>3, LosingDrops DEF scene
  <2>3. CASE UNCHANGED <<clients, out>>
    BY <2>2, <2>3 DEF Silent, SameClient
  <2> QED
    BY <1>2, <2>1, <2>2, <2>3 DEF client_drop
<1>4. CASE ReapDone
  <2>1. Handling(cur) /\ Release(cur) /\ UNCHANGED <<screen, focused_server_id>>
    BY <1>4 DEF Base, Pending, Handling, ReapDone, scene
  <2> QED
    BY <1>2, <2>1
<1>5. ASSUME NEW k \in Slots, NEW w \in Wid, UNCHANGED <<screen, focused_server_id, orphans, next_token>>,
             clients' = [clients EXCEPT ![k].wins[w] = NoWin],
             out' = [out EXCEPT !.told = @ \ {<<clients[k].fd, w>>}]
      PROVE  Withdrawn(k, w)
  <2>1. PutClient(k, w, NoWin) /\ NoWin.server_id = 0
    BY <1>5, NullsTyped DEF Base, Typed, TableTyped, NoWin, PutClient
  <2>2. /\ \A j \in Slots : j # k => clients'[j] = clients[j]
        /\ clients'[k].fd = clients[k].fd /\ clients'[k].hello = clients[k].hello
        /\ clients'[k].wins[w] = NoWin
        /\ \A x \in Wid : x # w => clients'[k].wins[x] = clients[k].wins[x]
    BY <2>1, ClientEntry
  <2>3. /\ out'.told = out.told \ {<<clients[k].fd, w>>}
        /\ out'.lost = out.lost /\ out'.screen = out.screen
    BY <1>5 DEF Base, Typed, OutTyped, OutRec
  <2> QED
    BY <1>5, <2>1, <2>2, <2>3 DEF Withdrawn
<1>6. CASE ReapWindow
  <2>1. cur \in Slots /\ UNCHANGED <<screen, focused_server_id, orphans, next_token>>
    BY <1>6 DEF Base, Pending, ReapWindow
  <2>2. PICK w \in Wid : /\ clients' = [clients EXCEPT ![cur].wins[w] = NoWin]
                         /\ out' = [out EXCEPT !.told = @ \ {<<clients[cur].fd, w>>}]
    BY <1>6 DEF ReapWindow, Used
  <2> QED
    BY <1>5, <2>1, <2>2
<1>7. CASE on_destroy_window
  <2>1. /\ cur \in Slots /\ UNCHANGED <<screen, focused_server_id, orphans, next_token>>
        /\ Msg.wid \in Wid
    BY <1>7, Receiving, MessageForms DEF on_destroy_window
  <2>2. CASE UNCHANGED <<clients, out>>
    BY <2>1, <2>2 DEF Silent, SameClient
  <2>3. CASE /\ clients' = [clients EXCEPT ![cur].wins[Msg.wid] = NoWin]
             /\ out' = [out EXCEPT !.told = @ \ {<<clients[cur].fd, Msg.wid>>}]
    BY <1>5, <2>1, <2>3
  <2> QED
    BY <1>7, <2>2, <2>3 DEF on_destroy_window, Fd
<1>8. CASE on_commit
  <2>1. /\ UNCHANGED <<out, screen, focused_server_id, orphans, next_token>>
        /\ cur \in Slots /\ Msg.wid \in Wid /\ TableTyped
    BY <1>8, Receiving, Committing DEF on_commit, Base, Typed
  <2>2. CASE UNCHANGED clients
    BY <2>1, <2>2 DEF Silent, SameClient
  <2>3. ASSUME NEW fresh, Committed(clients[cur].wins[Msg.wid], fresh)
        PROVE  Silent
    <3>1. PICK k \in Slots, w \in Wid : k = cur /\ w = Msg.wid
      BY <2>1
    <3>2. PICK e : e = [server_id |-> clients[k].wins[w].server_id, buf |-> fresh]
      OBVIOUS
    <3>3. e \in Entry /\ clients' = [clients EXCEPT ![k].wins[w] = e]
      BY <2>1, <2>3, <3>1, <3>2 DEF Committed, TableTyped, ClientRec, Entry
    <3>4. focused_server_id' \in Nat
      BY <2>1 DEF TableTyped
    <3>5. PutClient(k, w, e)
      BY <2>1, <3>3, <3>4 DEF PutClient
    <3>6. /\ \A j \in Slots : j # k => clients'[j] = clients[j]
          /\ clients'[k].fd = clients[k].fd /\ clients'[k].hello = clients[k].hello
          /\ clients'[k].wins[w] = e
          /\ \A x \in Wid : x # w => clients'[k].wins[x] = clients[k].wins[x]
      BY <3>5, ClientEntry
    <3>7. \A j \in Slots : SameClient(j)
      BY <3>2, <3>6 DEF SameClient
    <3> QED
      BY <2>1, <3>7 DEF Silent
  <2> QED
    BY <1>8, <2>2, <2>3, Committing
<1>9. ASSUME NEW c \in Conn, Accept(c)
      PROVE  Silent
  <2> DEFINE free == {k \in Slots : clients[k].fd = NoConn}
             new  == [NoClient EXCEPT !.fd = c]
  <2>1. UNCHANGED <<out, screen, focused_server_id>>
    BY <1>9 DEF Accept, scene
  <2>2. CASE UNCHANGED clients
    BY <2>1, <2>2 DEF Silent, SameClient
  <2>3. CASE free # {} /\ clients' = [clients EXCEPT ![Min(free)] = new]
    <3>1. PICK f \in free : f = Min(free)
      BY <2>3, FirstSlot
    <3>2. NoSession(new)
      BY NullSessions
    <3> HIDE DEF new
    <3>3. clients'[f] = new /\ \A j \in Slots : j # f => clients'[j] = clients[j]
      BY <2>3, <3>1 DEF Base, Typed, TableTyped
    <3>4. \A j \in Slots : SameClient(j) \/ NewClient(j)
      BY <3>1, <3>2, <3>3 DEF SameClient, NewClient
    <3> QED
      BY <2>1, <3>4 DEF Silent
  <2> QED
    BY <1>9, <2>2, <2>3 DEF Accept
<1>10. CASE on_create_window
  <2>1. CASE UNCHANGED <<stack, clients, focused_server_id, out>>
    BY <1>10, <2>1 DEF Silent, SameClient, on_create_window
  <2> QED
    BY <1>10, <2>1, Creating
<1> QED
  BY <1>1, <1>3, <1>4, <1>6, <1>7, <1>8, <1>9, <1>10, Steps DEF Still


\* A window created is entered in its client's table, the rest of which is as before.
LEMMA CreatedClients ==
  ASSUME Base, on_create_window, Created
  PROVE  /\ cur \in Slots /\ Fd = clients[cur].fd /\ Fd \in Conn /\ UNCHANGED screen
         /\ \A k \in Slots : k # cur => clients'[k] = clients[k]
         /\ clients'[cur].fd = clients[cur].fd /\ clients'[cur].hello = clients[cur].hello
         /\ \A w \in Wid : \/ clients'[cur].wins[w] = clients[cur].wins[w]
                           \/ /\ clients[cur].wins[w].server_id = 0
                              /\ clients'[cur].wins[w].server_id = stack.next_id
<1>1. /\ cur \in Slots /\ Fd \in Conn /\ TableTyped /\ UNCHANGED <<orphans, next_token, screen>>
      /\ stack.next_id \in Nat \ {0}
  BY Receiving DEF on_create_window, Base, Typed, SceneTyped, Sound, Stack
<1>2. CASE clients' = clients
  BY <1>1, <1>2 DEF Fd
<1>3. CASE /\ Msg.wid \in Wid /\ clients[cur].wins[Msg.wid].server_id = 0
           /\ clients' = [clients EXCEPT ![cur].wins[Msg.wid] =
                            [server_id |-> stack.next_id, buf |-> 0]]
  <2>1. PICK k \in Slots, w \in Wid : k = cur /\ w = Msg.wid
    BY <1>1, <1>3
  <2>2. PICK e : e = [server_id |-> stack.next_id, buf |-> 0]
    OBVIOUS
  <2>3. e \in Entry /\ clients' = [clients EXCEPT ![k].wins[w] = e]
    BY <1>1, <1>3, <2>1, <2>2 DEF Entry
  <2>4. focused_server_id' \in Nat
    BY NextBase, <1>1 DEF Created, Base, Typed, TableTyped
  <2>5. PutClient(k, w, e)
    BY <1>1, <2>3, <2>4 DEF PutClient
  <2>6. /\ \A j \in Slots : j # k => clients'[j] = clients[j]
        /\ clients'[k].fd = clients[k].fd /\ clients'[k].hello = clients[k].hello
        /\ clients'[k].wins[w] = e
        /\ \A x \in Wid : x # w => clients'[k].wins[x] = clients[k].wins[x]
    BY <2>5, ClientEntry
  <2>7. \A x \in Wid : \/ clients'[k].wins[x] = clients[k].wins[x]
                       \/ /\ clients[k].wins[x].server_id = 0
                          /\ clients'[k].wins[x].server_id = stack.next_id
    BY <1>3, <2>1, <2>2, <2>6
  <2> QED
    BY <1>1, <2>1, <2>6, <2>7 DEF Fd
<1> QED
  BY <1>2, <1>3 DEF Created

\* A step that leaves each other connection as it was, and what it knows of the screen.
LEMMA ScreenKept ==
  ASSUME ScreenKnown, UNCHANGED screen, out.lost \subseteq out'.lost, out'.screen = out.screen,
         \A k \in Slots : /\ clients'[k].hello => clients[k].hello
                          /\ clients'[k].hello => clients'[k].fd = clients[k].fd
  PROVE  ScreenKnown'
  BY DEF ScreenKnown, Served

LEMMA NextScreen == ASSUME Base, TokensUnique, ScreenKnown, [Next]_vars PROVE ScreenKnown'
<1>1. CASE Silent
  BY <1>1, ScreenKept DEF Silent, SameClient, NewClient, NoSession
<1>2. ASSUME NEW k \in Slots, Freed(k)
      PROVE  ScreenKnown'
  <2>1. ASSUME NEW j \in Served', clients'[j].hello, clients'[j].fd \notin out'.lost
        PROVE  out'.screen[clients'[j].fd] = screen'
    <3>1. j # k /\ j \in Slots /\ clients'[j] = clients[j] /\ j \in Served
      BY <1>2, <2>1 DEF Freed, Served, NoClient
    <3>2. clients[j].fd \in Conn /\ clients[j].fd # clients[k].fd
      BY <1>2, <3>1, ServedSlot DEF Freed, Base, Typed, Seated, Served
    <3> QED
      BY <1>2, <2>1, <3>1, <3>2 DEF Freed, ScreenKnown
  <2> QED
    BY <2>1 DEF ScreenKnown
<1>3. ASSUME NEW k \in Slots, NEW w \in Wid, Withdrawn(k, w)
      PROVE  ScreenKnown'
  BY <1>3, ScreenKept DEF Withdrawn
<1>4. CASE DispatchHello
  <2>1. /\ cur \in Slots /\ clients[cur].fd # NoConn
        /\ \A k \in Slots : k # cur => clients'[k] = clients[k]
        /\ clients'[cur].fd = clients[cur].fd
    <3>1. /\ cur \in Slots /\ clients[cur].fd # NoConn
          /\ \A k \in Slots : k # cur => clients'[k] = clients[k]
          /\ Greeted \/ \E o \in Slots : Reclaimed(o)
      BY <1>4, Greeting
    <3>2. Greeted => clients'[cur].fd = clients[cur].fd
      BY DEF Greeted
    <3>3. ASSUME NEW o \in Slots, Reclaimed(o)
          PROVE  clients'[cur].fd = clients[cur].fd
      BY <3>3 DEF Reclaimed
    <3> QED
      BY <3>1, <3>2, <3>3
  <2>2. Fd \in Conn /\ Fd = clients[cur].fd /\ out \in OutRec
    BY <2>1, ServedSlot DEF Base, Typed, OutTyped, Fd
  <2> DEFINE c == Fd
             d == [out EXCEPT !.screen[c] = screen]
  <2>3. out' = cl_send(out, c, d) /\ UNCHANGED screen
    BY <1>4 DEF DispatchHello, send_welcome, scene
  <2> HIDE DEF c
  <2>4. /\ d \in OutRec /\ d.lost = out.lost /\ d.screen[c] = screen
        /\ \A x \in Conn : x # c => d.screen[x] = out.screen[x]
    BY <2>2 DEF OutRec, Base, Typed, SceneTyped, c
  <2> HIDE DEF d
  <2>5. \/ out' = d
        \/ out'.lost = out.lost \cup {c} /\ out'.screen = out.screen
    BY <2>2, <2>3, <2>4, Sending DEF c
  <2>6. ASSUME NEW j \in Slots, clients'[j].fd # NoConn, clients'[j].hello,
               clients'[j].fd \notin out'.lost
        PROVE  out'.screen[clients'[j].fd] = screen
    <3>1. CASE j = cur
      BY <2>1, <2>2, <2>4, <2>5, <2>6, <3>1 DEF c
    <3>2. CASE j # cur
      <4>1. clients'[j] = clients[j]
        BY <2>1, <3>2
      <4>2. clients[j].fd # c /\ clients[j].fd \in Conn
        BY <2>1, <2>6, <3>2, <4>1, ServedSlot DEF Base, Typed, Seated, c, Fd
      <4>3. clients[j].fd \notin out.lost
        BY <2>4, <2>5, <2>6, <4>1
      <4>4. out.screen[clients[j].fd] = screen
        BY <2>6, <4>1, <4>3 DEF ScreenKnown, Served
      <4> QED
        BY <2>4, <2>5, <4>1, <4>2, <4>4
    <3> QED
      BY <3>1, <3>2
  <2> QED
    BY <2>3, <2>6 DEF ScreenKnown, Served
<1>5. CASE on_create_window /\ Created
  <2>1. /\ Fd \in Conn /\ UNCHANGED screen /\ out \in OutRec
        /\ \A k \in Slots : clients'[k].fd = clients[k].fd /\ clients'[k].hello = clients[k].hello
        /\ clients' \in [Slots -> ClientRec]
    BY <1>5, CreatedClients, NextBase DEF Base, Typed, OutTyped, TableTyped
  <2> DEFINE o == cl_send(out, Fd, out)
  <2>2. o \in OutRec /\ o.screen = out.screen /\ out.lost \subseteq o.lost
    BY <2>1, Sending
  <2>3. out' = o \/ out' = notify_focus(o, clients', stack.next_id)
    BY <1>5 DEF Created
  <2> HIDE DEF o
  <2>4. out'.screen = out.screen /\ out.lost \subseteq out'.lost
    BY <2>1, <2>2, <2>3, Notifying
  <2> QED
    BY <2>1, <2>4, ScreenKept
<1>6. CASE transport_update_focus
  <2>1. /\ UNCHANGED <<screen, clients>> /\ out' = notify_focus(out, clients, stack.focus_id)
    BY <1>6 DEF transport_update_focus, scene
  <2>2. out \in OutRec /\ clients \in [Slots -> ClientRec]
    BY DEF Base, Typed, OutTyped, TableTyped
  <2> QED
    BY <2>1, <2>2, Notifying, ScreenKept
<1>7. ASSUME NEW m \in Screens, SetMode(m)
      PROVE  ScreenKnown'
  <2> DEFINE lost == {c \in ScreenAudience : c \in stalled \/ ~alive[c]}
  <2>1. /\ screen' = m /\ clients' = clients
        /\ out' = [out EXCEPT !.lost = @ \cup lost,
                     !.screen = [c \in Conn |-> IF c \in ScreenAudience \ lost THEN m ELSE @[c]]]
    BY <1>7 DEF SetMode, table
  <2> HIDE DEF lost
  <2>2. /\ out'.lost = out.lost \cup lost
        /\ \A c \in Conn : c \in ScreenAudience \ lost => out'.screen[c] = m
    BY <2>1 DEF Base, Typed, OutTyped, OutRec
  <2>3. \A k \in Served : /\ clients[k].fd \in Conn
                          /\ clients[k].hello => clients[k].fd \in ScreenAudience
    BY ServedSlot DEF Served, ScreenAudience, Base, Typed
  <2> QED
    BY <2>1, <2>2, <2>3 DEF ScreenKnown, Served
<1> QED
  BY <1>1, <1>2, <1>3, <1>4, <1>5, <1>6, <1>7, TellingSteps

LEMMA InitScreen == Init => ScreenKnown
  BY DEF Init, ScreenKnown, Served, NoClient

\* A client past its handshake knows the screen's size, unless a send to it failed:
\* the welcome and the broadcast of a mode change leave no gap between them
\* (send_welcome, transport_broadcast_screen).
THEOREM ScreenIsKnown == Spec => []ScreenKnown
<1>1. Base /\ TokensUnique /\ ScreenKnown /\ [Next]_vars => ScreenKnown'
  BY NextScreen
<1> QED
  BY <1>1, InitScreen, BaseHolds, OneSessionPerToken, PTL DEF Spec


----------------------------------------------------------------------------
(* Focus messages.                                                         *)

\* What clients believe of the focus is what the server last announced.
TellsRight ==
  \A f \in out.told : f[1] \notin out.lost =>
    /\ focused_server_id # 0
    /\ \E k \in Slots : /\ clients[k].fd = f[1]
                        /\ clients[k].wins[f[2]].server_id = focused_server_id

\* No window is found behind two client slots or two ids of one slot.
FoundOnce(cls) == \A i : \A e, f \in find_by_server_id(cls, i) : e = f

LEMMA ClientsFoundOnce ==
  ASSUME TableTyped, Apart
  PROVE  FoundOnce(clients)
<1> SUFFICES ASSUME NEW i, NEW e \in find_by_server_id(clients, i),
                    NEW f \in find_by_server_id(clients, i)
             PROVE  e = f
  BY DEF FoundOnce
<1>1. PICK j \in Slots, w \in Wid : e = <<j, w>>
  BY DEF find_by_server_id
<1>2. PICK k \in Slots, x \in Wid : f = <<k, x>>
  BY DEF find_by_server_id
<1> DEFINE a == <<"client", j, w>>
           b == <<"client", k, x>>
<1>3. /\ a \in Entries /\ EntryAt(a) = clients[j].wins[w]
      /\ b \in Entries /\ EntryAt(b) = clients[k].wins[x]
  BY DEF Entries, EntryAt
<1>4. i # 0 /\ clients[j].wins[w].server_id = i /\ clients[k].wins[x].server_id = i
  BY <1>1, <1>2 DEF find_by_server_id
<1>5. a \in InUse /\ b \in InUse /\ EntryAt(a).server_id = EntryAt(b).server_id
  BY <1>3, <1>4 DEF InUse
<1> HIDE DEF a, b
<1>6. a = b
  BY <1>5 DEF Apart
<1> QED
  BY <1>1, <1>2, <1>6 DEF a, b

LEMMA NextFoundOnce ==
  ASSUME Apart'
  PROVE  FoundOnce(clients')
<1> SUFFICES ASSUME NEW i, NEW e \in find_by_server_id(clients', i),
                    NEW f \in find_by_server_id(clients', i)
             PROVE  e = f
  BY DEF FoundOnce
<1>1. PICK j \in Slots, w \in Wid : e = <<j, w>>
  BY DEF find_by_server_id
<1>2. PICK k \in Slots, x \in Wid : f = <<k, x>>
  BY DEF find_by_server_id
<1>3. PICK a, b : a = <<"client", j, w>> /\ b = <<"client", k, x>>
  OBVIOUS
<1>4. /\ a \in Entries /\ EntryAt(a)' = clients'[j].wins[w]
      /\ b \in Entries /\ EntryAt(b)' = clients'[k].wins[x]
  BY <1>3 DEF Entries, EntryAt
<1>5. i # 0 /\ clients'[j].wins[w].server_id = i /\ clients'[k].wins[x].server_id = i
  BY <1>1, <1>2 DEF find_by_server_id
<1>6. a \in InUse' /\ b \in InUse' /\ EntryAt(a)'.server_id = EntryAt(b)'.server_id
  BY <1>4, <1>5 DEF InUse, Entries
<1>7. a = b
  BY <1>6 DEF Apart
<1> QED
  BY <1>1, <1>2, <1>3, <1>7

\* notify_focus when the focus has changed: what connections that lost nothing have
\* been told is of the window that gains it, or of another than the one that loses it.
LEMMA Retelling ==
  ASSUME NEW o \in OutRec, NEW cls \in [Slots -> ClientRec], NEW id, FoundOnce(cls),
         id # focused_server_id, NEW t, t = notify_focus(o, cls, id)
  PROVE  \A f \in t.told : f[1] \notin t.lost =>
           \/ \E e \in find_by_server_id(cls, id) : f = <<cls[e[1]].fd, e[2]>>
           \/ /\ f \in o.told
              /\ \A e \in find_by_server_id(cls, focused_server_id) :
                   f # <<cls[e[1]].fd, e[2]>>
<1> DEFINE old == find_by_server_id(cls, focused_server_id)
           new == find_by_server_id(cls, id)
           e   == CHOOSE x \in old : TRUE
           g   == CHOOSE x \in new : TRUE
           o1  == IF old = {} THEN o ELSE SendFocus(o, cls, e, FALSE)
           o2  == IF new = {} THEN o1 ELSE SendFocus(o1, cls, g, TRUE)
           At(x) == <<cls[x[1]].fd, x[2]>>
<1>1. t = o2
  BY DEF notify_focus
<1>2. \A i : \A x \in find_by_server_id(cls, i) : x \in Slots \X Wid /\ cls[x[1]].fd \in Conn
  BY DEF find_by_server_id, ClientRec
<1>3. old # {} => e \in Slots \X Wid /\ cls[e[1]].fd \in Conn /\ \A x \in old : x = e
  BY <1>2 DEF FoundOnce
<1>4. new # {} => g \in new /\ g \in Slots \X Wid /\ cls[g[1]].fd \in Conn
  BY <1>2
<1> HIDE DEF e, g, old, new
<1>5. /\ o1 \in OutRec /\ o.lost \subseteq o1.lost
      /\ \A f \in o1.told : f[1] \notin o1.lost => f \in o.told /\ \A x \in old : f # At(x)
  <2>1. CASE old = {}
    BY <2>1
  <2>2. CASE old # {}
    <3>1. o1 = SendFocus(o, cls, e, FALSE)
      BY <2>2
    <3> HIDE DEF o1
    <3>2. o1 \in OutRec /\ o.lost \subseteq o1.lost
      BY <1>3, <2>2, <3>1, FocusMessage
    <3>3. PICK c \in Conn, p \in Conn \X Wid : c = cls[e[1]].fd /\ p = <<c, e[2]>>
      BY <1>3, <2>2
    <3> DEFINE d == [o EXCEPT !.told = @ \ {p}]
               l == [o EXCEPT !.lost = @ \cup {c}]
    <3>4. \A x : x \in o1.told /\ x[1] \notin o1.lost => x \in o.told /\ x # p
      <4>1. o1 = d \/ o1 = l
        BY <3>1, <3>3 DEF SendFocus, cl_send
      <4>2. d.told = o.told \ {p} /\ l.told = o.told /\ c \in l.lost
        BY DEF OutRec
      <4>3. p[1] = c
        BY <3>3
      <4> HIDE DEF d, l
      <4> QED
        BY <4>1, <4>2, <4>3
    <3>5. \A x \in old : At(x) = p
      BY <1>3, <2>2, <3>3
    <3> HIDE DEF At
    <3> QED
      BY <3>2, <3>4, <3>5
  <2> QED
    BY <2>1, <2>2
<1> HIDE DEF o1
<1>6. /\ o1.lost \subseteq o2.lost
      /\ \A f \in o2.told : f[1] \notin o2.lost => f \in o1.told \/ \E x \in new : f = At(x)
  <2>1. CASE new = {}
    BY <2>1
  <2>2. CASE new # {}
    <3>1. o2 = SendFocus(o1, cls, g, TRUE)
      BY <2>2
    <3> HIDE DEF o2
    <3>2. o1.lost \subseteq o2.lost
      BY <1>4, <1>5, <2>2, <3>1, FocusMessage
    <3>3. PICK c \in Conn, p \in Conn \X Wid : c = cls[g[1]].fd /\ p = <<c, g[2]>>
      BY <1>4, <2>2
    <3> DEFINE d == [o1 EXCEPT !.told = @ \cup {p}]
               l == [o1 EXCEPT !.lost = @ \cup {c}]
    <3>4. \A x : x \in o2.told /\ x[1] \notin o2.lost => x \in o1.told \/ x = p
      <4>1. o2 = d \/ o2 = l
        BY <3>1, <3>3 DEF SendFocus, cl_send
      <4>2. d.told = o1.told \cup {p} /\ l.told = o1.told /\ c \in l.lost
        BY <1>5 DEF OutRec
      <4>3. p[1] = c
        BY <3>3
      <4> HIDE DEF d, l
      <4> QED
        BY <4>1, <4>2, <4>3
    <3>5. p = At(g)
      BY <3>3
    <3> HIDE DEF At
    <3> QED
      BY <1>4, <2>2, <3>2, <3>4, <3>5
  <2> QED
    BY <2>1, <2>2
<1> HIDE DEF o2, At
<1>7. \A f \in t.told : f[1] \notin t.lost =>
        (\E x \in new : f = At(x)) \/ (f \in o.told /\ \A x \in old : f # At(x))
  BY <1>1, <1>5, <1>6
<1> QED
  BY <1>7 DEF At, old, new

\* A step after which those still told of the focus are where they were.
LEMMA TellsKept ==
  ASSUME TellsRight, UNCHANGED focused_server_id,
         \A f \in out'.told : f[1] \notin out'.lost => f \in out.told /\ f[1] \notin out.lost,
         \A f \in out'.told, k \in Slots :
           clients[k].fd = f[1] /\ clients[k].wins[f[2]].server_id # 0 =>
             /\ clients'[k].fd = clients[k].fd
             /\ clients'[k].wins[f[2]].server_id = clients[k].wins[f[2]].server_id
  PROVE  TellsRight'
<1> SUFFICES ASSUME NEW f \in out'.told, f[1] \notin out'.lost
             PROVE  /\ focused_server_id # 0
                    /\ \E k \in Slots : /\ clients'[k].fd = f[1]
                                        /\ clients'[k].wins[f[2]].server_id = focused_server_id
  BY DEF TellsRight
<1>1. f \in out.told /\ f[1] \notin out.lost
  OBVIOUS
<1>2. /\ focused_server_id # 0
      /\ \E k \in Slots : /\ clients[k].fd = f[1]
                          /\ clients[k].wins[f[2]].server_id = focused_server_id
  BY <1>1 DEF TellsRight
<1> QED
  BY <1>2

\* A step that announces the focus to the clients there then are.
LEMMA TellsAnnounced ==
  ASSUME TellsRight, NEW o \in OutRec, o.told = out.told, out.lost \subseteq o.lost,
         clients' \in [Slots -> ClientRec], FoundOnce(clients'),
         out' = notify_focus(o, clients', focused_server_id'),
         OutTyped,
         \A k \in Slots, w \in Wid :
           clients[k].fd # NoConn /\ clients[k].wins[w].server_id # 0 =>
             /\ clients'[k].fd = clients[k].fd
             /\ clients'[k].wins[w].server_id = clients[k].wins[w].server_id
  PROVE  TellsRight'
<1>1. \A f \in out.told : f[1] \in Conn /\ f[2] \in Wid /\ f = <<f[1], f[2]>> /\ f[1] # NoConn
  BY ConnAssumption DEF OutTyped, OutRec
<1>2. CASE focused_server_id' = focused_server_id
  <2>1. out' = o
    BY <1>2, Notifying
  <2> QED
    BY <1>1, <1>2, <2>1, TellsKept
<1>3. CASE focused_server_id' # focused_server_id
  <2> DEFINE id == focused_server_id'
  <2>1. id # focused_server_id /\ out' = notify_focus(o, clients', id)
    BY <1>3
  <2> HIDE DEF id
  <2>2. \A f \in out'.told : f[1] \notin out'.lost =>
          \/ \E e \in find_by_server_id(clients', id) : f = <<clients'[e[1]].fd, e[2]>>
          \/ /\ f \in o.told
             /\ \A e \in find_by_server_id(clients', focused_server_id) :
                  f # <<clients'[e[1]].fd, e[2]>>
    BY <2>1, Retelling
  <2>3. o.lost \subseteq out'.lost
    BY <2>1, Notifying
  <2>4. ASSUME NEW f \in out'.told, f[1] \notin out'.lost
        PROVE  /\ id # 0
               /\ \E k \in Slots : /\ clients'[k].fd = f[1]
                                   /\ clients'[k].wins[f[2]].server_id = id
    <3>1. CASE \E e \in find_by_server_id(clients', id) : f = <<clients'[e[1]].fd, e[2]>>
      BY <3>1 DEF find_by_server_id
    <3>2. CASE /\ f \in out.told
               /\ \A e \in find_by_server_id(clients', focused_server_id) :
                    f # <<clients'[e[1]].fd, e[2]>>
      <4>1. f[1] \notin out.lost /\ f[1] # NoConn /\ f[2] \in Wid /\ f = <<f[1], f[2]>>
        BY <1>1, <2>3, <2>4, <3>2
      <4>2. PICK k \in Slots : /\ focused_server_id # 0 /\ clients[k].fd = f[1]
                               /\ clients[k].wins[f[2]].server_id = focused_server_id
        BY <3>2, <4>1 DEF TellsRight
      <4>3. /\ clients'[k].fd = f[1]
            /\ clients'[k].wins[f[2]].server_id = focused_server_id
        BY <4>1, <4>2
      <4>4. <<k, f[2]>> \in find_by_server_id(clients', focused_server_id)
        BY <4>1, <4>2, <4>3 DEF find_by_server_id
      <4>5. f # <<clients'[k].fd, f[2]>>
        BY <3>2, <4>4
      <4> QED
        BY <4>1, <4>3, <4>5
    <3> QED
      BY <2>2, <2>4, <3>1, <3>2
  <2> QED
    BY <2>4 DEF TellsRight, id
<1> QED
  BY <1>2, <1>3


\* What a connection is told of is a window of a client; what it has lost stays lost.
LEMMA LedgerForms ==
  ASSUME OutTyped
  PROVE  \A f \in out.told : f[1] \in Conn /\ f[2] \in Wid /\ f = <<f[1], f[2]>> /\ f[1] # NoConn
  BY ConnAssumption DEF OutTyped, OutRec

LEMMA NextTells ==
  ASSUME Base, TokensUnique, Owning, TellsRight, [Next]_vars
  PROVE  TellsRight'
<1>1. \A f \in out.told : f[1] \in Conn /\ f[2] \in Wid /\ f = <<f[1], f[2]>> /\ f[1] # NoConn
  BY LedgerForms DEF Base, Typed
<1>2. /\ out \in OutRec /\ OutTyped /\ clients \in [Slots -> ClientRec]
      /\ clients' \in [Slots -> ClientRec] /\ FoundOnce(clients')
  BY NextBase, NextOwning, NextFoundOnce DEF Base, Typed, OutTyped, TableTyped, Owning
<1>3. CASE Silent
  BY <1>1, <1>3, TellsKept DEF Silent, SameClient, NewClient
<1>4. ASSUME NEW k \in Slots, Freed(k)
      PROVE  TellsRight'
  <2>1. \A f \in out'.told : f \in out.told /\ f[1] # clients[k].fd
    BY <1>4 DEF Freed
  <2>2. \A f \in out'.told : f[1] \notin out'.lost => f \in out.told /\ f[1] \notin out.lost
    BY <1>4, <2>1 DEF Freed
  <2>3. \A f \in out'.told, j \in Slots : clients[j].fd = f[1] => clients'[j] = clients[j]
    BY <1>4, <2>1 DEF Freed
  <2> QED
    BY <1>4, <2>2, <2>3, TellsKept DEF Freed
<1>5. ASSUME NEW k \in Slots, NEW w \in Wid, Withdrawn(k, w)
      PROVE  TellsRight'
  <2>1. UNCHANGED focused_server_id /\ out'.lost = out.lost
        /\ out'.told = out.told \ {<<clients[k].fd, w>>}
    BY <1>5 DEF Withdrawn
  <2>2. ASSUME NEW f \in out'.told, NEW j \in Slots, clients[j].fd = f[1]
        PROVE  /\ clients'[j].fd = clients[j].fd
               /\ clients'[j].wins[f[2]].server_id = clients[j].wins[f[2]].server_id
    <3>1. CASE j # k
      BY <1>5, <3>1 DEF Withdrawn
    <3>2. CASE j = k
      <4>1. f \in out.told /\ f # <<clients[k].fd, w>>
        BY <2>1
      <4>2. f[2] # w /\ f[2] \in Wid
        BY <1>1, <2>2, <3>2, <4>1
      <4> QED
        BY <1>5, <3>2, <4>2 DEF Withdrawn
    <3> QED
      BY <3>1, <3>2
  <2> QED
    BY <2>1, <2>2, TellsKept
<1>6. CASE DispatchHello
  <2>1. /\ cur \in Slots /\ clients[cur].fd # NoConn /\ ~clients[cur].hello
        /\ \A k \in Slots : k # cur => clients'[k] = clients[k]
        /\ Greeted \/ \E o \in Slots : Reclaimed(o)
    BY <1>6, Greeting
  <2>2. \A w \in Wid : clients[cur].wins[w].server_id = 0
    BY <2>1 DEF TokensUnique, Used
  <2> DEFINE c == Fd
             d == [out EXCEPT !.screen[c] = screen]
  <2>3. out' = cl_send(out, c, d) /\ UNCHANGED focused_server_id
    BY <1>6 DEF DispatchHello, send_welcome
  <2>4. d \in OutRec /\ d.told = out.told /\ d.lost = out.lost
    BY <1>2 DEF OutRec, Base, Typed, SceneTyped
  <2>5. c \in Conn
    BY <2>1, ServedSlot DEF Fd, Base, Typed
  <2> HIDE DEF c, d
  <2>6. out'.told = out.told /\ out.lost \subseteq out'.lost
    BY <1>2, <2>3, <2>4, <2>5, Sending
  <2>7. \A f \in out'.told, k \in Slots :
          clients[k].wins[f[2]].server_id # 0 => clients'[k] = clients[k]
    BY <1>1, <2>1, <2>2, <2>6
  <2> QED
    BY <2>3, <2>6, <2>7, TellsKept
<1>7. CASE on_create_window /\ Created
  <2>1. /\ Fd \in Conn
        /\ \A k \in Slots : clients'[k].fd = clients[k].fd
        /\ \A k \in Slots, w \in Wid : clients[k].wins[w].server_id # 0 =>
             clients'[k].wins[w].server_id = clients[k].wins[w].server_id
    BY <1>7, CreatedClients
  <2> DEFINE o == cl_send(out, Fd, out)
  <2>2. o \in OutRec /\ o.told = out.told /\ out.lost \subseteq o.lost
    BY <1>2, <2>1, Sending
  <2>3. \/ focused_server_id' = stack.next_id /\ out' = notify_focus(o, clients', stack.next_id)
        \/ UNCHANGED focused_server_id /\ out' = o
    BY <1>7 DEF Created
  <2> HIDE DEF o
  <2>4. CASE out' = notify_focus(o, clients', focused_server_id')
    BY <1>2, <2>1, <2>2, <2>4, TellsAnnounced
  <2>5. CASE UNCHANGED focused_server_id /\ out' = o
    BY <1>1, <2>1, <2>2, <2>5, TellsKept
  <2> QED
    BY <2>3, <2>4, <2>5
<1>8. CASE transport_update_focus
  <2>1. clients' = clients /\ out' = notify_focus(out, clients', focused_server_id')
    BY <1>8 DEF transport_update_focus
  <2> QED
    BY <1>2, <2>1, TellsAnnounced
<1>9. ASSUME NEW m \in Screens, SetMode(m)
      PROVE  TellsRight'
  <2> DEFINE lost == {c \in ScreenAudience : c \in stalled \/ ~alive[c]}
             scr  == [c \in Conn |-> IF c \in ScreenAudience \ lost THEN m ELSE out.screen[c]]
  <2>1. /\ UNCHANGED <<clients, focused_server_id>>
        /\ out' = [out EXCEPT !.lost = @ \cup lost, !.screen = scr]
    BY <1>9 DEF SetMode, table
  <2> HIDE DEF lost, scr
  <2>2. out'.told = out.told /\ out.lost \subseteq out'.lost
    BY <1>2, <2>1 DEF OutRec
  <2> QED
    BY <2>1, <2>2, TellsKept
<1> QED
  BY <1>3, <1>4, <1>5, <1>6, <1>7, <1>8, <1>9, TellingSteps

LEMMA InitTells == Init => TellsRight
  BY DEF Init, TellsRight

LEMMA TellsImpliesAgrees == ASSUME Base, TellsRight PROVE FocusToldAgrees
<1>1. \A f \in out.told : f[1] # NoConn
  BY LedgerForms DEF Base, Typed
<1> QED
  BY <1>1 DEF TellsRight, FocusToldAgrees, Served

\* A window its client believes focused is the one the server last announced, unless
\* a send to that client failed (notify_focus, on_destroy_window, client_drop).
THEOREM FocusIsTold == Spec => []FocusToldAgrees
<1>1. Base /\ TokensUnique /\ Owning /\ TellsRight /\ [Next]_vars => TellsRight'
  BY NextTells
<1>2. Spec => []TellsRight
  BY <1>1, InitTells, OwningHolds, PTL DEF Spec
<1> QED
  BY <1>2, BaseHolds, TellsImpliesAgrees, PTL


\* The owner of the window last announced has been told that it is focused; that
\* window's id has been issued; and between two iterations it is the focused one.
OwnerTold ==
  \A e \in find_by_server_id(clients, focused_server_id) :
    clients[e[1]].fd \in out.lost \/ <<clients[e[1]].fd, e[2]>> \in out.told
FocusIssued == focused_server_id < stack.next_id
Announced   == pc = "poll" => focused_server_id = stack.focus_id

Telling == OwnerTold /\ FocusIssued /\ Announced

\* notify_focus when the focus has changed: the owner of the window that gains it is
\* told so, or counts as having lost a message.
LEMMA OwnerIsTold ==
  ASSUME NEW o \in OutRec, NEW cls \in [Slots -> ClientRec], NEW id, FoundOnce(cls),
         id # focused_server_id, NEW t, t = notify_focus(o, cls, id),
         NEW x \in find_by_server_id(cls, id)
  PROVE  cls[x[1]].fd \in t.lost \/ <<cls[x[1]].fd, x[2]>> \in t.told
<1> DEFINE old == find_by_server_id(cls, focused_server_id)
           new == find_by_server_id(cls, id)
           e   == CHOOSE y \in old : TRUE
           g   == CHOOSE y \in new : TRUE
           o1  == IF old = {} THEN o ELSE SendFocus(o, cls, e, FALSE)
<1>1. t = SendFocus(o1, cls, g, TRUE)
  BY DEF notify_focus
<1>2. \A i : \A y \in find_by_server_id(cls, i) : y \in Slots \X Wid /\ cls[y[1]].fd \in Conn
  BY DEF find_by_server_id, ClientRec
<1>3. g = x
  BY DEF FoundOnce
<1>4. old # {} => e \in Slots \X Wid /\ cls[e[1]].fd \in Conn
  BY <1>2
<1> HIDE DEF e, g, old, new
<1>5. o1 \in OutRec
  <2>1. CASE old = {}
    BY <2>1
  <2>2. CASE old # {}
    BY <1>4, <2>2, FocusMessage
  <2> QED
    BY <2>1, <2>2
<1> HIDE DEF o1
<1>6. PICK c, p : c = cls[x[1]].fd /\ p = <<c, x[2]>>
  OBVIOUS
<1> DEFINE d == [o1 EXCEPT !.told = @ \cup {p}]
           l == [o1 EXCEPT !.lost = @ \cup {c}]
<1>7. t = d \/ t = l
  BY <1>1, <1>3, <1>6 DEF SendFocus, cl_send
<1>8. p \in d.told /\ c \in l.lost
  BY <1>5 DEF OutRec
<1> HIDE DEF d, l
<1> QED
  BY <1>6, <1>7, <1>8

\* A step that does not move the focus, and after which the clients that own the
\* focused window did so before and still know it.
LEMMA OwnerKept ==
  ASSUME OwnerTold, UNCHANGED focused_server_id,
         \A e \in find_by_server_id(clients', focused_server_id) :
           /\ clients'[e[1]].fd = clients[e[1]].fd /\ clients[e[1]].fd # NoConn
           /\ clients'[e[1]].wins[e[2]].server_id = clients[e[1]].wins[e[2]].server_id
           /\ clients[e[1]].fd \in out.lost => clients[e[1]].fd \in out'.lost
           /\ <<clients[e[1]].fd, e[2]>> \in out.told => <<clients[e[1]].fd, e[2]>> \in out'.told
  PROVE  OwnerTold'
<1>1. ASSUME NEW e \in find_by_server_id(clients', focused_server_id)
      PROVE  clients'[e[1]].fd \in out'.lost \/ <<clients'[e[1]].fd, e[2]>> \in out'.told
  <2>1. e \in find_by_server_id(clients, focused_server_id)
    BY <1>1 DEF find_by_server_id
  <2> QED
    BY <1>1, <2>1 DEF OwnerTold
<1> QED
  BY <1>1 DEF OwnerTold

\* Ids are never taken back.
LEMMA IdsAdvance ==
  ASSUME Base, [Next]_vars
  PROVE  stack.next_id <= stack'.next_id
<1>1. Sound(stack) /\ stack.next_id \in Nat
  BY DEF Base, Typed, SceneTyped, Sound, Stack
<1>2. ASSUME NEW e \in Entry, TakenOff(e)
      PROVE  stack'.next_id = stack.next_id
  BY <1>1, <1>2, TakeDown DEF TakenOff
<1>3. ASSUME on_set_geometry
      PROVE  stack'.next_id = stack.next_id
  <2>1. Msg.rect \in Rect
    BY <1>3, Receiving, MessageForms DEF on_set_geometry
  <2>2. \/ stack' = stack
        \/ stack' = window_set_geometry(stack, clients[cur].wins[Msg.wid].server_id, Msg.rect)
    BY <1>3 DEF on_set_geometry
  <2>3. ASSUME NEW id, stack' = window_set_geometry(stack, id, Msg.rect)
        PROVE  stack'.next_id = stack.next_id
    BY <1>1, <2>1, <2>3, SetGeometrySound
  <2> QED
    BY <2>2, <2>3
<1>4. ASSUME NEW m \in Screens, SetMode(m)
      PROVE  stack'.next_id = stack.next_id
  BY <1>1, <1>4 DEF SetMode, Sound, Stack
<1>5. ASSUME NEW id, stack' = window_focus(stack, id)
      PROVE  stack'.next_id = stack.next_id
  BY <1>1, <1>5, FocusSound
<1>6. ASSUME NEW e \in Entry, NEW fresh, Committed(e, fresh)
      PROVE  stack'.next_id = stack.next_id
  BY <1>6 DEF Committed
<1>7. Created => stack'.next_id = stack.next_id + 1
  BY DEF Created
<1>8. stack'.next_id = stack.next_id \/ stack'.next_id = stack.next_id + 1
  BY <1>2, <1>3, <1>4, <1>5, <1>6, <1>7, StackSteps
<1> QED
  BY <1>1, <1>8

\* poll is entered by the focus sync only.
LEMMA PollEntered ==
  ASSUME [Next]_vars, pc' = "poll", ~transport_update_focus
  PROVE  pc = "poll" /\ UNCHANGED <<stack, focused_server_id>>
<1> USE DEF AfterDrop
<1>1. ASSUME \/ Wake \/ InputFocus \/ TransportProcess \/ ExpireDone \/ HandleListen
             \/ AcceptDone \/ EventsDone \/ RecvEnd \/ Quit \/ Halt \/ ReapWindow
             \/ (\E c \in Conn : Accept(c) \/ client_readable(c))
      PROVE  FALSE
  BY <1>1 DEF Wake, InputFocus, Poll, TransportProcess, ExpireDone, HandleListen, AcceptDone,
              EventsDone, RecvEnd, Quit, Halt, ReapWindow, Accept, client_readable, Goto, loop
<1>2. ASSUME \/ DispatchReject \/ RecvHangup \/ ReapDone
             \/ (\E c \in Conn : HandleHangup(c)) \/ (\E k \in Slots : StopClient(k))
      PROVE  FALSE
  BY <1>2 DEF DispatchReject, RecvHangup, ReapDone, HandleHangup, StopClient, client_drop, Release
<1>3. ASSUME \/ DispatchHello \/ DispatchOther \/ on_create_window \/ on_commit
             \/ on_destroy_window \/ on_set_geometry \/ on_set_cursor
      PROVE  FALSE
  BY <1>3 DEF DispatchHello, DispatchOther, on_create_window, on_commit, on_destroy_window,
              on_set_geometry, on_set_cursor, Recv, loop
<1>4. ASSUME \/ (\E o \in Slots : orphan_destroy(o)) \/ (\E m \in Screens : SetMode(m))
      PROVE  FALSE
  BY <1>4 DEF orphan_destroy, Reaping, SetMode, loop
<1>5. ASSUME Client \/ (\E o \in Slots : GraceElapses(o)) \/ UNCHANGED vars
      PROVE  UNCHANGED <<pc, stack, focused_server_id>>
  BY <1>5 DEF Client, ClientConnect, ClientClose, ClientStall, ClientSend, GraceElapses, vars,
              scene, table, loop
<1> QED
  BY <1>1, <1>2, <1>3, <1>4, <1>5 DEF Next, ServerStep, Dispatch


LEMMA NextOwnerTold ==
  ASSUME Tokens = {0}, Base, TokensUnique, Owning, Telling, [Next]_vars
  PROVE  OwnerTold'
<1> OwnerTold /\ FocusIssued
  BY DEF Telling
<1>1. \A e \in find_by_server_id(clients', focused_server_id) :
        /\ e[1] \in Slots /\ e[2] \in Wid /\ e = <<e[1], e[2]>> /\ focused_server_id # 0
        /\ clients'[e[1]].fd # NoConn
        /\ clients'[e[1]].wins[e[2]].server_id = focused_server_id
  BY DEF find_by_server_id
<1>2. /\ out \in OutRec /\ clients \in [Slots -> ClientRec]
      /\ clients' \in [Slots -> ClientRec] /\ FoundOnce(clients')
  BY NextBase, NextOwning, NextFoundOnce DEF Base, Typed, OutTyped, TableTyped, Owning
<1>3. CASE Silent
  <2>1. ASSUME NEW k \in Slots, NEW w \in Wid, clients'[k].wins[w].server_id # 0,
               clients'[k].fd # NoConn
        PROVE  /\ clients'[k].fd = clients[k].fd /\ clients[k].fd # NoConn
               /\ clients'[k].wins[w].server_id = clients[k].wins[w].server_id
    BY <1>3, <2>1 DEF Silent, SameClient, NewClient, NoSession, Used
  <2> QED
    BY <1>1, <1>3, <2>1, OwnerKept DEF Silent
<1>4. ASSUME NEW k \in Slots, Freed(k)
      PROVE  OwnerTold'
  <2>1. ASSUME NEW j \in Slots, clients'[j].fd # NoConn
        PROVE  clients'[j] = clients[j] /\ clients[j].fd # NoConn /\ clients[j].fd # clients[k].fd
    BY <1>4, <2>1 DEF Freed, NoClient, Base, Seated
  <2>2. /\ out'.lost = out.lost \ {clients[k].fd}
        /\ out'.told = {f \in out.told : f[1] # clients[k].fd}
        /\ UNCHANGED focused_server_id
    BY <1>4 DEF Freed
  <2> QED
    BY <1>1, <2>1, <2>2, OwnerKept
<1>5. ASSUME NEW k \in Slots, NEW w \in Wid, Withdrawn(k, w)
      PROVE  OwnerTold'
  <2>1. UNCHANGED focused_server_id /\ out'.lost = out.lost
        /\ out'.told = out.told \ {<<clients[k].fd, w>>}
    BY <1>5 DEF Withdrawn
  <2>2. ASSUME NEW j \in Slots, NEW x \in Wid, clients'[j].fd # NoConn,
               clients'[j].wins[x].server_id # 0
        PROVE  /\ clients'[j].fd = clients[j].fd
               /\ clients'[j].wins[x].server_id = clients[j].wins[x].server_id
               /\ <<clients[j].fd, x>> # <<clients[k].fd, w>>
    <3>1. CASE j # k
      BY <1>5, <2>2, <3>1 DEF Withdrawn, Base, Seated
    <3>2. CASE j = k
      BY <1>5, <2>2, <3>2 DEF Withdrawn
    <3> QED
      BY <3>1, <3>2
  <2> QED
    BY <1>1, <2>1, <2>2, OwnerKept
<1>6. CASE DispatchHello
  <2>1. /\ cur \in Slots /\ clients[cur].fd # NoConn
        /\ \A k \in Slots : k # cur => clients'[k] = clients[k]
        /\ Greeted \/ \E o \in Slots : Reclaimed(o)
    BY <1>6, Greeting
  <2>2. \A o \in Slots : ~Reclaimed(o)
    <3>1. Msg.token = 0
      BY <1>6, Receiving, MessageForms DEF DispatchHello
    <3> QED
      BY <3>1 DEF Reclaimed
  <2>3. \A k \in Slots : clients'[k].fd = clients[k].fd /\ clients'[k].wins = clients[k].wins
    BY <2>1, <2>2 DEF Greeted
  <2> DEFINE c == Fd
             d == [out EXCEPT !.screen[c] = screen]
  <2>4. out' = cl_send(out, c, d) /\ UNCHANGED focused_server_id
    BY <1>6 DEF DispatchHello, send_welcome
  <2>5. d \in OutRec /\ d.told = out.told /\ d.lost = out.lost
    BY <1>2 DEF OutRec, Base, Typed, SceneTyped
  <2>6. c \in Conn
    BY <2>1, ServedSlot DEF Fd, Base, Typed
  <2> HIDE DEF c, d
  <2>7. out'.told = out.told /\ out.lost \subseteq out'.lost
    BY <1>2, <2>4, <2>5, <2>6, Sending
  <2> QED
    BY <1>1, <2>3, <2>4, <2>7, OwnerKept
<1>7. CASE on_create_window /\ Created
  <2>1. /\ Fd \in Conn
        /\ \A k \in Slots : clients'[k].fd = clients[k].fd
        /\ \A k \in Slots, w \in Wid :
             \/ clients'[k].wins[w].server_id = clients[k].wins[w].server_id
             \/ clients'[k].wins[w].server_id = stack.next_id
    BY <1>7, CreatedClients
  <2> DEFINE o == cl_send(out, Fd, out)
  <2>2. o \in OutRec /\ o.told = out.told /\ out.lost \subseteq o.lost
    BY <1>2, <2>1, Sending
  <2>3. \/ focused_server_id' = stack.next_id /\ out' = notify_focus(o, clients', stack.next_id)
        \/ UNCHANGED focused_server_id /\ out' = o
    BY <1>7 DEF Created
  <2> HIDE DEF o
  <2>4. stack.next_id # focused_server_id
    BY DEF FocusIssued, Base, Typed, SceneTyped, Sound, Stack, TableTyped
  <2>5. CASE focused_server_id' = stack.next_id /\ out' = notify_focus(o, clients', stack.next_id)
    BY <1>2, <2>2, <2>4, <2>5, OwnerIsTold DEF OwnerTold
  <2>6. CASE UNCHANGED focused_server_id /\ out' = o
    BY <1>1, <2>1, <2>2, <2>4, <2>6, OwnerKept
  <2> QED
    BY <2>3, <2>5, <2>6
<1>8. CASE transport_update_focus
  <2> DEFINE id == stack.focus_id
  <2>1. clients' = clients /\ focused_server_id' = id /\ out' = notify_focus(out, clients, id)
    BY <1>8 DEF transport_update_focus
  <2> HIDE DEF id
  <2>2. CASE id = focused_server_id
    <3>1. out' = out
      BY <1>2, <2>1, <2>2, Notifying
    <3> QED
      BY <2>1, <2>2, <3>1 DEF OwnerTold
  <2>3. CASE id # focused_server_id
    BY <1>2, <2>1, <2>3, OwnerIsTold DEF OwnerTold
  <2> QED
    BY <2>2, <2>3
<1>9. ASSUME NEW m \in Screens, SetMode(m)
      PROVE  OwnerTold'
  <2> DEFINE lost == {c \in ScreenAudience : c \in stalled \/ ~alive[c]}
             scr  == [c \in Conn |-> IF c \in ScreenAudience \ lost THEN m ELSE out.screen[c]]
  <2>1. /\ UNCHANGED <<clients, focused_server_id>>
        /\ out' = [out EXCEPT !.lost = @ \cup lost, !.screen = scr]
    BY <1>9 DEF SetMode, table
  <2> HIDE DEF lost, scr
  <2>2. out'.told = out.told /\ out.lost \subseteq out'.lost
    BY <1>2, <2>1 DEF OutRec
  <2> QED
    BY <1>1, <2>1, <2>2, OwnerKept
<1> QED
  BY <1>3, <1>4, <1>5, <1>6, <1>7, <1>8, <1>9, TellingSteps

LEMMA NextTelling ==
  ASSUME Tokens = {0}, Base, TokensUnique, Owning, Telling, [Next]_vars
  PROVE  Telling'
<1>1. OwnerTold'
  BY NextOwnerTold
<1>2. /\ stack.next_id \in Nat /\ stack'.next_id \in Nat /\ focused_server_id \in Nat
      /\ stack.focus_id \in Nat
      /\ stack.next_id <= stack'.next_id
      /\ stack.focus_id = 0 \/ stack.focus_id < stack.next_id
      /\ stack.next_id > 0 /\ focused_server_id < stack.next_id
  BY NextBase, IdsAdvance DEF Base, Typed, SceneTyped, Sound, Stack, TableTyped, FocusLive,
     Exists, UniqueIds, Telling, FocusIssued
<1>3. \/ focused_server_id' = focused_server_id
      \/ focused_server_id' = stack.focus_id
      \/ focused_server_id' = stack.next_id /\ stack'.next_id = stack.next_id + 1
  BY TellingSteps DEF Silent, Freed, Withdrawn, DispatchHello, Created, transport_update_focus,
     SetMode, table
<1>4. FocusIssued'
  BY <1>2, <1>3 DEF FocusIssued
<1>5. ASSUME transport_update_focus
      PROVE  Announced'
  BY <1>5 DEF transport_update_focus, scene, Announced
<1>6. ASSUME ~transport_update_focus
      PROVE  Announced'
  BY <1>6, PollEntered DEF Announced, Telling
<1> QED
  BY <1>1, <1>4, <1>5, <1>6 DEF Telling, Announced

LEMMA InitTelling == Init => Telling
  BY DEF Init, Telling, OwnerTold, FocusIssued, Announced, find_by_server_id, window_stack_init

LEMMA TellingImpliesTold == Telling => FocusedOwnerTold
  BY DEF Telling, OwnerTold, Announced, FocusedOwnerTold

\* Between two iterations the client that owns the focused window knows that it is
\* focused, or a send to it failed, as long as no client presents a reconnect token:
\* client_reclaim hands the focused window to a connection that is never told so.
THEOREM OwnerKnowsFocus == ASSUME Tokens = {0} PROVE Spec => []FocusedOwnerTold
<1>1. Base /\ TokensUnique /\ Owning /\ Telling /\ [Next]_vars => Telling'
  BY NextTelling
<1>2. Spec => []Telling
  BY <1>1, InitTelling, OwningHolds, PTL DEF Spec
<1> QED
  BY <1>2, TellingImpliesTold, PTL


----------------------------------------------------------------------------
(* Reconnection.                                                           *)

\* The connection of the slot being reaped.
Losing == IF pc = "reap" THEN {clients[cur].fd} ELSE {}

\* Of the hang-ups there were when a connection was first reported, those not dealt
\* with are still pending; none are once the connection itself is read.
PriorSettled ==
  /\ \A c \in Conn : prior[c] \subseteq evs.hup \cup Losing
  /\ \A c \in evs.in : prior[c] = {}
  /\ pc = "drain" => prior[clients[cur].fd] = {}

\* A connection being dropped is one of no pending event, and its events are all
\* that may have gone.
LEMMA DropLeaves ==
  ASSUME Base, NEW k, Handling(k), PriorSettled, client_drop(k) \/ Release(k),
         \A c \in Conn : prior[c] \subseteq evs'.hup \cup {clients[k].fd}
  PROVE  PriorSettled'
<1> DEFINE d == clients[k].fd
<1>1. d \in Conn
  BY ServedSlot DEF Base, Typed, Handling
<1>2. evs'.in \subseteq evs.in /\ evs'.in \subseteq Conn /\ evs'.hup \subseteq Conn
  BY EventsLeft
<1>4. \A c \in Conn : prior[c] \subseteq evs'.hup \cup {d}
  OBVIOUS
<1> HIDE DEF d
<1>5. CASE /\ prior' = [c \in Conn |-> IF c = d THEN {} ELSE prior[c] \ {d}]
           /\ pc' # "reap" /\ pc' # "drain"
  BY <1>2, <1>4, <1>5 DEF PriorSettled, Losing
<1>6. CASE pc' = "reap" /\ cur' = k /\ UNCHANGED <<clients, prior>>
  <2>1. Losing' = {d}
    BY <1>6 DEF Losing, d
  <2> QED
    BY <1>2, <1>4, <1>6, <2>1 DEF PriorSettled
<1> QED
  BY <1>5, <1>6 DEF client_drop, Release, AfterDrop, d


LEMMA NextPrior == ASSUME Base, TokensUnique, PriorSettled, [Next]_vars PROVE PriorSettled'
<1>1. /\ evs \in [listen : BOOLEAN, in : SUBSET Conn, hup : SUBSET Conn]
      /\ prior \in [Conn -> SUBSET Conn]
      /\ pc \in {"drain", "reap"} => cur \in Slots /\ clients[cur].fd \in Conn
  BY ServedSlot DEF Base, Typed, LoopTyped, Pending
<1>2. ASSUME UNCHANGED <<evs, prior, pc, cur>>,
             pc \in {"drain", "reap"} => clients'[cur].fd = clients[cur].fd
      PROVE  PriorSettled'
  BY <1>2 DEF PriorSettled, Losing
<1>3. CASE \/ Quit \/ Client \/ DispatchOther \/ on_set_geometry \/ on_set_cursor
           \/ (\E o \in Slots : GraceElapses(o) \/ orphan_destroy(o))
           \/ (\E m \in Screens : SetMode(m)) \/ UNCHANGED vars
  <2>1. ASSUME Quit \/ Client \/ DispatchOther \/ on_set_geometry \/ on_set_cursor
        PROVE  UNCHANGED <<evs, prior, pc, cur, clients>>
    BY <2>1 DEF Quit, Client, ClientConnect, ClientClose, ClientStall, ClientSend, DispatchOther,
                on_set_geometry, on_set_cursor, table, loop
  <2>2. ASSUME \/ (\E o \in Slots : GraceElapses(o) \/ orphan_destroy(o))
               \/ (\E m \in Screens : SetMode(m)) \/ UNCHANGED vars
        PROVE  UNCHANGED <<evs, prior, pc, cur, clients>>
    BY <2>2 DEF GraceElapses, orphan_destroy, SetMode, vars, table, loop
  <2> QED
    BY <1>2, <1>3, <2>1, <2>2
<1>4. ASSUME ReapWindow \/ on_create_window \/ on_commit \/ on_destroy_window
      PROVE  /\ UNCHANGED <<evs, prior, pc, cur>>
             /\ pc \in {"drain", "reap"} => clients'[cur].fd = clients[cur].fd
  <2>1. UNCHANGED <<evs, prior, pc, cur>>
    BY <1>4 DEF ReapWindow, on_create_window, on_commit, on_destroy_window, loop
  <2>2. pc \in {"drain", "reap"}
    BY <1>4 DEF ReapWindow, on_create_window, on_commit, on_destroy_window, Recv
  <2>3. ASSUME NEW k \in Slots, k = cur
        PROVE  clients'[k].fd = clients[k].fd
    <3>1. clients[k].fd # NoConn
      BY <2>2, <2>3 DEF Base, Pending
    <3>2. CASE Silent
      BY <3>1, <3>2 DEF Silent, SameClient, NewClient
    <3>3. CASE \E j \in Slots, w \in Wid : Withdrawn(j, w)
      BY <3>3 DEF Withdrawn
    <3>4. CASE on_create_window /\ Created
      BY <2>3, <3>4, CreatedClients
    <3>5. ASSUME NEW j \in Slots, Freed(j)
          PROVE  FALSE
      <4>1. conn' = conn
        BY <1>4 DEF ReapWindow, on_create_window, on_commit, on_destroy_window, socket
      <4>2. PICK c \in Conn : clients[j].fd = c /\ clients'[j].fd # c
        BY <3>5, ConnAssumption DEF Freed, NoClient
      <4>3. conn'[c] = "served"
        BY <4>1, <4>2 DEF Base, Seated
      <4>4. PICK i \in Slots : clients'[i].fd = c
        BY <4>3, NextBase DEF Base, Seated
      <4> QED
        BY <3>5, <4>2, <4>4, ConnAssumption DEF Freed, Base, Seated
    <3>6. ~DispatchHello /\ ~transport_update_focus /\ \A m \in Screens : ~SetMode(m)
      BY <2>2, <1>4 DEF DispatchHello, transport_update_focus, SetMode, ReapWindow,
         on_create_window, on_commit, on_destroy_window, Recv
    <3> QED
      BY <3>2, <3>3, <3>4, <3>5, <3>6, TellingSteps
  <2> QED
    BY <1>1, <2>1, <2>2, <2>3
<1>5. CASE \/ Wake \/ InputFocus \/ ExpireDone \/ HandleListen \/ AcceptDone \/ EventsDone
           \/ RecvEnd \/ transport_update_focus \/ Halt \/ (\E c \in Conn : Accept(c))
  <2>1. /\ prior' = prior /\ pc' # "reap" /\ pc' # "drain" /\ pc # "reap"
        /\ evs' = evs \/ evs' = [evs EXCEPT !.listen = FALSE]
    BY <1>5 DEF Wake, InputFocus, Poll, ExpireDone, HandleListen, AcceptDone, EventsDone, RecvEnd,
                transport_update_focus, Halt, Accept, Goto, loop
  <2>2. evs'.in = evs.in /\ evs'.hup = evs.hup
    BY <1>1, <2>1
  <2> QED
    BY <2>1, <2>2 DEF PriorSettled, Losing
<1>6. CASE TransportProcess
  <2> DEFINE e == epoll_wait
  <2>1. /\ evs' = e /\ pc' = "expire" /\ pc = "process"
        /\ prior' = [c \in Conn |-> IF c \in Backlog THEN HungUp ELSE prior[c]]
    BY <1>6 DEF TransportProcess
  <2>2. evs = NoEvents /\ NoEvents.hup = {}
    BY <2>1 DEF Base, Pending, NoEvents
  <2>3. /\ e.hup = HungUp
        /\ \A c \in e.in : c \in Conn /\ c \notin Backlog
    BY DEF epoll_wait, Backlog
  <2> HIDE DEF e
  <2>4. \A c \in Conn : prior[c] = {}
    BY <2>1, <2>2 DEF PriorSettled, Losing
  <2> QED
    BY <2>1, <2>3, <2>4 DEF PriorSettled, Losing
<1>7. ASSUME NEW c \in Conn, client_readable(c)
      PROVE  PriorSettled'
  <2>1. /\ UNCHANGED <<clients, prior>> /\ c \in evs.in /\ pc = "events"
        /\ evs' = [evs EXCEPT !.in = @ \ {c}] /\ pc' = "drain" /\ cur' = SlotOf(c)
    BY <1>7 DEF client_readable, table
  <2>2. clients[SlotOf(c)].fd = c
    BY <2>1, ServedSlot DEF Base, Typed, Pending
  <2>3. evs'.in = evs.in \ {c} /\ evs'.hup = evs.hup
    BY <1>1, <2>1
  <2> QED
    BY <2>1, <2>2, <2>3 DEF PriorSettled, Losing
<1>8. CASE DispatchHello
  <2>1. /\ UNCHANGED <<evs, pc, cur>> /\ prior' = [prior EXCEPT ![Fd] = {}] /\ pc = "drain"
    BY <1>8 DEF DispatchHello, Recv
  <2>2. clients'[cur].fd = clients[cur].fd
    <3>1. Greeted => clients'[cur].fd = clients[cur].fd
      BY DEF Greeted
    <3>2. ASSUME NEW o \in Slots, Reclaimed(o)
          PROVE  clients'[cur].fd = clients[cur].fd
      BY <3>2 DEF Reclaimed
    <3> QED
      BY <1>8, <3>1, <3>2, Greeting
  <2>3. prior'[clients[cur].fd] = {} /\ \A c \in Conn : prior'[c] \subseteq prior[c]
    BY <1>1, <2>1 DEF Fd
  <2> QED
    BY <1>1, <2>1, <2>2, <2>3 DEF PriorSettled, Losing
<1>9. CASE Lose
  <2>1. PICK k : Handling(k) /\ client_drop(k)
    BY <1>9, LosingDrops
  <2>2. pc # "reap"
    BY <1>9 DEF Lose, DispatchReject, RecvHangup, HandleHangup, StopClient
  <2>3. \A c \in Conn : prior[c] \subseteq evs'.hup \cup {clients[k].fd}
    BY <1>1, <2>1, <2>2 DEF PriorSettled, Losing, Handling
  <2> QED
    BY <2>1, <2>3, DropLeaves
<1>10. CASE ReapDone
  <2>1. Handling(cur) /\ Release(cur) /\ pc = "reap" /\ evs' = evs
    BY <1>10 DEF Base, Pending, Handling, ReapDone
  <2> QED
    BY <2>1, DropLeaves DEF PriorSettled, Losing
<1> QED
  BY <1>2, <1>3, <1>4, <1>5, <1>6, <1>7, <1>8, <1>9, <1>10, Steps DEF Still

LEMMA InitPrior == Init => PriorSettled
  BY DEF Init, PriorSettled, Losing, NoEvents

LEMMA PriorImpliesFound == ASSUME Base, PriorSettled PROVE ReconnectFindsOrphan
  BY DEF PriorSettled, ReconnectFindsOrphan, Recv, Fd

\* A client that reconnects is not met by the slot of its dead connection: a hang-up
\* there was when the new connection was first reported is dealt with before the new
\* connection is read (epoll_wait's order of accept, hang-ups and reads, client_drop).
THEOREM OrphanFound == Spec => []ReconnectFindsOrphan
<1>1. Base /\ TokensUnique /\ PriorSettled /\ [Next]_vars => PriorSettled'
  BY NextPrior
<1>2. Spec => []PriorSettled
  BY <1>1, InitPrior, BaseHolds, OneSessionPerToken, PTL DEF Spec
<1> QED
  BY <1>2, BaseHolds, PriorImpliesFound, PTL


----------------------------------------------------------------------------
(* Shutdown.                                                               *)

\* At most one descriptor is left of a commit once the fence is taken.
OneFrameFd == \A f \in Commits : FdsAfterFence(f) <= 1

\* The server has stopped when the tables are empty, and stays stopped.
Stopped == pc = "halted" => Served = {} /\ Held = {}

LEMMA HaltedStays ==
  ASSUME [Next]_vars, pc' = "halted"
  PROVE  Halt \/ UNCHANGED vars
<1> USE DEF AfterDrop
<1>1. ASSUME \/ Wake \/ InputFocus \/ TransportProcess \/ ExpireDone \/ HandleListen
             \/ AcceptDone \/ EventsDone \/ RecvEnd \/ Quit \/ ReapWindow
             \/ transport_update_focus
             \/ (\E c \in Conn : Accept(c) \/ client_readable(c))
      PROVE  FALSE
  BY <1>1 DEF Wake, InputFocus, Poll, TransportProcess, ExpireDone, HandleListen, AcceptDone,
              EventsDone, RecvEnd, Quit, ReapWindow, Accept, client_readable, Goto, loop,
              transport_update_focus
<1>2. ASSUME \/ DispatchReject \/ RecvHangup \/ ReapDone
             \/ (\E c \in Conn : HandleHangup(c)) \/ (\E k \in Slots : StopClient(k))
      PROVE  FALSE
  BY <1>2 DEF DispatchReject, RecvHangup, ReapDone, HandleHangup, StopClient, client_drop, Release
<1>3. ASSUME \/ DispatchHello \/ DispatchOther \/ on_create_window \/ on_commit
             \/ on_destroy_window \/ on_set_geometry \/ on_set_cursor
      PROVE  FALSE
  BY <1>3 DEF DispatchHello, DispatchOther, on_create_window, on_commit, on_destroy_window,
              on_set_geometry, on_set_cursor, Recv, loop
<1>4. ASSUME \/ (\E o \in Slots : orphan_destroy(o)) \/ (\E m \in Screens : SetMode(m))
      PROVE  FALSE
  BY <1>4 DEF orphan_destroy, Reaping, SetMode, loop
<1>5. ASSUME Client \/ (\E o \in Slots : GraceElapses(o))
      PROVE  FALSE
  BY <1>5 DEF Client, ClientConnect, ClientClose, ClientStall, ClientSend, GraceElapses, loop
<1> QED
  BY <1>1, <1>2, <1>3, <1>4, <1>5 DEF Next, ServerStep, Dispatch

LEMMA NextStopped == ASSUME Stopped, [Next]_vars PROVE Stopped'
<1>1. CASE pc' = "halted"
  <2>1. CASE Halt
    <3>1. /\ \A k \in Slots : clients[k].fd = NoConn /\ orphans[k].token = 0
          /\ UNCHANGED <<clients, orphans>>
      BY <2>1 DEF Halt, table
    <3> QED
      BY <3>1 DEF Stopped, Served, Held
  <2>2. CASE UNCHANGED vars
    BY <2>2 DEF vars, loop, table, Stopped, Served, Held
  <2> QED
    BY <1>1, <2>1, <2>2, HaltedStays
<1>2. CASE pc' # "halted"
  BY <1>2 DEF Stopped
<1> QED
  BY <1>1, <1>2

LEMMA NextLeak ==
  ASSUME OneFrameFd, Base, ~fd_leak, [Next]_vars
  PROVE  ~fd_leak'
<1>1. CASE on_commit
  <2>1. Msg.form \in Commits
    BY <1>1, Committing
  <2>2. FdsAfterFence(Msg.form) \in Nat
    BY <2>1, FieldsAssumption DEF FdsAfterFence
  <2>3. ~(FdsAfterFence(Msg.form) > 1)
    BY <2>1, <2>2 DEF OneFrameFd
  <2> QED
    BY <1>1, <2>3 DEF on_commit
<1>2. ASSUME Still \/ Lose
      PROVE  fd_leak' = fd_leak
  <2>1. ASSUME Still
        PROVE  fd_leak' = fd_leak
    BY <2>1 DEF Still, Wake, InputFocus, Poll, TransportProcess, ExpireDone, HandleListen,
       AcceptDone, EventsDone, RecvEnd, transport_update_focus, Quit, Client, ClientConnect,
       ClientClose, ClientStall, ClientSend, Halt, DispatchOther, on_set_geometry,
       on_set_cursor, GraceElapses, SetMode, Goto, vars, scene
  <2> QED
    BY <1>2, <2>1, LosingDrops DEF scene
<1>3. ASSUME \/ ReapWindow \/ ReapDone \/ (\E c \in Conn : Accept(c) \/ client_readable(c))
             \/ (\E o \in Slots : orphan_destroy(o))
             \/ DispatchHello \/ on_create_window \/ on_destroy_window
      PROVE  fd_leak' = fd_leak
  BY <1>3 DEF ReapWindow, ReapDone, Accept, client_readable, orphan_destroy, DispatchHello,
              on_create_window, on_destroy_window, scene
<1> QED
  BY <1>1, <1>2, <1>3, Steps

\* A sequence without positions is empty.
LEMMA NoPositions ==
  ASSUME NEW S, NEW s \in Seq(S), DOMAIN s = {}
  PROVE  s = << >>
<1>1. PICK n \in Nat : n = Len(s) /\ DOMAIN s = 1 .. n
  OBVIOUS
<1>2. 1 \notin 1 .. n
  BY <1>1
<1>3. n = 0
  BY <1>2
<1>4. Len(s) = 0
  BY <1>1, <1>3
<1> QED
  BY <1>4, EmptySeq

LEMMA StoppedIsClean ==
  ASSUME Base, TokensUnique, BuffersOwned, SingleOwner, Stopped, ~fd_leak
  PROVE  CleanStop
<1> SUFFICES ASSUME pc = "halted"
             PROVE  stack.windows = << >> /\ mapped = {} /\ Served = {} /\ Held = {}
  BY DEF CleanStop
<1>1. Served = {} /\ Held = {}
  BY DEF Stopped
<1>2. ASSUME NEW e \in InUse
      PROVE  FALSE
  <2>1. PICK k \in Slots, w \in Wid : \/ e = <<"client", k, w>> /\ EntryAt(e) = clients[k].wins[w]
                                      \/ e = <<"orphan", k, w>> /\ EntryAt(e) = orphans[k].wins[w]
    <3>1. e \in Entries
      BY DEF InUse
    <3>2. PICK k \in Slots, w \in Wid : e = <<"client", k, w>> \/ e = <<"orphan", k, w>>
      BY <3>1, EntryForms
    <3>3. /\ e = <<"client", k, w>> => EntryAt(e) = clients[k].wins[w]
          /\ e = <<"orphan", k, w>> => EntryAt(e) = orphans[k].wins[w]
      BY DEF EntryAt
    <3> QED
      BY <3>2, <3>3
  <2>2. EntryAt(e).server_id # 0
    BY DEF InUse
  <2>3. clients[k].wins[w] = NoWin
    BY <1>1 DEF Base, Seated, Served, NoClient, NoWins
  <2>4. orphans[k].wins[w].server_id = 0
    BY <1>1 DEF TokensUnique, Used, Held
  <2> QED
    BY <2>1, <2>2, <2>3, <2>4 DEF NoWin
<1>3. InUse = {}
  BY <1>2
<1>4. mapped = {}
  BY <1>3 DEF BuffersOwned
<1>5. Ids(stack) = {}
  <2>1. ASSUME NEW id \in Ids(stack)
        PROVE  FALSE
    <3>1. Cardinality({e \in InUse : EntryAt(e).server_id = id}) = 1
      BY DEF SingleOwner
    <3>2. {e \in InUse : EntryAt(e).server_id = id} = {}
      BY <1>3
    <3> QED
      BY <3>1, <3>2, FS_EmptySet
  <2> QED
    BY <2>1
<1>6. stack.windows = << >>
  <2>1. stack.windows \in Seq(Window)
    BY DEF Base, Typed, SceneTyped, Sound, Stack
  <2>2. \A i \in DOMAIN stack.windows : stack.windows[i].id \in Ids(stack)
    BY DEF Ids
  <2>3. DOMAIN stack.windows = {}
    BY <1>5, <2>2
  <2> QED
    BY <2>1, <2>3, NoPositions
<1> QED
  BY <1>1, <1>4, <1>6

\* transport_destroy leaves no window, mapping or session, and every descriptor that
\* came with a commit is closed, provided no window was created under the id 0 (the
\* slot's owner is then lost) and no commit carried more than its fence and a frame.
THEOREM StopsClean ==
  ASSUME ZeroWid \notin CreateWids, OneFrameFd
  PROVE  Spec => []CleanStop
<1>1. Base /\ ~fd_leak /\ [Next]_vars => ~fd_leak'
  BY NextLeak
<1>2. Stopped /\ [Next]_vars => Stopped'
  BY NextStopped
<1>3. Init => ~fd_leak /\ Stopped
  BY DEF Init, Stopped
<1>4. Spec => []SingleOwner
  BY OneOwner
<1>5. Spec => [](~fd_leak /\ Stopped)
  BY <1>1, <1>2, <1>3, BaseHolds, PTL DEF Spec
<1>6. Base /\ TokensUnique /\ BuffersOwned /\ SingleOwner /\ Stopped /\ ~fd_leak => CleanStop
  BY StoppedIsClean
<1> QED
  BY <1>4, <1>5, <1>6, BaseHolds, OneSessionPerToken, MappingsOwned, PTL


----------------------------------------------------------------------------
(* Who loses windows.                                                      *)

\* Hang-ups are of dead peers, and a client being reaped has hung up or broken the
\* protocol, and is no shell for which an orphan slot is free.
HupsDead == \A c \in evs.hup : ~alive[c]
Doomed(k) == /\ ~alive[clients[k].fd] \/ Malformed(k)
             /\ ~HasShell(clients[k].wins) \/ FreeOrphans = {}
ReapJustified == pc = "reap" => ~running \/ Doomed(cur)

\* Only a client's own steps touch its end of the socket.
LEMMA AliveSteps ==
  ASSUME Base, [Next]_vars
  PROVE  alive' = alive \/ Client
<1>1. ASSUME Still, ~Client
      PROVE  alive' = alive
  BY <1>1 DEF Still, Wake, InputFocus, Poll, TransportProcess, ExpireDone, HandleListen,
     AcceptDone, EventsDone, RecvEnd, transport_update_focus, Quit, Halt, DispatchOther,
     on_set_geometry, on_set_cursor, GraceElapses, SetMode, Goto, vars, socket
<1>2. ASSUME \/ ReapWindow \/ ReapDone \/ (\E c \in Conn : Accept(c) \/ client_readable(c))
             \/ (\E o \in Slots : orphan_destroy(o))
             \/ DispatchHello \/ on_create_window \/ on_commit \/ on_destroy_window
      PROVE  alive' = alive
  BY <1>2 DEF ReapWindow, ReapDone, Accept, client_readable, orphan_destroy, DispatchHello,
              on_create_window, on_commit, on_destroy_window, socket
<1> QED
  BY <1>1, <1>2, Steps, LosingDrops

LEMMA HupSteps ==
  ASSUME Base, [Next]_vars
  PROVE  evs'.hup \subseteq evs.hup \/ TransportProcess
<1> USE DEF Base, Typed, LoopTyped
<1>1. ASSUME Still, ~TransportProcess
      PROVE  evs'.hup = evs.hup
  <2>1. evs' = evs \/ evs' = [evs EXCEPT !.listen = FALSE]
    BY <1>1 DEF Still, Wake, InputFocus, Poll, ExpireDone, HandleListen, AcceptDone, EventsDone,
       RecvEnd, transport_update_focus, Quit, Halt, Client, ClientConnect, ClientClose,
       ClientStall, ClientSend, DispatchOther, on_set_geometry, on_set_cursor, GraceElapses,
       SetMode, Goto, vars, loop
  <2> QED
    BY <2>1
<1>2. ASSUME \/ ReapWindow \/ ReapDone \/ (\E c \in Conn : Accept(c))
             \/ (\E o \in Slots : orphan_destroy(o))
             \/ DispatchHello \/ on_create_window \/ on_commit \/ on_destroy_window
      PROVE  evs' = evs
  BY <1>2 DEF ReapWindow, ReapDone, Accept, orphan_destroy, DispatchHello, on_create_window,
              on_commit, on_destroy_window, loop
<1>3. ASSUME NEW c \in Conn, client_readable(c)
      PROVE  evs'.hup = evs.hup
  BY <1>3 DEF client_readable
<1>4. Lose => evs'.hup \subseteq evs.hup
  BY LosingDrops, EventsLeft
<1> QED
  BY <1>1, <1>2, <1>3, <1>4, Steps

LEMMA NextHups == ASSUME Base, HupsDead, [Next]_vars PROVE HupsDead'
<1>1. CASE TransportProcess
  BY <1>1 DEF TransportProcess, epoll_wait, HungUp, HupsDead, socket
<1>2. CASE ~TransportProcess
  <2>1. evs'.hup \subseteq evs.hup /\ \A c \in evs.hup : conn[c] = "served" /\ c \in Conn
    BY <1>2, HupSteps DEF Base, Typed, LoopTyped, Pending
  <2>2. ASSUME NEW c \in Conn, conn[c] = "served", ~alive[c]
        PROVE  ~alive'[c]
    <3>1. CASE Client
      BY <2>2, <3>1 DEF Client, ClientConnect, ClientClose, ClientStall, ClientSend, Base, Typed,
                        SocketTyped
    <3> QED
      BY <2>2, <3>1, AliveSteps
  <2> QED
    BY <2>1, <2>2 DEF HupsDead
<1> QED
  BY <1>1, <1>2

\* A client whose windows are reaped is one that is lost.
LEMMA ReapEntered ==
  ASSUME [Next]_vars, pc' = "reap"
  PROVE  Lose \/ ReapWindow \/ UNCHANGED vars
<1> USE DEF AfterDrop
<1>1. ASSUME \/ Wake \/ InputFocus \/ TransportProcess \/ ExpireDone \/ HandleListen
             \/ AcceptDone \/ EventsDone \/ RecvEnd \/ Quit \/ Halt
             \/ transport_update_focus
             \/ (\E c \in Conn : Accept(c) \/ client_readable(c))
      PROVE  FALSE
  BY <1>1 DEF Wake, InputFocus, Poll, TransportProcess, ExpireDone, HandleListen, AcceptDone,
              EventsDone, RecvEnd, Quit, Halt, Accept, client_readable, Goto, loop,
              transport_update_focus
<1>2. ~ReapDone
  BY DEF ReapDone, Release
<1>3. ASSUME \/ DispatchHello \/ DispatchOther \/ on_create_window \/ on_commit
             \/ on_destroy_window \/ on_set_geometry \/ on_set_cursor
      PROVE  FALSE
  BY <1>3 DEF DispatchHello, DispatchOther, on_create_window, on_commit, on_destroy_window,
              on_set_geometry, on_set_cursor, Recv, loop
<1>4. ASSUME \/ (\E o \in Slots : orphan_destroy(o)) \/ (\E m \in Screens : SetMode(m))
      PROVE  FALSE
  BY <1>4 DEF orphan_destroy, Reaping, SetMode, loop
<1>5. ASSUME Client \/ (\E o \in Slots : GraceElapses(o))
      PROVE  FALSE
  BY <1>5 DEF Client, ClientConnect, ClientClose, ClientStall, ClientSend, GraceElapses, loop
<1> QED
  BY <1>1, <1>2, <1>3, <1>4, <1>5 DEF Next, ServerStep, Dispatch, Lose


LEMMA LoseDooms ==
  ASSUME Base, TokensUnique, HupsDead, Lose, pc' = "reap"
  PROVE  ~running' \/ Doomed(cur)'
<1>1. PICK k : /\ Handling(k) /\ client_drop(k)
               /\ ~alive[clients[k].fd] \/ Malformed(k) \/ ~running
  <2>1. CASE DispatchReject \/ RecvHangup
    <3>1. Handling(cur) /\ client_drop(cur)
      BY <2>1 DEF Base, Pending, Handling, DispatchReject, RecvHangup
    <3>2. ~alive[clients[cur].fd] \/ Malformed(cur)
      BY <2>1 DEF DispatchReject, RecvHangup, Fd
    <3> QED
      BY <3>1, <3>2
  <2>2. ASSUME NEW c \in Conn, HandleHangup(c)
        PROVE  \E k : /\ Handling(k) /\ client_drop(k)
                      /\ ~alive[clients[k].fd] \/ Malformed(k) \/ ~running
    <3>1. SlotOf(c) \in Slots /\ clients[SlotOf(c)].fd = c
      BY <2>2, ServedSlot DEF Base, Typed, Pending, HandleHangup
    <3>2. Handling(SlotOf(c)) /\ client_drop(SlotOf(c)) /\ ~alive[c]
      BY <2>2, <3>1, ConnAssumption DEF Handling, HandleHangup, HupsDead
    <3> QED
      BY <3>1, <3>2
  <2>3. ASSUME NEW k \in Slots, StopClient(k)
        PROVE  Handling(k) /\ client_drop(k) /\ ~running
    BY <2>3 DEF Base, Pending, Handling, StopClient, NoEvents
  <2> QED
    BY <2>1, <2>2, <2>3 DEF Lose
<1>2. /\ k \in Slots /\ clients[k].fd # NoConn
      /\ UNCHANGED <<stack, alive, running>>
  BY <1>1, LosingDrops DEF Handling, scene
<1>3. ~Parks(k) /\ cur' = k /\ UNCHANGED <<clients, orphans, inbox>>
  BY <1>1 DEF client_drop, Release, AfterDrop
<1>4. ~HasShell(clients[k].wins) \/ FreeOrphans = {}
  <2>1. CASE Used(clients[k].wins) = {}
    BY <2>1 DEF HasShell
  <2>2. CASE Used(clients[k].wins) # {}
    BY <1>2, <1>3, <2>2 DEF Parks, TokensUnique
  <2> QED
    BY <2>1, <2>2
<1>6. Malformed(k) => Malformed(cur)'
  BY <1>3 DEF Malformed
<1>7. ~alive[clients[k].fd] => ~alive'[clients'[cur'].fd]
  BY <1>2, <1>3
<1>8. HasShell(clients[cur].wins)' => HasShell(clients[k].wins)
  BY <1>2, <1>3 DEF HasShell, Used
<1> QED
  BY <1>1, <1>2, <1>3, <1>4, <1>6, <1>7, <1>8 DEF Doomed, FreeOrphans

LEMMA ReapWindowDooms ==
  ASSUME Base, ReapWindow, Doomed(cur)
  PROVE  Doomed(cur)'
<1>1. PICK k \in Slots : k = cur /\ cur' = k
  BY DEF Base, Pending, ReapWindow, loop
<1>2. PICK w \in Wid : /\ clients' = [clients EXCEPT ![k].wins[w] = NoWin]
                       /\ TakenOff(clients[k].wins[w])
  BY <1>1 DEF ReapWindow, Used, TakenOff
<1>3. /\ UNCHANGED <<orphans, next_token, alive, inbox, focused_server_id>>
      /\ TableTyped /\ NoWin \in Entry /\ focused_server_id' \in Nat
      /\ Sound(stack) /\ clients[k].wins[w] \in Entry
  BY <1>1, NullsTyped DEF ReapWindow, socket, Base, Typed, SceneTyped, TableTyped, ClientRec
<1>4. /\ clients'[k].fd = clients[k].fd /\ clients'[k].hello = clients[k].hello
      /\ clients'[k].wins[w] = NoWin
      /\ \A x \in Wid : x # w => clients'[k].wins[x] = clients[k].wins[x]
  <2>1. PutClient(k, w, NoWin)
    BY <1>2, <1>3 DEF PutClient
  <2> QED
    BY <2>1, ClientEntry
<1>5. Contents(stack') \subseteq Contents(stack) /\ Sound(stack')
  BY <1>2, <1>3, TakeDown, SMTT(30) DEF TakenOff
<1>6. \A id : Exists(stack', id) =>
        Exists(stack, id) /\ window_by_id(stack, id) = window_by_id(stack', id)
  <2>1. ASSUME NEW id, Exists(stack', id)
        PROVE  Exists(stack, id) /\ window_by_id(stack, id) = window_by_id(stack', id)
    <3>1. PICK v : v = window_by_id(stack', id)
      OBVIOUS
    <3>2. v \in Contents(stack) /\ v.id = id
      BY <1>5, <2>1, <3>1, ContentsDecide
    <3> QED
      BY <1>3, <3>1, <3>2, ContentsDecide
  <2> QED
    BY <2>1
<1>7. HasShell(clients[cur].wins)' => HasShell(clients[k].wins)
  <2>1. ASSUME NEW x \in Used(clients'[k].wins), Exists(stack', clients'[k].wins[x].server_id),
               window_by_id(stack', clients'[k].wins[x].server_id).role \in ShellRole
        PROVE  HasShell(clients[k].wins)
    <3>1. x \in Wid /\ x # w /\ clients'[k].wins[x] = clients[k].wins[x]
      BY <1>4, <2>1 DEF Used, NoWin
    <3>2. x \in Used(clients[k].wins)
      BY <2>1, <3>1 DEF Used
    <3> QED
      BY <1>6, <2>1, <3>1, <3>2 DEF HasShell
  <2> QED
    BY <1>1, <2>1 DEF HasShell
<1>8. Malformed(k) => Malformed(cur)'
  BY <1>1, <1>3, <1>4 DEF Malformed, Accepts, negotiated
<1>9. ~alive[clients[k].fd] => ~alive'[clients'[cur'].fd]
  BY <1>1, <1>3, <1>4
<1> QED
  BY <1>1, <1>3, <1>7, <1>8, <1>9 DEF Doomed, FreeOrphans

LEMMA NextReap ==
  ASSUME Base, TokensUnique, HupsDead, ReapJustified, [Next]_vars
  PROVE  ReapJustified'
<1> SUFFICES ASSUME pc' = "reap" PROVE ~running' \/ Doomed(cur)'
  BY DEF ReapJustified
<1>1. CASE Lose
  BY <1>1, LoseDooms
<1>2. CASE ReapWindow
  <2>1. (~running \/ Doomed(cur)) /\ running' = running
    BY <1>2 DEF ReapJustified, ReapWindow, loop
  <2> QED
    BY <1>2, <2>1, ReapWindowDooms
<1>3. CASE UNCHANGED vars
  <2>1. (~running \/ Doomed(cur)) /\ UNCHANGED <<running, cur, clients, orphans, alive, inbox, stack>>
    BY <1>3 DEF ReapJustified, vars, loop, scene, table, socket
  <2> QED
    BY <2>1 DEF Doomed, Malformed, Accepts, negotiated, HasShell, Used, FreeOrphans
<1> QED
  BY <1>1, <1>2, <1>3, ReapEntered


\* The windows that leave the screen when one entry's is taken down.
LEMMA OneWindowGoes ==
  ASSUME Base, NEW e \in Entry, TakenOff(e)
  PROVE  \A id \in Ids(stack) \ Ids(stack') : id = e.server_id
<1>1. Sound(stack) /\ Sound(stack')
      /\ Contents(stack') = {v \in Contents(stack) : v.id # e.server_id}
  BY TakeDown DEF Base, Typed, SceneTyped, TakenOff
<1>2. /\ Ids(stack) = {v.id : v \in Contents(stack)}
      /\ Ids(stack') = {v.id : v \in Contents(stack')}
  BY <1>1, StackIds
<1> QED
  BY <1>1, <1>2

\* A window leaves the screen only as Condemned says.
LEMMA OnlyCondemnedGo ==
  ASSUME Base, TokensUnique, ReapJustified, [Next]_vars
  PROVE  \A id \in Ids(stack) \ Ids(stack') : Condemned(id)
<1>1. Sound(stack) /\ Sound(stack') /\ TableTyped
  BY NextBase DEF Base, Typed, SceneTyped
<1>2. /\ Ids(stack) = {v.id : v \in Contents(stack)}
      /\ Ids(stack') = {v.id : v \in Contents(stack')}
  BY <1>1, StackIds
<1> SUFFICES ASSUME NEW id \in Ids(stack) \ Ids(stack') PROVE Condemned(id)
  OBVIOUS
<1>3. ASSUME SameWindows(stack, stack')
      PROVE  FALSE
  BY <1>2, <1>3 DEF SameWindows
<1>4. ASSUME stack' = stack
      PROVE  FALSE
  BY <1>4
<1>5. CASE Still
  BY <1>3, <1>5, StillWindows
<1>6. CASE Lose
  BY <1>4, <1>6, LosingDrops DEF scene
<1>7. ASSUME ReapDone \/ DispatchHello \/ (\E c \in Conn : Accept(c) \/ client_readable(c))
      PROVE  FALSE
  BY <1>4, <1>7 DEF ReapDone, DispatchHello, Accept, client_readable, scene
<1>8. CASE ReapWindow
  <2>1. PICK k \in Slots : k = cur /\ clients[k].fd # NoConn /\ pc = "reap"
    BY <1>8 DEF Base, Pending, ReapWindow
  <2>2. PICK w \in Wid : TakenOff(clients[k].wins[w])
    BY <1>8, <2>1 DEF ReapWindow, TakenOff, Used
  <2>3. clients[k].wins[w] \in Entry
    BY <1>1, <2>1 DEF TableTyped, ClientRec
  <2>4. id = clients[k].wins[w].server_id
    BY <2>2, <2>3, OneWindowGoes
  <2>5. ~running \/ Doomed(k)
    BY <2>1 DEF ReapJustified
  <2> QED
    BY <2>1, <2>4, <2>5 DEF Condemned, Doomed, Served
<1>9. ASSUME NEW o \in Slots, orphan_destroy(o)
      PROVE  Condemned(id)
  <2>1. /\ orphans[o].token # 0
        /\ orphans[o].due \/ ~running
    BY <1>9 DEF orphan_destroy, Reaping, Base, Pending
  <2>2. PICK w \in Wid : TakenOff(orphans[o].wins[w])
    BY <1>4, <1>9 DEF orphan_destroy, TakenOff, Used
  <2>3. orphans[o].wins[w] \in Entry
    BY <1>1 DEF TableTyped, OrphanRec
  <2>4. id = orphans[o].wins[w].server_id
    BY <2>2, <2>3, OneWindowGoes
  <2> QED
    BY <2>1, <2>4 DEF Condemned, Held
<1>10. ASSUME on_create_window
       PROVE  FALSE
  <2>1. CASE Created
    BY <1>2, <2>1 DEF Created
  <2> QED
    BY <1>4, <1>10, <2>1, Creating
<1>11. ASSUME on_commit
       PROVE  FALSE
  <2>1. ASSUME NEW e, NEW fresh, Committed(e, fresh)
        PROVE  FALSE
    <3>1. \E v \in Window : /\ v.id = e.server_id
                            /\ Contents(stack') = {z \in Contents(stack) : z.id # e.server_id} \cup {v}
      BY <2>1 DEF Committed
    <3> QED
      BY <1>2, <3>1
  <2> QED
    BY <1>4, <1>11, <2>1, Committing
<1>12. CASE on_destroy_window
  <2>1. PICK k \in Slots, w \in Wid : k = cur /\ w = Msg.wid
    BY <1>12, Receiving, MessageForms DEF on_destroy_window
  <2>2. /\ clients[k].fd # NoConn /\ Msg.type = "DESTROY" /\ pc = "drain"
    BY <1>12, <2>1, Receiving DEF on_destroy_window, Recv
  <2>3. TakenOff(clients[k].wins[w])
    BY <1>4, <1>12, <2>1 DEF on_destroy_window, TakenOff
  <2>4. clients[k].wins[w] \in Entry
    BY <1>1 DEF TableTyped, ClientRec
  <2>5. id = clients[k].wins[w].server_id
    BY <2>3, <2>4, OneWindowGoes
  <2> QED
    BY <2>1, <2>2, <2>5 DEF Condemned, Served
<1> QED
  BY <1>5, <1>6, <1>7, <1>8, <1>9, <1>10, <1>11, <1>12, Steps

LEMMA InitDoom == Init => HupsDead /\ ReapJustified
  BY DEF Init, HupsDead, ReapJustified, NoEvents

\* A crash takes down only its own windows: one leaves the screen only when the server
\* stops, its owner destroys it, hangs up or breaks the protocol, or its grace period
\* is over, and a shell's never by a hang-up while an orphan slot is free (client_drop).
THEOREM Resilience == Spec => ResilientToOthers
<1>1. Base /\ HupsDead /\ [Next]_vars => HupsDead'
  BY NextHups
<1>2. Base /\ TokensUnique /\ HupsDead /\ ReapJustified /\ [Next]_vars => ReapJustified'
  BY NextReap
<1>3. Base /\ TokensUnique /\ ReapJustified /\ [Next]_vars =>
        \A id \in Ids(stack) \ Ids(stack') : Condemned(id)
  BY OnlyCondemnedGo
<1>4. Spec => []HupsDead
  BY <1>1, InitDoom, BaseHolds, PTL DEF Spec
<1>5. Spec => []ReapJustified
  BY <1>2, <1>4, InitDoom, BaseHolds, OneSessionPerToken, PTL DEF Spec
<1> QED
  BY <1>3, <1>5, BaseHolds, OneSessionPerToken, PTL DEF Spec, ResilientToOthers

-----------------------------------------------------------------------------
(* The transport implements Sessions: whatever clients send and whoever    *)
(* crashes when, a session lives, is held whole, comes back or ends as the *)
(* abstract specification says, and the screen shows the windows of the    *)
(* sessions there are and no others.                                       *)

----------------------------------------------------------------------------
(* Where a session is.                                                     *)

Token == 1 .. Cardinality(Conn)

IdsOf(wins) == {wins[w].server_id : w \in Wid} \ {0}
WinsOf(t)   == {EntryAt(e).server_id : e \in OwnersOf(t)} \ {0}

\* The state of a session in a client slot, and of one in an orphan slot.
LiveState(k) == IF pc = "reap" /\ cur = k THEN "ended" ELSE "live"
HeldState(o) ==
  IF \/ ~running /\ pc # "late"
     \/ pc = "expire" /\ orphans[o].due
  THEN "ended" ELSE IF orphans[o].due THEN "due" ELSE "held"

\* With one slot to a token, the refinement mapping reads that slot.
Places == \A t \in Nat \ {0} :
  /\ \A k \in Slots : clients[k].token = t =>
       t <= next_token /\ StateOf(t) = LiveState(k) /\ WinsOf(t) = IdsOf(clients[k].wins)
  /\ \A o \in Slots : orphans[o].token = t =>
       t <= next_token /\ StateOf(t) = HeldState(o) /\ WinsOf(t) = IdsOf(orphans[o].wins)
  /\ (\A k \in Slots : clients[k].token # t /\ orphans[k].token # t) =>
       StateOf(t) = (IF t > next_token THEN "new" ELSE "gone") /\ WinsOf(t) = {}

LEMMA PlacesHold == Base /\ TokensUnique => Places
<1> SUFFICES ASSUME Base, TokensUnique, NEW t \in Nat \ {0}
             PROVE  /\ \A k \in Slots : clients[k].token = t =>
                         /\ t <= next_token /\ StateOf(t) = LiveState(k)
                         /\ WinsOf(t) = IdsOf(clients[k].wins)
                    /\ \A o \in Slots : orphans[o].token = t =>
                         /\ t <= next_token /\ StateOf(t) = HeldState(o)
                         /\ WinsOf(t) = IdsOf(orphans[o].wins)
                    /\ (\A k \in Slots : clients[k].token # t /\ orphans[k].token # t) =>
                         /\ StateOf(t) = (IF t > next_token THEN "new" ELSE "gone")
                         /\ WinsOf(t) = {}
  BY DEF Places
<1> DEFINE ks == {k \in Slots : clients[k].token = t}
           os == {o \in Slots : orphans[o].token = t}
<1>1. /\ next_token \in Nat
      /\ \A k \in Slots : clients[k].token <= next_token /\ orphans[k].token <= next_token
  BY DEF Base, Typed, TableTyped
<1>2. \A k \in Slots : clients[k].token = t => k \in Served
  BY DEF Base, Seated, NoClient, Served
<1>3. OwnersOf(t) = {<<"client", k, w>> : k \in ks, w \in Wid}
                    \cup {<<"orphan", o, w>> : o \in os, w \in Wid}
  <2>1. ASSUME NEW e \in OwnersOf(t)
        PROVE  \/ \E k \in ks, w \in Wid : e = <<"client", k, w>>
               \/ \E o \in os, w \in Wid : e = <<"orphan", o, w>>
    <3>1. PICK k \in Slots, w \in Wid : e = <<"client", k, w>> \/ e = <<"orphan", k, w>>
      BY EntryForms DEF OwnersOf
    <3> QED
      BY <3>1 DEF OwnersOf
  <2>2. \A k \in ks, w \in Wid : <<"client", k, w>> \in OwnersOf(t)
    BY EntryForms DEF OwnersOf
  <2>3. \A o \in os, w \in Wid : <<"orphan", o, w>> \in OwnersOf(t)
    BY EntryForms DEF OwnersOf
  <2> QED
    BY <2>1, <2>2, <2>3
<1>4. ASSUME NEW k \in Slots, clients[k].token = t
      PROVE  /\ t <= next_token /\ StateOf(t) = LiveState(k)
             /\ WinsOf(t) = IdsOf(clients[k].wins)
  <2>1. ks = {k} /\ os = {}
    BY <1>2, <1>4 DEF TokensUnique, Held
  <2>2. Cardinality(ks) = 1 /\ Cardinality(os) = 0
    BY <2>1, FS_Singleton, FS_EmptySet
  <2>3. t <= next_token /\ ~(t > next_token)
    BY <1>1, <1>4
  <2>4. StateOf(t) = LiveState(k)
    BY <2>1, <2>2, <2>3 DEF StateOf, LiveState
  <2>5. OwnersOf(t) = {<<"client", k, w>> : w \in Wid}
    BY <1>3, <2>1
  <2>6. {EntryAt(e).server_id : e \in OwnersOf(t)} = {clients[k].wins[w].server_id : w \in Wid}
    <3> DEFINE own(w) == <<"client", k, w>>
    <3>1. \A w \in Wid : own(w) \in OwnersOf(t) /\ EntryAt(own(w)) = clients[k].wins[w]
      BY <2>5, EntryForms
    <3>2. \A e \in OwnersOf(t) : \E w \in Wid : e = own(w)
      BY <2>5
    <3> HIDE DEF own
    <3> QED
      BY <3>1, <3>2
  <2> QED
    BY <2>3, <2>4, <2>6 DEF WinsOf, IdsOf
<1>5. ASSUME NEW o \in Slots, orphans[o].token = t
      PROVE  /\ t <= next_token /\ StateOf(t) = HeldState(o)
             /\ WinsOf(t) = IdsOf(orphans[o].wins)
  <2>1. ks = {} /\ os = {o}
    BY <1>2, <1>5 DEF TokensUnique, Held
  <2>2. Cardinality(ks) = 0 /\ Cardinality(os) = 1
    BY <2>1, FS_Singleton, FS_EmptySet
  <2>3. t <= next_token /\ ~(t > next_token)
    BY <1>1, <1>5
  <2>4. StateOf(t) = HeldState(o)
    BY <2>1, <2>2, <2>3 DEF StateOf, HeldState
  <2>5. OwnersOf(t) = {<<"orphan", o, w>> : w \in Wid}
    BY <1>3, <2>1
  <2>6. {EntryAt(e).server_id : e \in OwnersOf(t)} = {orphans[o].wins[w].server_id : w \in Wid}
    <3> DEFINE own(w) == <<"orphan", o, w>>
    <3>1. \A w \in Wid : own(w) \in OwnersOf(t) /\ EntryAt(own(w)) = orphans[o].wins[w]
      BY <2>5, EntryForms
    <3>2. \A e \in OwnersOf(t) : \E w \in Wid : e = own(w)
      BY <2>5
    <3> HIDE DEF own
    <3> QED
      BY <3>1, <3>2
  <2> QED
    BY <2>3, <2>4, <2>6 DEF WinsOf, IdsOf
<1>6. ASSUME \A k \in Slots : clients[k].token # t /\ orphans[k].token # t
      PROVE  /\ StateOf(t) = (IF t > next_token THEN "new" ELSE "gone")
             /\ WinsOf(t) = {}
  <2>1. ks = {} /\ os = {}
    BY <1>6
  <2>2. Cardinality(ks) = 0 /\ Cardinality(os) = 0
    BY <2>1, FS_EmptySet
  <2>3. StateOf(t) = IF t > next_token THEN "new" ELSE "gone"
    BY <2>1, <2>2 DEF StateOf
  <2>4. OwnersOf(t) = {}
    BY <1>3, <2>1
  <2> QED
    BY <2>3, <2>4 DEF WinsOf
<1> QED
  BY <1>4, <1>5, <1>6

LEMMA PlacesNext == Base' /\ TokensUnique' => Places'
  BY PlacesHold, PTL


\* What the abstract specification sees of some tokens does not change.
SameView(U) == \A u \in U : StateOf(u)' = StateOf(u) /\ WinsOf(u)' = WinsOf(u)

\* A session whose slot, if any, is left as it is stays where it is.
LEMMA Undisturbed ==
  ASSUME Places, Places', NEW u \in Nat \ {0},
         u <= next_token' <=> u <= next_token,
         next_token \in Nat, next_token' \in Nat,
         \A k \in Slots : clients[k].token = u \/ clients'[k].token = u =>
           /\ clients'[k].token = clients[k].token
           /\ IdsOf(clients'[k].wins) = IdsOf(clients[k].wins)
           /\ LiveState(k)' = LiveState(k),
         \A o \in Slots : orphans[o].token = u \/ orphans'[o].token = u =>
           /\ orphans'[o].token = orphans[o].token
           /\ IdsOf(orphans'[o].wins) = IdsOf(orphans[o].wins)
           /\ HeldState(o)' = HeldState(o)
  PROVE  StateOf(u)' = StateOf(u) /\ WinsOf(u)' = WinsOf(u)
<1>1. ASSUME NEW k \in Slots, clients[k].token = u
      PROVE  StateOf(u)' = StateOf(u) /\ WinsOf(u)' = WinsOf(u)
  BY <1>1 DEF Places
<1>2. ASSUME NEW o \in Slots, orphans[o].token = u
      PROVE  StateOf(u)' = StateOf(u) /\ WinsOf(u)' = WinsOf(u)
  BY <1>2 DEF Places
<1>3. ASSUME \A k \in Slots : clients[k].token # u /\ orphans[k].token # u
      PROVE  StateOf(u)' = StateOf(u) /\ WinsOf(u)' = WinsOf(u)
  <2>1. \A k \in Slots : clients'[k].token # u /\ orphans'[k].token # u
    BY <1>3
  <2>2. u > next_token' <=> u > next_token
    OBVIOUS
  <2> QED
    BY <1>3, <2>1, <2>2 DEF Places
<1> QED
  BY <1>1, <1>2, <1>3

----------------------------------------------------------------------------
(* The steps of Sessions, as seen through the refinement mapping.          *)

LEMMA TokensAreNats == Token \subseteq Nat \ {0}
  BY DEF Token

\* The session of token t goes to state s, the windows stay.
Becomes(t, s) ==
  /\ SameView(Token \ {t})
  /\ StateOf(t)' = s /\ WinsOf(t)' = WinsOf(t)
  /\ UNCHANGED <<Ids(stack), stack.next_id, running>>

LEMMA BecomeStep ==
  ASSUME NEW t \in Token, NEW s, Becomes(t, s)
  PROVE  Session!Become({t}, s)
  BY DEF Becomes, SameView, Session!Become, Token, WinsOf

LEMMA OpenStep ==
  ASSUME NEW t \in Token, StateOf(t) = "new", Becomes(t, "live"),
         \A u \in Token : StateOf(u) = "new" => t <= u
  PROVE  Session!Next
<1>1. Session!Open(t)
  BY BecomeStep DEF Session!Open, Session!In, Token
<1> QED
  BY <1>1 DEF Session!Next, Token

LEMMA HoldStep ==
  ASSUME NEW t \in Token, running, StateOf(t) = "live", WinsOf(t) # {}, Becomes(t, "held")
  PROVE  Session!Next
<1>1. Session!Hold(t)
  BY BecomeStep DEF Session!Hold, Token, WinsOf
<1> QED
  BY <1>1 DEF Session!Next, Token

LEMMA DropStep ==
  ASSUME NEW t \in Token, StateOf(t) = "live", Becomes(t, "ended")
  PROVE  Session!Next
<1>1. Session!Drop(t)
  BY BecomeStep DEF Session!Drop, Token
<1> QED
  BY <1>1 DEF Session!Next, Token

LEMMA GraceStep ==
  ASSUME NEW t \in Token, StateOf(t) = "held", Becomes(t, "due")
  PROVE  Session!Next
<1>1. Session!GraceElapses(t)
  BY BecomeStep DEF Session!GraceElapses, Token
<1> QED
  BY <1>1 DEF Session!Next, Token

LEMMA ReclaimStep ==
  ASSUME NEW t \in Token, running, StateOf(t) \in {"held", "due"}, Becomes(t, "live")
  PROVE  Session!Next
<1>1. Session!Reclaim(t)
  BY BecomeStep DEF Session!Reclaim, Token
<1> QED
  BY <1>1 DEF Session!Next, Token

LEMMA ForgetStep ==
  ASSUME NEW t \in Token, StateOf(t) = "ended", WinsOf(t) = {}, Becomes(t, "gone")
  PROVE  Session!Next
<1>1. Session!Forget(t)
  BY BecomeStep DEF Session!Forget, Token, WinsOf
<1> QED
  BY <1>1 DEF Session!Next, Token

LEMMA AddStep ==
  ASSUME NEW t \in Token, StateOf(t) = "live", SameView(Token \ {t}), StateOf(t)' = StateOf(t),
         stack.next_id \in Nat, stack'.next_id = stack.next_id + 1,
         WinsOf(t)' = WinsOf(t) \cup {stack.next_id},
         Ids(stack') = Ids(stack) \cup {stack.next_id}, UNCHANGED running
  PROVE  Session!Next
<1>1. stack'.next_id - 1 = (stack.next_id - 1) + 1 /\ stack'.next_id - 1 = stack.next_id
  OBVIOUS
<1>2. Session!AddWindow(t)
  BY <1>1 DEF Session!AddWindow, SameView, Token, WinsOf
<1> QED
  BY <1>2 DEF Session!Next, Token

LEMMA RemoveStep ==
  ASSUME NEW t \in Token, StateOf(t) \in {"live", "ended"}, SameView(Token \ {t}),
         StateOf(t)' = StateOf(t), NEW id \in WinsOf(t),
         WinsOf(t)' = WinsOf(t) \ {id}, Ids(stack') = Ids(stack) \ {id},
         UNCHANGED <<stack.next_id, running>>
  PROVE  Session!Next
<1>1. Session!RemoveWindow(t, id)
  BY DEF Session!RemoveWindow, SameView, Token, WinsOf
<1> QED
  BY <1>1 DEF Session!Next, Token, WinsOf

\* Sessions whose grace period is over, or all that are held, end.
Ending(T) ==
  /\ T # {} /\ SameView(Token \ T)
  /\ \A t \in T : /\ StateOf(t) \in {"held", "due"}
                  /\ running => StateOf(t) = "due"
                  /\ StateOf(t)' = "ended" /\ WinsOf(t)' = WinsOf(t)
  /\ UNCHANGED <<Ids(stack), stack.next_id, running>>

LEMMA ExpireStep ==
  ASSUME NEW T \in SUBSET Token, Ending(T)
  PROVE  Session!Next
<1>1. \A t \in Token : /\ StateOf(t) = "held" => t \in Session!In("held")
                       /\ StateOf(t) = "due" => t \in Session!In("due")
  BY DEF Session!In, Token
<1>2. T \subseteq Session!In("held") \cup Session!In("due")
  BY <1>1 DEF Ending
<1>3. running => T \subseteq Session!In("due")
  BY <1>1 DEF Ending
<1>4. Session!Become(T, "ended")
  BY DEF Ending, SameView, Session!Become, Token, WinsOf
<1>5. Session!Expire(T)
  BY <1>2, <1>3, <1>4 DEF Ending, Session!Expire
<1> QED
  BY <1>2, <1>5 DEF Session!Next

LEMMA StopStep ==
  ASSUME SameView(Token), UNCHANGED <<Ids(stack), stack.next_id>>, running, ~running'
  PROVE  Session!Next
<1>1. Session!Stop
  BY DEF Session!Stop, SameView, Token, WinsOf
<1> QED
  BY <1>1 DEF Session!Next

LEMMA StutterStep ==
  ASSUME SameView(Token), UNCHANGED <<Ids(stack), stack.next_id, running>>
  PROVE  UNCHANGED Session!vars
  BY DEF Session!vars, SameView, Token, WinsOf


----------------------------------------------------------------------------
(* Steps that leave the tables as they are.                                *)

\* A step that leaves every session's slot, and what the slot says of it.
LEMMA SameSlots ==
  ASSUME Places, Places', next_token \in Nat, UNCHANGED next_token,
         \A k \in Slots :
           /\ clients'[k].token = clients[k].token
           /\ clients[k].token # 0 => /\ IdsOf(clients'[k].wins) = IdsOf(clients[k].wins)
                                      /\ LiveState(k)' = LiveState(k),
         \A o \in Slots :
           /\ orphans'[o].token = orphans[o].token
           /\ orphans[o].token # 0 => /\ IdsOf(orphans'[o].wins) = IdsOf(orphans[o].wins)
                                      /\ HeldState(o)' = HeldState(o)
  PROVE  SameView(Token)
<1> SUFFICES ASSUME NEW u \in Token
             PROVE  StateOf(u)' = StateOf(u) /\ WinsOf(u)' = WinsOf(u)
  BY DEF SameView
<1>1. u \in Nat \ {0} /\ u # 0
  BY TokensAreNats
<1> QED
  BY <1>1, Undisturbed

\* The two phases in which sessions are held to have ended.
HeldKept == \A o \in Slots : orphans[o].token # 0 => HeldState(o)' = HeldState(o)
LiveKept == \A k \in Slots : LiveState(k)' = LiveState(k)

LEMMA StillStack ==
  ASSUME Base, Base', Still
  PROVE  UNCHANGED <<Ids(stack), stack.next_id>>
<1>1. Sound(stack) /\ Sound(stack') /\ stack.next_id \in Nat
  BY DEF Base, Typed, SceneTyped, Sound, Stack
<1>2. Ids(stack') = Ids(stack)
  <2>1. /\ Ids(stack) = {v.id : v \in Contents(stack)}
        /\ Ids(stack') = {v.id : v \in Contents(stack')}
    BY <1>1, StackIds
  <2>2. SameWindows(stack, stack')
    BY StillWindows
  <2> QED
    BY <2>1, <2>2 DEF SameWindows
<1>3. CASE UNCHANGED stack
  BY <1>2, <1>3
<1>4. CASE InputFocus
  <2>1. PICK id : stack' = window_focus(stack, id)
    BY <1>4 DEF InputFocus, Poll
  <2>2. stack'.next_id = stack.next_id
    BY <1>1, <2>1, FocusSound
  <2> QED
    BY <1>2, <2>2
<1>5. CASE on_set_geometry
  <2>1. Msg.rect \in Rect
    BY <1>5, Receiving, MessageForms DEF on_set_geometry
  <2>2. \/ stack' = stack
        \/ stack' = window_set_geometry(stack, clients[cur].wins[Msg.wid].server_id, Msg.rect)
    BY <1>5 DEF on_set_geometry
  <2>3. ASSUME NEW id, stack' = window_set_geometry(stack, id, Msg.rect)
        PROVE  stack'.next_id = stack.next_id
    BY <1>1, <2>1, <2>3, SetGeometrySound
  <2> QED
    BY <1>2, <2>2, <2>3
<1>6. ASSUME NEW m \in Screens, SetMode(m)
      PROVE  stack'.next_id = stack.next_id
  BY <1>1, <1>6 DEF SetMode, Sound, Stack
<1>7. ASSUME \/ Wake \/ TransportProcess \/ ExpireDone \/ HandleListen \/ AcceptDone
             \/ EventsDone \/ RecvEnd \/ transport_update_focus \/ Quit \/ Client \/ Halt
             \/ DispatchOther \/ on_set_cursor \/ (\E o \in Slots : GraceElapses(o))
             \/ UNCHANGED vars
      PROVE  stack' = stack
  BY <1>7 DEF Wake, Poll, TransportProcess, ExpireDone, HandleListen, AcceptDone, EventsDone,
              RecvEnd, transport_update_focus, Quit, Client, ClientConnect, ClientClose,
              ClientStall, ClientSend, Halt, DispatchOther, on_set_cursor, GraceElapses, Goto,
              vars, scene
<1> QED
  BY <1>2, <1>4, <1>5, <1>6, <1>7 DEF Still

\* What a step that leaves the tables does to the phase the loop is in.
Pausing == \/ Wake \/ InputFocus \/ ExpireDone \/ HandleListen \/ AcceptDone \/ EventsDone
           \/ RecvEnd \/ Client \/ Halt \/ DispatchOther \/ on_set_geometry \/ on_set_cursor
           \/ (\E m \in Screens : SetMode(m)) \/ UNCHANGED vars
           \/ transport_update_focus /\ running

LEMMA PausingKeeps ==
  ASSUME Base, Pausing
  PROVE  /\ UNCHANGED <<running, next_token, orphans>>
         /\ HeldKept /\ LiveKept
<1>1. /\ ~running => pc \in {"late", "reap", "stop", "halted"}
      /\ pc \in {"stop", "halted"} => ~running
  BY DEF Base, Pending
<1>2. ASSUME Wake \/ InputFocus
      PROVE  /\ UNCHANGED <<running, next_token, orphans>>
             /\ pc = "poll" /\ pc' \in {"late", "process"}
  BY <1>2 DEF Wake, InputFocus, Poll, table
<1>3. ASSUME HandleListen \/ AcceptDone \/ EventsDone \/ RecvEnd
      PROVE  /\ UNCHANGED <<running, next_token, orphans>>
             /\ pc \in {"events", "accept", "drain"} /\ pc' \in {"events", "accept", "late"}
  BY <1>3 DEF HandleListen, AcceptDone, EventsDone, RecvEnd, Goto, table
<1>4. ASSUME \/ Client \/ DispatchOther \/ on_set_geometry \/ on_set_cursor
             \/ (\E m \in Screens : SetMode(m)) \/ UNCHANGED vars
      PROVE  UNCHANGED <<running, next_token, orphans, pc, cur>>
  BY <1>4 DEF Client, ClientConnect, ClientClose, ClientStall, ClientSend, DispatchOther,
              on_set_geometry, on_set_cursor, SetMode, vars, table, loop
<1>5. ASSUME transport_update_focus /\ running
      PROVE  UNCHANGED <<running, next_token, orphans>> /\ pc = "late" /\ pc' = "poll"
  BY <1>5 DEF transport_update_focus
<1>6. ASSUME ExpireDone
      PROVE  /\ UNCHANGED <<running, next_token, orphans>> /\ pc = "expire" /\ pc' = "events"
             /\ \A o \in Slots : orphans[o].token # 0 => ~orphans[o].due
  BY <1>6 DEF ExpireDone, Goto, table, Reaping
<1>7. ASSUME Halt
      PROVE  /\ UNCHANGED <<running, next_token, orphans>> /\ pc = "stop" /\ pc' = "halted"
             /\ \A o \in Slots : orphans[o].token = 0
  BY <1>7 DEF Halt, table
<1> QED
  BY <1>1, <1>2, <1>3, <1>4, <1>5, <1>6, <1>7 DEF Pausing, HeldKept, LiveKept, HeldState, LiveState

LEMMA PausingRefines ==
  ASSUME Base, Base', Places, Places', Pausing
  PROVE  UNCHANGED Session!vars
<1>1. Still
  BY DEF Pausing, Still
<1>2. next_token \in Nat /\ UNCHANGED <<running, next_token, orphans, clients>>
  BY <1>1, PausingKeeps, StillTables DEF Base, Typed, TableTyped
<1>3. SameView(Token)
  BY <1>2, PausingKeeps, SameSlots DEF HeldKept, LiveKept
<1> QED
  BY <1>1, <1>2, <1>3, StillStack, StutterStep


\* The tokens in the tables are those of sessions the abstract specification knows.
InTables == \A k \in Slots :
  /\ clients[k].token # 0 => clients[k].token \in Token
  /\ orphans[k].token # 0 => orphans[k].token \in Token

\* The sessions in a set of orphan slots.
TokensOf(S) == {orphans[o].token : o \in S}

\* Sessions that end together, when their grace period is over or the server stops.
LEMMA ExpiryRefines ==
  ASSUME Places, Places', InTables, next_token \in Nat, running \in BOOLEAN,
         UNCHANGED <<clients, orphans, next_token, Ids(stack), stack.next_id, running>>, LiveKept,
         \A o \in Slots : orphans[o].token # 0 =>
           \/ HeldState(o)' = HeldState(o)
           \/ /\ HeldState(o) \in {"held", "due"} /\ HeldState(o)' = "ended"
              /\ running => HeldState(o) = "due"
  PROVE  [Session!Next]_(Session!vars)
<1> DEFINE S == {o \in Slots : orphans[o].token # 0 /\ HeldState(o)' # HeldState(o)}
           T == TokensOf(S)
<1>1. T \subseteq Token
  BY DEF InTables, TokensOf
<1>2. \A t \in Token : t \in Nat \ {0} /\ t # 0
  BY TokensAreNats
<1>3. ASSUME NEW u \in Token \ T
      PROVE  StateOf(u)' = StateOf(u) /\ WinsOf(u)' = WinsOf(u)
  <2>1. \A o \in Slots : orphans[o].token = u => HeldState(o)' = HeldState(o)
    BY <1>2, <1>3 DEF TokensOf
  <2>2. \A k \in Slots : LiveState(k)' = LiveState(k)
    BY DEF LiveKept
  <2> HIDE DEF T
  <2> QED
    BY <1>2, <1>3, <2>1, <2>2, Undisturbed
<1>4. ASSUME NEW t \in T
      PROVE  /\ StateOf(t) \in {"held", "due"}
             /\ running => StateOf(t) = "due"
             /\ StateOf(t)' = "ended" /\ WinsOf(t)' = WinsOf(t)
  <2>1. PICK o \in Slots : orphans[o].token = t /\ t # 0 /\ HeldState(o)' # HeldState(o)
    BY <1>4 DEF TokensOf
  <2>2. /\ StateOf(t) = HeldState(o) /\ WinsOf(t) = IdsOf(orphans[o].wins)
        /\ StateOf(t)' = HeldState(o)' /\ WinsOf(t)' = IdsOf(orphans'[o].wins)
    BY <1>1, <1>2, <1>4, <2>1 DEF Places
  <2> QED
    BY <2>1, <2>2
<1>5. CASE T = {}
  <2>1. SameView(Token)
    BY <1>3, <1>5 DEF SameView
  <2> QED
    BY <2>1, StutterStep
<1>6. CASE T # {}
  <2>1. SameView(Token \ T)
    BY <1>3 DEF SameView
  <2>2. UNCHANGED <<Ids(stack), stack.next_id, running>>
    OBVIOUS
  <2> HIDE DEF T
  <2>3. Ending(T)
    BY <1>4, <1>6, <2>1, <2>2 DEF Ending
  <2> QED
    BY <1>1, <2>3, ExpireStep
<1> QED
  BY <1>5, <1>6

LEMMA TransportProcessRefines ==
  ASSUME Base, Base', Places, Places', InTables,
         TransportProcess \/ (transport_update_focus /\ ~running)
  PROVE  [Session!Next]_(Session!vars)
<1>1. Still /\ next_token \in Nat /\ running \in BOOLEAN
  BY DEF Still, Base, Typed, TableTyped, LoopTyped
<1>2. UNCHANGED <<Ids(stack), stack.next_id>>
  BY <1>1, StillStack
<1>3. UNCHANGED <<clients, orphans, next_token, running>>
  BY DEF TransportProcess, transport_update_focus, table
<1>4. LiveKept
  BY DEF TransportProcess, transport_update_focus, LiveKept, LiveState
<1>5. ASSUME NEW o \in Slots, orphans[o].token # 0
      PROVE  \/ HeldState(o)' = HeldState(o)
             \/ /\ HeldState(o) \in {"held", "due"} /\ HeldState(o)' = "ended"
                /\ running => HeldState(o) = "due"
  <2>1. ASSUME TransportProcess
        PROVE  running /\ pc = "process" /\ pc' = "expire"
    BY <2>1 DEF TransportProcess, Base, Pending
  <2>2. ASSUME transport_update_focus, ~running
        PROVE  pc = "late" /\ pc' = "stop"
    BY <2>2 DEF transport_update_focus
  <2> QED
    BY <1>3, <2>1, <2>2 DEF HeldState
<1> QED
  BY <1>1, <1>2, <1>3, <1>4, <1>5, ExpiryRefines

LEMMA QuitRefines ==
  ASSUME Base, Base', Places, Places', Quit
  PROVE  Session!Next
<1>1. /\ Still /\ next_token \in Nat /\ UNCHANGED <<clients, orphans, next_token>>
      /\ running /\ ~running' /\ pc = "late" /\ pc' = "late" /\ cur' = cur
  BY DEF Quit, Still, table, Base, Typed, TableTyped
<1>2. \A k \in Slots : LiveState(k)' = LiveState(k) /\ HeldState(k)' = HeldState(k)
  BY <1>1 DEF LiveState, HeldState
<1>3. SameView(Token)
  BY <1>1, <1>2, SameSlots
<1> QED
  BY <1>1, <1>3, StillStack, StopStep

LEMMA GraceRefines ==
  ASSUME Base, Base', Places, Places', InTables, TokensUnique, NEW o \in Slots, GraceElapses(o)
  PROVE  Session!Next
<1> DEFINE t == orphans[o].token
<1>1. /\ Still /\ UNCHANGED <<clients, next_token, running>> /\ next_token \in Nat
      /\ running /\ pc = "poll" /\ pc' = "poll" /\ cur' = cur /\ t # 0
      /\ ~orphans[o].due
  BY DEF GraceElapses, Still, loop, Base, Typed, TableTyped, Pending
<1>2. /\ orphans'[o].due /\ orphans'[o].token = t /\ orphans'[o].wins = orphans[o].wins
      /\ \A p \in Slots : p # o => orphans'[p] = orphans[p]
  BY DEF GraceElapses, Base, Typed, TableTyped, OrphanRec
<1>3. t \in Token /\ t \in Nat \ {0}
  BY <1>1, TokensAreNats DEF InTables
<1>4. \A p \in Slots : p # o => orphans[p].token # t
  BY <1>1 DEF TokensUnique, Held
<1>5. \A k \in Slots : LiveState(k)' = LiveState(k)
  BY <1>1 DEF LiveState
<1>6. \A p \in Slots : p # o => HeldState(p)' = HeldState(p)
  BY <1>1, <1>2 DEF HeldState
<1>7. HeldState(o) = "held" /\ HeldState(o)' = "due"
  BY <1>1, <1>2 DEF HeldState
<1>8. /\ StateOf(t) = "held" /\ StateOf(t)' = "due" /\ WinsOf(t)' = WinsOf(t)
  BY <1>2, <1>3, <1>7 DEF Places
<1> HIDE DEF t
<1>9. ASSUME NEW u \in Token \ {t}
      PROVE  StateOf(u)' = StateOf(u) /\ WinsOf(u)' = WinsOf(u)
  <2>1. u \in Nat \ {0} /\ \A p \in Slots : orphans[p].token = u \/ orphans'[p].token = u => p # o
    BY <1>2, <1>9, TokensAreNats DEF t
  <2> QED
    BY <1>1, <1>2, <1>5, <1>6, <2>1, Undisturbed
<1>10. Becomes(t, "due")
  BY <1>1, <1>8, <1>9, StillStack DEF Becomes, SameView
<1> QED
  BY <1>3, <1>8, <1>10, GraceStep

LEMMA StillRefines ==
  ASSUME Base, Base', Places, Places', InTables, TokensUnique, Still
  PROVE  [Session!Next]_(Session!vars)
<1>1. \/ Pausing \/ TransportProcess \/ (transport_update_focus /\ ~running) \/ Quit
      \/ \E o \in Slots : GraceElapses(o)
  BY DEF Still, Pausing
<1> QED
  BY <1>1, PausingRefines, TransportProcessRefines, QuitRefines, GraceRefines


----------------------------------------------------------------------------
(* There are no more sessions than connections.                            *)

\* Connections whose handshake was completed, or that are over.
Welcomed == {c \in Conn : \/ conn[c] = "done"
                          \/ \E k \in Slots : clients[k].fd = c /\ clients[k].hello}

TokensBounded == next_token <= Cardinality(Welcomed)

\* A connection is used once: it is served after it was made and over after that.
LEMMA ConnectionsAge ==
  ASSUME Base, [Next]_vars, NEW c \in Conn
  PROVE  /\ conn[c] = "done" => conn'[c] = "done"
         /\ conn[c] = "served" => conn'[c] \in {"served", "done"}
<1>1. conn \in [Conn -> {"unborn", "backlog", "served", "done"}]
  BY DEF Base, Typed, SocketTyped
<1>2. ASSUME Client
      PROVE  \/ UNCHANGED conn
             \/ \E d \in Conn : conn[d] = "unborn" /\ conn' = [conn EXCEPT ![d] = "backlog"]
  BY <1>2 DEF Client, ClientConnect, ClientClose, ClientStall, ClientSend
<1>3. ASSUME NEW d \in Conn, Accept(d)
      PROVE  /\ conn[d] = "backlog"
             /\ \/ conn' = [conn EXCEPT ![d] = "served"]
                \/ conn' = [conn EXCEPT ![d] = "done"]
  BY <1>3 DEF Accept
<1>4. ASSUME Lose \/ ReapDone
      PROVE  UNCHANGED conn \/ \E d \in Conn : conn' = [conn EXCEPT ![d] = "done"]
  <2>1. (\E k : Handling(k) /\ Release(k)) \/ UNCHANGED conn
    BY <1>4, LosingDrops DEF client_drop, ReapDone, Base, Pending, Handling
  <2>2. \A k : Handling(k) => clients[k].fd \in Conn
    BY ServedSlot DEF Base, Typed, Handling
  <2> QED
    BY <2>1, <2>2 DEF Release
<1>5. ASSUME Halt
      PROVE  conn' = [d \in Conn |-> IF conn[d] = "backlog" THEN "done" ELSE conn[d]]
  BY <1>5 DEF Halt
<1>6. ASSUME \/ Wake \/ InputFocus \/ TransportProcess \/ ExpireDone \/ HandleListen
             \/ AcceptDone \/ EventsDone \/ RecvEnd \/ transport_update_focus \/ Quit
             \/ DispatchOther \/ on_set_geometry \/ on_set_cursor
             \/ (\E o \in Slots : GraceElapses(o)) \/ (\E m \in Screens : SetMode(m))
             \/ UNCHANGED vars
      PROVE  UNCHANGED conn
  BY <1>6 DEF Wake, InputFocus, Poll, TransportProcess, ExpireDone, HandleListen, AcceptDone,
              EventsDone, RecvEnd, transport_update_focus, Quit, DispatchOther, on_set_geometry,
              on_set_cursor, GraceElapses, SetMode, Goto, socket, vars
<1>7. ASSUME \/ ReapWindow \/ (\E d \in Conn : client_readable(d))
             \/ (\E o \in Slots : orphan_destroy(o))
             \/ DispatchHello \/ on_create_window \/ on_commit \/ on_destroy_window
      PROVE  UNCHANGED conn
  BY <1>7 DEF ReapWindow, client_readable, orphan_destroy, DispatchHello, on_create_window,
              on_commit, on_destroy_window, socket
<1> QED
  BY <1>1, <1>2, <1>3, <1>4, <1>5, <1>6, <1>7, Steps DEF Still

\* Tokens are given out in the handshake only.
LEMMA TokensGivenOut ==
  ASSUME Base, TokensUnique, [Next]_vars
  PROVE  \/ UNCHANGED next_token
         \/ DispatchHello /\ Greeted /\ next_token' = next_token + 1
<1>1. CASE DispatchHello
  <2>1. UNCHANGED next_token \/ next_token' = next_token + 1
    BY <1>1 DEF DispatchHello
  <2> QED
    BY <1>1, <2>1, Greeting DEF Reclaimed
<1>2. ASSUME \/ Wake \/ InputFocus \/ TransportProcess \/ ExpireDone \/ HandleListen
             \/ AcceptDone \/ EventsDone \/ RecvEnd \/ transport_update_focus \/ Quit
             \/ DispatchOther \/ on_set_geometry \/ on_set_cursor \/ Client \/ Halt
             \/ (\E o \in Slots : GraceElapses(o)) \/ (\E m \in Screens : SetMode(m))
             \/ UNCHANGED vars
      PROVE  UNCHANGED next_token
  BY <1>2 DEF Wake, InputFocus, Poll, TransportProcess, ExpireDone, HandleListen, AcceptDone,
              EventsDone, RecvEnd, transport_update_focus, Quit, DispatchOther, on_set_geometry,
              on_set_cursor, GraceElapses, SetMode, Goto, table, vars, Client, ClientConnect,
              ClientClose, ClientStall, ClientSend, Halt
<1>3. ASSUME \/ ReapWindow \/ ReapDone \/ (\E d \in Conn : Accept(d) \/ client_readable(d))
             \/ (\E o \in Slots : orphan_destroy(o))
             \/ on_create_window \/ on_commit \/ on_destroy_window
      PROVE  UNCHANGED next_token
  BY <1>3 DEF ReapWindow, ReapDone, Accept, client_readable, orphan_destroy, on_create_window,
              on_commit, on_destroy_window, table
<1> QED
  BY <1>1, <1>2, <1>3, Steps, LosingDrops DEF Still

LEMMA WelcomedStay ==
  ASSUME Base, Base', TokensUnique, [Next]_vars
  PROVE  Welcomed \subseteq Welcomed'
<1> SUFFICES ASSUME NEW k \in Slots, clients[k].fd \in Conn, clients[k].hello
             PROVE  \/ conn'[clients[k].fd] = "done"
                    \/ \E j \in Slots : clients'[j].fd = clients[k].fd /\ clients'[j].hello
  BY ConnectionsAge DEF Welcomed
<1>1. clients[k].fd # NoConn /\ conn[clients[k].fd] = "served"
  BY ConnAssumption DEF Base, Seated
<1>2. ASSUME NEW j \in Slots, Freed(j)
      PROVE  conn'[clients[j].fd] = "done"
  <2>1. clients[j].fd \in Conn /\ clients[j].fd # NoConn /\ conn[clients[j].fd] = "served"
    BY <1>2, ConnAssumption DEF Freed, Base, Seated
  <2>2. \A i \in Slots : clients'[i].fd # clients[j].fd
    BY <1>2, <2>1 DEF Freed, Base, Seated, NoClient
  <2>3. conn'[clients[j].fd] # "served"
    BY <2>1, <2>2 DEF Base, Seated
  <2> QED
    BY <2>1, <2>3, ConnectionsAge
<1>3. CASE Silent
  BY <1>1, <1>3 DEF Silent, SameClient, NewClient
<1>4. ASSUME NEW j \in Slots, Freed(j)
      PROVE  conn'[clients[k].fd] = "done" \/ clients'[k] = clients[k]
  BY <1>2, <1>4 DEF Freed
<1>5. ASSUME NEW j \in Slots, NEW w \in Wid, Withdrawn(j, w)
      PROVE  clients'[k].fd = clients[k].fd /\ clients'[k].hello = clients[k].hello
  BY <1>5 DEF Withdrawn
<1>6. CASE DispatchHello
  BY <1>6, Greeting
<1>7. CASE on_create_window /\ Created
  BY <1>7, CreatedClients
<1>8. CASE transport_update_focus
  BY <1>8 DEF transport_update_focus
<1>9. ASSUME NEW m \in Screens, SetMode(m)
      PROVE  UNCHANGED clients
  BY <1>9 DEF SetMode, table
<1> QED
  BY <1>3, <1>4, <1>5, <1>6, <1>7, <1>8, <1>9, TellingSteps

LEMMA NextBounded ==
  ASSUME IsFiniteSet(Conn), Base, TokensUnique, TokensBounded, [Next]_vars
  PROVE  TokensBounded'
<1>1. Base' /\ Welcomed \subseteq Welcomed' /\ Welcomed' \subseteq Conn
  BY NextBase, WelcomedStay DEF Welcomed
<1>2. /\ IsFiniteSet(Welcomed) /\ IsFiniteSet(Welcomed')
      /\ Cardinality(Welcomed) <= Cardinality(Welcomed')
      /\ Cardinality(Welcomed) \in Nat /\ Cardinality(Welcomed') \in Nat
  BY <1>1, FS_Subset, FS_CardinalityType
<1>3. next_token \in Nat /\ next_token' \in Nat
  BY <1>1 DEF Base, Typed, TableTyped
<1>4. CASE UNCHANGED next_token
  BY <1>2, <1>3, <1>4 DEF TokensBounded
<1>5. CASE DispatchHello /\ Greeted /\ next_token' = next_token + 1
  <2>1. PICK c \in Conn : c = clients[cur].fd /\ cur \in Slots /\ c # NoConn /\ ~clients[cur].hello
    BY <1>5, Greeting, ServedSlot DEF Base, Typed
  <2>2. c \notin Welcomed
    BY <2>1 DEF Welcomed, Base, Seated
  <2>3. c \in Welcomed'
    BY <1>5, <2>1 DEF Welcomed, Greeted
  <2>4. PICK W : W = Welcomed \cup {c}
    OBVIOUS
  <2>5. Cardinality(W) = Cardinality(Welcomed) + 1
    BY <1>2, <2>2, <2>4, FS_AddElement
  <2>6. W \in SUBSET Welcomed'
    BY <1>1, <2>3, <2>4
  <2>7. Cardinality(W) <= Cardinality(Welcomed')
    BY <1>2, <2>6, FS_Subset
  <2> QED
    BY <1>2, <1>3, <1>5, <2>5, <2>7 DEF TokensBounded
<1> QED
  BY <1>4, <1>5, TokensGivenOut

GivenOut == \A t \in Nat \ {0} : t <= next_token => t \in Token

LEMMA BoundedImpliesInTables ==
  ASSUME IsFiniteSet(Conn), Base, TokensBounded
  PROVE  InTables /\ GivenOut
<1>1. Cardinality(Welcomed) <= Cardinality(Conn)
      /\ Cardinality(Welcomed) \in Nat /\ Cardinality(Conn) \in Nat
  <2>1. Welcomed \in SUBSET Conn
    BY DEF Welcomed
  <2> QED
    BY <2>1, FS_Subset, FS_CardinalityType
<1>2. /\ next_token \in Nat
      /\ \A k \in Slots : /\ clients[k].token \in Nat /\ orphans[k].token \in Nat
                          /\ clients[k].token <= next_token /\ orphans[k].token <= next_token
  BY DEF Base, Typed, TableTyped, ClientRec, OrphanRec
<1>3. ASSUME NEW t \in Nat \ {0}, t <= next_token
      PROVE  t \in Token
  BY <1>1, <1>2, <1>3 DEF TokensBounded, Token
<1> QED
  BY <1>2, <1>3 DEF InTables, GivenOut


----------------------------------------------------------------------------
(* A held session has windows until it ends.                               *)

\* An orphan slot is only ever empty while it is being taken down.
HeldFull == \A o \in Slots : orphans[o].token # 0 /\ Used(orphans[o].wins) = {} =>
  \/ pc = "expire" /\ orphans[o].due
  \/ ~running /\ pc \in {"reap", "stop", "halted"}

\* What a step leaves of a held session's windows while the phase does not change.
LEMMA HeldFullKept ==
  ASSUME HeldFull,
         \A o \in Slots : \/ orphans'[o].token = 0
                          \/ /\ orphans'[o].token = orphans[o].token
                             /\ orphans'[o].due = orphans[o].due
                             /\ orphans'[o].wins = orphans[o].wins
                          \/ Used(orphans'[o].wins) # {},
         UNCHANGED running,
         pc = "expire" /\ pc' # "expire" => \A o \in Slots : orphans[o].token # 0 => ~orphans[o].due,
         ~running /\ pc \in {"reap", "stop", "halted"} => pc' \in {"reap", "stop", "halted"}
  PROVE  HeldFull'
<1> SUFFICES ASSUME NEW o \in Slots, orphans'[o].token # 0, Used(orphans'[o].wins) = {}
             PROVE  \/ pc' = "expire" /\ orphans'[o].due
                    \/ ~running' /\ pc' \in {"reap", "stop", "halted"}
  BY DEF HeldFull
<1>1. orphans'[o].token = orphans[o].token /\ orphans'[o].due = orphans[o].due
      /\ orphans'[o].wins = orphans[o].wins
  OBVIOUS
<1>2. orphans[o].token # 0 /\ Used(orphans[o].wins) = {}
  BY <1>1
<1> QED
  BY <1>1, <1>2 DEF HeldFull

\* The phases a step that is not a poll leads to.
LEMMA LosingPhase ==
  ASSUME Base, Lose \/ ReapDone
  PROVE  /\ pc \in {"drain", "events", "reap", "stop"} /\ pc' \in {"reap", "events", "stop"}
         /\ ~running => pc' \in {"reap", "stop"}
         /\ running => pc' # "stop" /\ pc # "stop"
<1>1. ASSUME NEW k, client_drop(k) \/ Release(k)
      PROVE  pc' = "reap" \/ pc' = AfterDrop
  BY <1>1 DEF client_drop, Release
<1>2. CASE Lose
  <2>1. pc' = "reap" \/ pc' = AfterDrop
    BY <1>1, <1>2, LosingDrops
  <2>2. pc \in {"drain", "events", "stop"}
    BY <1>2 DEF Lose, DispatchReject, RecvHangup, HandleHangup, StopClient
  <2> QED
    BY <2>1, <2>2 DEF AfterDrop, Base, Pending
<1>3. CASE ReapDone
  BY <1>1, <1>3 DEF ReapDone, AfterDrop, Base, Pending
<1> QED
  BY <1>2, <1>3

\* A client's loss parks its windows, whole, in a free orphan slot, or leaves the
\* client to be taken down or its slot to be emptied.
Parked(k, f) ==
  /\ f \in Slots /\ orphans[f].token = 0
  /\ clients[k].token # 0 /\ Used(clients[k].wins) # {}
  /\ clients'[k] = NoClient /\ \A j \in Slots : j # k => clients'[j] = clients[j]
  /\ orphans'[f] = [token |-> clients[k].token, due |-> FALSE, wins |-> clients[k].wins]
  /\ \A o \in Slots : o # f => orphans'[o] = orphans[o]
  /\ pc' # "reap"

LEMMA ClientLost ==
  ASSUME Base, Lose
  PROVE  \E k \in Slots :
           /\ clients[k].fd # NoConn
           /\ \/ \E f : Parked(k, f)
              \/ UNCHANGED <<clients, orphans>> /\ pc' = "reap" /\ cur' = k
<1>1. PICK k : Handling(k) /\ client_drop(k)
  BY LosingDrops
<1>2. k \in Slots /\ clients[k].fd # NoConn
  BY <1>1 DEF Handling
<1>3. CASE pc' = "reap" /\ cur' = k /\ UNCHANGED <<clients, orphans>>
  BY <1>2, <1>3
<1>4. CASE /\ Parks(k) /\ clients' = [clients EXCEPT ![k] = NoClient]
           /\ orphans' = [orphans EXCEPT ![Min(FreeOrphans)] =
                [token |-> clients[k].token, due |-> FALSE, wins |-> clients[k].wins]]
           /\ pc' = AfterDrop
  <2>1. PICK f \in Slots : f = Min(FreeOrphans) /\ orphans[f].token = 0
    <3>1. FreeOrphans # {} /\ FreeOrphans \subseteq Slots
      BY <1>4 DEF Parks, FreeOrphans
    <3>2. Min(FreeOrphans) \in FreeOrphans
      BY <3>1, FirstSlot
    <3> QED
      BY <3>1, <3>2 DEF FreeOrphans
  <2>2. /\ clients'[k] = NoClient /\ \A j \in Slots : j # k => clients'[j] = clients[j]
        /\ orphans'[f] = [token |-> clients[k].token, due |-> FALSE, wins |-> clients[k].wins]
        /\ \A o \in Slots : o # f => orphans'[o] = orphans[o]
    BY <1>2, <1>4, <2>1 DEF Base, Typed, TableTyped
  <2>3. Parked(k, f)
    BY <1>4, <2>1, <2>2 DEF Parked, Parks, AfterDrop
  <2> QED
    BY <1>2, <2>3
<1> QED
  BY <1>1, <1>3, <1>4 DEF client_drop, Release


\* The phases in which sessions are taken down see few other steps.
LEMMA StillPhases ==
  ASSUME Still
  PROVE  /\ pc = "expire" => ExpireDone \/ UNCHANGED vars
         /\ pc \in {"reap", "stop", "halted"} => Halt \/ UNCHANGED vars
<1>1. ASSUME \/ Wake \/ InputFocus \/ TransportProcess \/ HandleListen \/ AcceptDone
             \/ EventsDone \/ RecvEnd \/ transport_update_focus \/ Quit \/ Client
             \/ DispatchOther \/ on_set_geometry \/ on_set_cursor
             \/ (\E o \in Slots : GraceElapses(o)) \/ (\E m \in Screens : SetMode(m))
      PROVE  pc \notin {"expire", "reap", "stop", "halted"}
  BY <1>1 DEF Wake, InputFocus, Poll, TransportProcess, HandleListen, AcceptDone,
              EventsDone, RecvEnd, transport_update_focus, Quit, DispatchOther, on_set_geometry,
              on_set_cursor, GraceElapses, SetMode, Goto, Client, Recv
<1>2. ASSUME ExpireDone
      PROVE  pc = "expire"
  BY <1>2 DEF ExpireDone, Goto
<1>3. ASSUME Halt
      PROVE  pc = "stop"
  BY <1>3 DEF Halt
<1> QED
  BY <1>1, <1>2, <1>3 DEF Still

LEMMA NextHeldFull ==
  ASSUME Base, TokensUnique, HeldFull, [Next]_vars
  PROVE  HeldFull'
<1>1. CASE Still
  <2>1. \A o \in Slots : orphans'[o].token = orphans[o].token /\ orphans'[o].wins = orphans[o].wins
    BY <1>1, StillTables
  <2>2. CASE UNCHANGED vars
    BY <2>2 DEF HeldFull, vars, table, loop
  <2>3. CASE ExpireDone
    <3>1. /\ UNCHANGED <<orphans, running>> /\ pc = "expire"
          /\ \A o \in Slots : orphans[o].token # 0 => ~orphans[o].due
      BY <2>3 DEF ExpireDone, Goto, table, Reaping
    <3> QED
      BY <3>1, HeldFullKept
  <2>4. CASE Halt
    BY <2>1, <2>4 DEF Halt, HeldFull
  <2>5. CASE pc \notin {"expire", "reap", "stop", "halted"}
    BY <2>1, <2>5 DEF HeldFull
  <2> QED
    BY <1>1, <2>2, <2>3, <2>4, <2>5, StillPhases
<1>2. CASE Lose
  <2>1. PICK k \in Slots : \/ \E f : Parked(k, f)
                           \/ UNCHANGED <<clients, orphans>>
    BY <1>2, ClientLost
  <2>2. \A o \in Slots : orphans'[o] = orphans[o] \/ Used(orphans'[o].wins) # {}
    BY <2>1 DEF Parked
  <2> QED
    BY <1>2, <2>2, LosingDrops, LosingPhase, HeldFullKept
<1>3. CASE ReapDone
  <2>1. UNCHANGED <<orphans, running>>
    BY <1>3 DEF ReapDone
  <2> QED
    BY <1>3, <2>1, LosingPhase, HeldFullKept
<1>4. ASSUME \/ ReapWindow \/ on_create_window \/ on_commit \/ on_destroy_window
             \/ \E c \in Conn : Accept(c)
      PROVE  HeldFull'
  <2>1. UNCHANGED <<orphans, running, pc>>
    BY <1>4 DEF ReapWindow, on_create_window, on_commit, on_destroy_window, Accept, loop
  <2> QED
    BY <2>1, HeldFullKept
<1>5. ASSUME NEW c \in Conn, client_readable(c)
      PROVE  HeldFull'
  <2>1. UNCHANGED <<orphans, running>> /\ pc = "events"
    BY <1>5 DEF client_readable, table
  <2> QED
    BY <2>1, HeldFullKept
<1>6. CASE DispatchHello
  <2>1. UNCHANGED <<running, pc>>
    BY <1>6 DEF DispatchHello
  <2>2. \A o \in Slots : orphans'[o] = orphans[o] \/ orphans'[o].token = 0
    <3>1. NoOrphan.token = 0
      BY DEF NoOrphan
    <3>2. CASE Greeted
      BY <3>1, <3>2 DEF Greeted
    <3>3. ASSUME NEW p \in Slots, Reclaimed(p)
          PROVE  \A o \in Slots : orphans'[o] = orphans[o] \/ orphans'[o].token = 0
      BY <3>1, <3>3 DEF Reclaimed
    <3> QED
      BY <1>6, <3>2, <3>3, Greeting
  <2> QED
    BY <2>1, <2>2, HeldFullKept
<1>7. ASSUME NEW o \in Slots, orphan_destroy(o)
      PROVE  HeldFull'
  <2>1. UNCHANGED <<running, pc>> /\ \A p \in Slots : p # o => orphans'[p] = orphans[p]
    BY <1>7 DEF orphan_destroy, loop, Base, Typed, TableTyped
  <2>2. orphans'[o] = NoOrphan \/ orphans'[o].due = orphans[o].due
    BY <1>7 DEF orphan_destroy, Base, Typed, TableTyped, OrphanRec
  <2>3. (pc = "expire" /\ orphans[o].due) \/ (pc = "stop" /\ ~running)
    BY <1>7 DEF orphan_destroy, Reaping, Base, Pending
  <2> QED
    BY <2>1, <2>2, <2>3 DEF HeldFull, NoOrphan
<1> QED
  BY <1>1, <1>2, <1>3, <1>4, <1>5, <1>6, <1>7, Steps


----------------------------------------------------------------------------
(* Steps that change the tables.                                           *)

\* A lost client's session is held, or ends; a connection without one just goes.
LEMMA LoseRefines ==
  ASSUME Base, Base', Places, Places', InTables, TokensUnique, TokensUnique', Lose
  PROVE  [Session!Next]_(Session!vars)
<1>1. PICK k \in Slots :
        /\ clients[k].fd # NoConn
        /\ \/ \E f : Parked(k, f)
           \/ UNCHANGED <<clients, orphans>> /\ pc' = "reap" /\ cur' = k
  BY ClientLost
<1>2. /\ UNCHANGED <<stack, next_token, running>> /\ next_token \in Nat
      /\ running \in BOOLEAN
  BY LosingDrops DEF scene, Base, Typed, TableTyped, LoopTyped
<1>3. /\ pc \in {"drain", "events", "stop"} /\ pc' \in {"reap", "events", "stop"}
      /\ ~running => pc' \in {"reap", "stop"}
      /\ running => pc' # "stop" /\ pc # "stop"
  BY LosingPhase DEF Lose, DispatchReject, RecvHangup, HandleHangup, StopClient
<1>4. \A o \in Slots : orphans'[o] = orphans[o] => HeldState(o)' = HeldState(o)
  BY <1>2, <1>3 DEF HeldState, Base, Pending
<1>5. ASSUME NEW j \in Slots
      PROVE  /\ LiveState(j) = "live"
             /\ LiveState(j)' = IF pc' = "reap" /\ cur' = j THEN "ended" ELSE "live"
  BY <1>3 DEF LiveState
<1>6. PICK t : t = clients[k].token
  OBVIOUS
<1>7. UNCHANGED <<Ids(stack), stack.next_id, running>>
  BY <1>2
<1>8. CASE UNCHANGED <<clients, orphans>> /\ pc' = "reap" /\ cur' = k
  <2>1. CASE t = 0
    <3>1. \A j \in Slots : clients[j].token # 0 => LiveState(j)' = LiveState(j)
      BY <1>5, <1>8, <1>6, <2>1
    <3>2. SameView(Token)
      BY <1>2, <1>4, <1>8, <3>1, SameSlots
    <3> QED
      BY <1>7, <3>2, StutterStep
  <2>2. CASE t # 0
    <3>1. t \in Token /\ t \in Nat \ {0}
      BY <1>6, <2>2, TokensAreNats DEF InTables
    <3>2. StateOf(t) = "live" /\ StateOf(t)' = "ended" /\ WinsOf(t)' = WinsOf(t)
      BY <1>5, <1>8, <1>6, <3>1 DEF Places
    <3>3. ASSUME NEW u \in Token \ {t}
          PROVE  StateOf(u)' = StateOf(u) /\ WinsOf(u)' = WinsOf(u)
      <4>1. u \in Nat \ {0} /\ \A j \in Slots : clients[j].token = u => j # k
        BY <1>6, <3>3, TokensAreNats
      <4>2. \A j \in Slots : clients[j].token = u => LiveState(j)' = LiveState(j)
        BY <1>5, <1>8, <4>1
      <4> QED
        BY <1>2, <1>4, <1>8, <4>1, <4>2, Undisturbed
    <3>4. Becomes(t, "ended")
      BY <1>7, <3>2, <3>3 DEF Becomes, SameView
    <3> QED
      BY <3>1, <3>2, <3>4, DropStep
  <2> QED
    BY <2>1, <2>2
<1>9. ASSUME NEW f, Parked(k, f)
      PROVE  Session!Next
  <2>1. /\ f \in Slots /\ orphans[f].token = 0 /\ t # 0 /\ pc' # "reap"
        /\ Used(clients[k].wins) # {}
        /\ clients'[k] = NoClient /\ \A j \in Slots : j # k => clients'[j] = clients[j]
        /\ orphans'[f] = [token |-> t, due |-> FALSE, wins |-> clients[k].wins]
        /\ \A o \in Slots : o # f => orphans'[o] = orphans[o]
    BY <1>9, <1>6 DEF Parked
  <2>2. t \in Token /\ t \in Nat \ {0}
    BY <1>6, <2>1, TokensAreNats DEF InTables
  <2>3. orphans'[f].token = t /\ orphans'[f].wins = clients[k].wins /\ ~orphans'[f].due
    BY <2>1
  <2>4. HeldState(f)' = IF running THEN "held" ELSE "ended"
    BY <1>2, <1>3, <2>3 DEF HeldState, Base, Pending
  <2>5. StateOf(t) = "live" /\ WinsOf(t) = IdsOf(clients[k].wins)
    BY <1>5, <1>6, <2>2 DEF Places
  <2>6. StateOf(t)' = HeldState(f)' /\ WinsOf(t)' = WinsOf(t)
    <3>1. StateOf(t)' = HeldState(f)' /\ WinsOf(t)' = IdsOf(orphans'[f].wins)
      BY <2>1, <2>2, <2>3 DEF Places
    <3> QED
      BY <2>3, <2>5, <3>1
  <2>7. WinsOf(t) # {}
    <3>1. PICK w \in Wid : clients[k].wins[w].server_id # 0
      BY <2>1 DEF Used
    <3> QED
      BY <2>5, <3>1 DEF IdsOf
  <2>8. ASSUME NEW u \in Token \ {t}
        PROVE  StateOf(u)' = StateOf(u) /\ WinsOf(u)' = WinsOf(u)
    <3>1. u \in Nat \ {0} /\ NoClient.token = 0
      BY <2>8, TokensAreNats DEF NoClient
    <3>2. \A j \in Slots : clients[j].token = u \/ clients'[j].token = u => j # k
      BY <1>6, <2>1, <2>8, <3>1
    <3>3. \A o \in Slots : orphans[o].token = u \/ orphans'[o].token = u => o # f
      BY <2>1, <2>3, <2>8, <3>1
    <3>4. \A j \in Slots : LiveState(j)' = LiveState(j)
      BY <1>5, <2>1
    <3> QED
      BY <1>2, <1>4, <2>1, <3>1, <3>2, <3>3, <3>4, Undisturbed
  <2>9. CASE running
    <3>1. Becomes(t, "held")
      BY <1>7, <2>4, <2>6, <2>8, <2>9 DEF Becomes, SameView
    <3> QED
      BY <2>2, <2>5, <2>7, <2>9, <3>1, HoldStep
  <2>10. CASE ~running
    <3>1. Becomes(t, "ended")
      BY <1>7, <2>4, <2>6, <2>8, <2>10 DEF Becomes, SameView
    <3> QED
      BY <2>2, <2>5, <3>1, DropStep
  <2> QED
    BY <2>9, <2>10
<1> QED
  BY <1>1, <1>8, <1>9


\* A window is taken off the screen, and its owner's table.
LEMMA ScreenLoses ==
  ASSUME Base, Base', NEW e \in Entry, TakenOff(e)
  PROVE  Ids(stack') = Ids(stack) \ {e.server_id} /\ stack'.next_id = stack.next_id
<1>1. Sound(stack) /\ Sound(stack')
  BY DEF Base, Typed, SceneTyped
<1>2. /\ Contents(stack') = {v \in Contents(stack) : v.id # e.server_id}
      /\ stack'.next_id = stack.next_id
  BY <1>1, TakeDown DEF TakenOff
<1>3. /\ Ids(stack) = {v.id : v \in Contents(stack)}
      /\ Ids(stack') = {v.id : v \in Contents(stack')}
  BY <1>1, StackIds
<1> QED
  BY <1>2, <1>3

\* A live client destroys a window, or one of a lost client's is taken down.
LEMMA ClientWindowGoes ==
  ASSUME Base, Base', Places, Places', InTables, TokensUnique, Owning,
         NEW k \in Slots, NEW w \in Wid, clients[k].wins[w].server_id # 0,
         clients' = [clients EXCEPT ![k].wins[w] = NoWin], TakenOff(clients[k].wins[w]),
         UNCHANGED <<orphans, next_token, pc, cur, running>>
  PROVE  Session!Next
<1>1. /\ clients[k].wins[w] \in Entry /\ next_token \in Nat /\ TableTyped
      /\ PutClient(k, w, NoWin)
  BY NullsTyped DEF PutClient, Base, Typed, TableTyped, ClientRec
<1>2. /\ \A j \in Slots : j # k => clients'[j] = clients[j]
      /\ clients'[k].token = clients[k].token /\ clients'[k].wins[w] = NoWin
      /\ \A x \in Wid : x # w => clients'[k].wins[x] = clients[k].wins[x]
  BY <1>1, ClientEntry
<1>3. PICK t : t = clients[k].token
  OBVIOUS
<1>4. t \in Token /\ t \in Nat \ {0}
  <2>1. clients[k].hello /\ t # 0
    BY <1>3 DEF TokensUnique, Used
  <2> QED
    BY <1>3, <2>1, TokensAreNats DEF InTables
<1>5. PICK id : id = clients[k].wins[w].server_id
  OBVIOUS
<1>6. \A x \in Wid : x # w => clients[k].wins[x].server_id # id
  <2>1. ASSUME NEW x \in Wid, x # w, clients[k].wins[x].server_id = id
        PROVE  FALSE
    <3>1. <<"client", k, x>> \in InUse /\ <<"client", k, w>> \in InUse
      BY <1>5, <2>1, EntryForms DEF InUse
    <3>2. EntryAt(<<"client", k, x>>).server_id = EntryAt(<<"client", k, w>>).server_id
      BY <1>5, <2>1, EntryForms
    <3>3. <<"client", k, x>> = <<"client", k, w>>
      BY <3>1, <3>2 DEF Owning, Apart
    <3> QED
      BY <2>1, <3>3
  <2> QED
    BY <2>1
<1>7. IdsOf(clients'[k].wins) = IdsOf(clients[k].wins) \ {id} /\ id \in IdsOf(clients[k].wins)
  <2>1. PICK W, V : W = clients[k].wins /\ V = clients'[k].wins
    OBVIOUS
  <2>2. /\ W[w].server_id = id /\ id # 0 /\ V[w] = NoWin
        /\ \A x \in Wid : x # w => V[x] = W[x] /\ W[x].server_id # W[w].server_id
    BY <1>2, <1>5, <1>6, <2>1
  <2>3. IdsOf(V) = IdsOf(W) \ {id} /\ id \in IdsOf(W)
    BY <2>2 DEF IdsOf, NoWin
  <2> QED
    BY <2>1, <2>3
<1>8. \A j \in Slots : /\ LiveState(j)' = LiveState(j) /\ HeldState(j)' = HeldState(j)
                       /\ LiveState(j) \in {"live", "ended"}
  BY DEF LiveState, HeldState
<1>9. /\ StateOf(t) = LiveState(k) /\ StateOf(t)' = LiveState(k)'
      /\ WinsOf(t) = IdsOf(clients[k].wins) /\ WinsOf(t)' = IdsOf(clients'[k].wins)
  BY <1>2, <1>3, <1>4 DEF Places
<1>10. ASSUME NEW u \in Token \ {t}
       PROVE  StateOf(u)' = StateOf(u) /\ WinsOf(u)' = WinsOf(u)
  <2>1. u \in Nat \ {0} /\ \A j \in Slots : clients[j].token = u \/ clients'[j].token = u => j # k
    BY <1>2, <1>3, <1>10, TokensAreNats
  <2> QED
    BY <1>1, <1>2, <1>8, <2>1, Undisturbed
<1>11. SameView(Token \ {t})
  BY <1>10 DEF SameView
<1>12. /\ Ids(stack') = Ids(stack) \ {id} /\ UNCHANGED <<stack.next_id, running>>
       /\ id \in WinsOf(t) /\ WinsOf(t)' = WinsOf(t) \ {id}
       /\ StateOf(t) \in {"live", "ended"} /\ StateOf(t)' = StateOf(t)
  BY <1>1, <1>5, <1>7, <1>8, <1>9, ScreenLoses
<1> QED
  BY <1>4, <1>11, <1>12, RemoveStep

LEMMA ReapWindowRefines ==
  ASSUME Base, Base', Places, Places', InTables, TokensUnique, Owning, ReapWindow
  PROVE  Session!Next
<1>1. PICK k \in Slots : k = cur
  BY DEF Base, Pending, ReapWindow
<1>2. PICK w \in Wid : /\ clients[k].wins[w].server_id # 0
                       /\ clients' = [clients EXCEPT ![k].wins[w] = NoWin]
                       /\ TakenOff(clients[k].wins[w])
  BY <1>1 DEF ReapWindow, Used, TakenOff
<1>3. UNCHANGED <<orphans, next_token, pc, cur, running>>
  BY DEF ReapWindow, loop
<1> QED
  BY <1>2, <1>3, ClientWindowGoes

LEMMA DestroyRefines ==
  ASSUME Base, Base', Places, Places', InTables, TokensUnique, Owning, on_destroy_window
  PROVE  [Session!Next]_(Session!vars)
<1>1. /\ cur \in Slots /\ Msg.wid \in Wid /\ next_token \in Nat
      /\ UNCHANGED <<orphans, next_token, pc, cur, running>>
  BY Receiving, MessageForms DEF on_destroy_window, loop, Base, Typed, TableTyped
<1>2. PICK k \in Slots, w \in Wid : k = cur /\ w = Msg.wid
  BY <1>1
<1>3. CASE /\ clients[k].wins[w].server_id # 0
           /\ clients' = [clients EXCEPT ![k].wins[w] = NoWin]
           /\ TakenOff(clients[k].wins[w])
  BY <1>1, <1>3, ClientWindowGoes
<1>4. CASE UNCHANGED <<stack, clients>>
  <2>1. \A j \in Slots : LiveState(j)' = LiveState(j) /\ HeldState(j)' = HeldState(j)
    BY <1>1 DEF LiveState, HeldState
  <2>2. SameView(Token)
    BY <1>1, <1>4, <2>1, SameSlots
  <2> QED
    BY <1>1, <1>4, <2>2, StutterStep
<1> QED
  BY <1>2, <1>3, <1>4 DEF on_destroy_window, TakenOff


\* A held session's window is taken down.
LEMMA OrphanWindowGoes ==
  ASSUME Base, Base', Places, Places', InTables, TokensUnique, Owning,
         NEW o \in Slots, NEW w \in Wid, orphans[o].wins[w].server_id # 0,
         HeldState(o) = "ended",
         orphans' = [orphans EXCEPT ![o].wins[w] = NoWin], TakenOff(orphans[o].wins[w]),
         UNCHANGED <<clients, next_token, focused_server_id, pc, cur, running>>
  PROVE  Session!Next
<1>1. /\ orphans[o].wins[w] \in Entry /\ next_token \in Nat
      /\ PutOrphan(o, w, NoWin)
  BY NullsTyped DEF PutOrphan, Base, Typed, TableTyped, OrphanRec
<1>2. /\ \A p \in Slots : p # o => orphans'[p] = orphans[p]
      /\ orphans'[o].token = orphans[o].token /\ orphans'[o].due = orphans[o].due
      /\ orphans'[o].wins[w] = NoWin
      /\ \A x \in Wid : x # w => orphans'[o].wins[x] = orphans[o].wins[x]
  BY <1>1, OrphanEntry
<1>3. PICK t : t = orphans[o].token
  OBVIOUS
<1>4. t \in Token /\ t \in Nat \ {0}
  <2>1. t # 0
    BY <1>3 DEF TokensUnique, Held, Used
  <2> QED
    BY <1>3, <2>1, TokensAreNats DEF InTables
<1>5. PICK id : id = orphans[o].wins[w].server_id
  OBVIOUS
<1>6. \A x \in Wid : x # w => orphans[o].wins[x].server_id # id
  <2>1. ASSUME NEW x \in Wid, x # w, orphans[o].wins[x].server_id = id
        PROVE  FALSE
    <3>1. <<"orphan", o, x>> \in InUse /\ <<"orphan", o, w>> \in InUse
      BY <1>5, <2>1, EntryForms DEF InUse
    <3>2. EntryAt(<<"orphan", o, x>>).server_id = EntryAt(<<"orphan", o, w>>).server_id
      BY <1>5, <2>1, EntryForms
    <3>3. <<"orphan", o, x>> = <<"orphan", o, w>>
      BY <3>1, <3>2 DEF Owning, Apart
    <3> QED
      BY <2>1, <3>3
  <2> QED
    BY <2>1
<1>7. IdsOf(orphans'[o].wins) = IdsOf(orphans[o].wins) \ {id} /\ id \in IdsOf(orphans[o].wins)
  <2>1. PICK W, V : W = orphans[o].wins /\ V = orphans'[o].wins
    OBVIOUS
  <2>2. /\ W[w].server_id = id /\ id # 0 /\ V[w] = NoWin
        /\ \A x \in Wid : x # w => V[x] = W[x] /\ W[x].server_id # W[w].server_id
    BY <1>2, <1>5, <1>6, <2>1
  <2>3. IdsOf(V) = IdsOf(W) \ {id} /\ id \in IdsOf(W)
    BY <2>2 DEF IdsOf, NoWin
  <2> QED
    BY <2>1, <2>3
<1>8. /\ \A j \in Slots : LiveState(j)' = LiveState(j)
      /\ \A p \in Slots : HeldState(p)' = HeldState(p)
  BY <1>2 DEF LiveState, HeldState
<1>9. /\ StateOf(t) = HeldState(o) /\ StateOf(t)' = HeldState(o)'
      /\ WinsOf(t) = IdsOf(orphans[o].wins) /\ WinsOf(t)' = IdsOf(orphans'[o].wins)
  BY <1>2, <1>3, <1>4 DEF Places
<1>10. ASSUME NEW u \in Token \ {t}
       PROVE  StateOf(u)' = StateOf(u) /\ WinsOf(u)' = WinsOf(u)
  <2>1. u \in Nat \ {0} /\ \A p \in Slots : orphans[p].token = u \/ orphans'[p].token = u => p # o
    BY <1>2, <1>3, <1>10, TokensAreNats
  <2> QED
    BY <1>1, <1>2, <1>8, <2>1, Undisturbed
<1>11. SameView(Token \ {t})
  BY <1>10 DEF SameView
<1>12. /\ Ids(stack') = Ids(stack) \ {id} /\ UNCHANGED <<stack.next_id, running>>
       /\ id \in WinsOf(t) /\ WinsOf(t)' = WinsOf(t) \ {id}
       /\ StateOf(t) \in {"live", "ended"} /\ StateOf(t)' = StateOf(t)
  BY <1>1, <1>5, <1>7, <1>8, <1>9, ScreenLoses
<1> QED
  BY <1>4, <1>11, <1>12, RemoveStep

\* An ended session without windows is forgotten with its slot.
LEMMA OrphanSlotGoes ==
  ASSUME Base, Base', Places, Places', InTables, TokensUnique,
         NEW o \in Slots, orphans[o].token # 0, Used(orphans[o].wins) = {},
         HeldState(o) = "ended", orphans' = [orphans EXCEPT ![o] = NoOrphan],
         UNCHANGED <<stack, clients, next_token, pc, cur, running>>
  PROVE  Session!Next
<1>1. PICK t : t = orphans[o].token
  OBVIOUS
<1>2. t \in Token /\ t \in Nat \ {0} /\ next_token \in Nat /\ t <= next_token
  BY <1>1, TokensAreNats DEF InTables, Base, Typed, TableTyped
<1>3. /\ orphans'[o] = NoOrphan /\ orphans'[o].token = 0
      /\ \A p \in Slots : p # o => orphans'[p] = orphans[p]
  BY DEF Base, Typed, TableTyped, NoOrphan
<1>4. /\ \A j \in Slots : LiveState(j)' = LiveState(j)
      /\ \A p \in Slots : p # o => HeldState(p)' = HeldState(p)
  BY <1>3 DEF LiveState, HeldState
<1>5. \A j \in Slots : clients'[j].token # t /\ orphans'[j].token # t
  <2>1. \A p \in Slots : p # o => orphans[p].token # t
    BY <1>1, <1>2 DEF TokensUnique, Held
  <2>2. \A k \in Slots : clients[k].token # t
    BY <1>1, <1>2 DEF TokensUnique, Held, Base, Seated, Served, NoClient
  <2> QED
    BY <1>2, <1>3, <2>1, <2>2
<1>6. StateOf(t) = "ended" /\ WinsOf(t) = {}
  BY <1>1, <1>2 DEF Places, IdsOf, Used
<1>7. StateOf(t)' = "gone" /\ WinsOf(t)' = WinsOf(t)
  BY <1>2, <1>5, <1>6 DEF Places
<1>8. ASSUME NEW u \in Token \ {t}
      PROVE  StateOf(u)' = StateOf(u) /\ WinsOf(u)' = WinsOf(u)
  <2>1. u \in Nat \ {0} /\ \A p \in Slots : orphans[p].token = u \/ orphans'[p].token = u => p # o
    BY <1>1, <1>3, <1>8, TokensAreNats
  <2> QED
    BY <1>2, <1>3, <1>4, <2>1, Undisturbed
<1>9. Becomes(t, "gone")
  BY <1>7, <1>8 DEF Becomes, SameView
<1> QED
  BY <1>2, <1>6, <1>9, ForgetStep

LEMMA OrphanDestroyRefines ==
  ASSUME Base, Base', Places, Places', InTables, TokensUnique, Owning,
         NEW o \in Slots, orphan_destroy(o)
  PROVE  Session!Next
<1>1. HeldState(o) = "ended" /\ orphans[o].token # 0
  BY DEF orphan_destroy, Reaping, HeldState, Base, Pending
<1>2. UNCHANGED <<clients, next_token, focused_server_id, pc, cur, running>>
  BY DEF orphan_destroy, loop
<1>3. CASE /\ Used(orphans[o].wins) = {}
           /\ orphans' = [orphans EXCEPT ![o] = NoOrphan] /\ UNCHANGED stack
  BY <1>1, <1>2, <1>3, OrphanSlotGoes
<1>4. ASSUME NEW w \in Wid, orphans[o].wins[w].server_id # 0,
             orphans' = [orphans EXCEPT ![o].wins[w] = NoWin], TakenOff(orphans[o].wins[w])
      PROVE  Session!Next
  BY <1>1, <1>2, <1>4, OrphanWindowGoes
<1> QED
  BY <1>3, <1>4 DEF orphan_destroy, Used, TakenOff

\* A lost client whose windows are all down is forgotten with its slot.
LEMMA ReapDoneRefines ==
  ASSUME Base, Base', Places, Places', InTables, TokensUnique, ReapDone
  PROVE  [Session!Next]_(Session!vars)
<1>1. PICK k \in Slots : k = cur /\ clients[k].fd # NoConn
  BY DEF Base, Pending, ReapDone
<1>2. /\ pc = "reap" /\ Used(clients[k].wins) = {}
      /\ UNCHANGED <<stack, orphans, next_token, running>> /\ next_token \in Nat
      /\ clients'[k] = NoClient /\ \A j \in Slots : j # k => clients'[j] = clients[j]
  BY <1>1 DEF ReapDone, Release, scene, Base, Typed, TableTyped
<1>3. pc' = AfterDrop
  BY DEF ReapDone, Release
<1>4. /\ \A j \in Slots : j # k => LiveState(j)' = LiveState(j)
      /\ \A o \in Slots : HeldState(o)' = HeldState(o)
      /\ LiveState(k) = "ended"
  BY <1>1, <1>2, <1>3 DEF LiveState, HeldState, AfterDrop
<1>5. PICK t : t = clients[k].token
  OBVIOUS
<1>6. clients'[k].token = 0
  BY <1>2 DEF NoClient
<1>7. ASSUME NEW u \in Token, u # t
      PROVE  StateOf(u)' = StateOf(u) /\ WinsOf(u)' = WinsOf(u)
  <2>1. u \in Nat \ {0} /\ \A j \in Slots : clients[j].token = u \/ clients'[j].token = u => j # k
    BY <1>5, <1>6, <1>7, TokensAreNats
  <2> QED
    BY <1>2, <1>4, <2>1, Undisturbed
<1>8. CASE t = 0
  <2>1. SameView(Token)
    BY <1>7, <1>8, TokensAreNats DEF SameView
  <2> QED
    BY <1>2, <2>1, StutterStep
<1>9. CASE t # 0
  <2>1. t \in Token /\ t \in Nat \ {0} /\ t <= next_token
    BY <1>5, <1>9, TokensAreNats DEF InTables, Base, Typed, TableTyped
  <2>2. \A j \in Slots : clients'[j].token # t /\ orphans'[j].token # t
    <3>1. \A p \in Slots : orphans[p].token # t
      BY <1>1, <1>5, <1>9 DEF TokensUnique, Held, Served
    <3>2. \A j \in Slots : j # k => clients[j].token # t
      BY <1>1, <1>5, <1>9 DEF TokensUnique, Served, Base, Seated, NoClient
    <3> QED
      BY <1>2, <1>6, <1>9, <3>1, <3>2
  <2>3. StateOf(t) = "ended" /\ WinsOf(t) = {}
    BY <1>2, <1>4, <1>5, <2>1 DEF Places, IdsOf, Used
  <2>4. StateOf(t)' = "gone" /\ WinsOf(t)' = WinsOf(t)
    BY <1>2, <2>1, <2>2, <2>3 DEF Places
  <2>5. Becomes(t, "gone")
    BY <1>2, <1>7, <2>4 DEF Becomes, SameView
  <2> QED
    BY <2>1, <2>3, <2>5, ForgetStep
<1> QED
  BY <1>8, <1>9


\* A connection is accepted or read from; no session notices.
LEMMA AcceptRefines ==
  ASSUME Base, Base', Places, Places', NEW c \in Conn, Accept(c) \/ client_readable(c)
  PROVE  [Session!Next]_(Session!vars)
<1>1. UNCHANGED <<stack, orphans, next_token, running>> /\ next_token \in Nat
  BY DEF Accept, client_readable, scene, table, loop, Base, Typed, TableTyped
<1>2. \A j \in Slots : LiveState(j)' = LiveState(j) /\ HeldState(j)' = HeldState(j)
  BY <1>1 DEF Accept, client_readable, loop, LiveState, HeldState, Base, Pending
<1>3. \A j \in Slots : \/ clients'[j] = clients[j]
                       \/ clients[j].token = 0 /\ clients'[j].token = 0
  <2>1. CASE UNCHANGED clients
    BY <2>1
  <2> DEFINE new == [NoClient EXCEPT !.fd = c]
             f   == Min({k \in Slots : clients[k].fd = NoConn})
  <2>2. CASE {k \in Slots : clients[k].fd = NoConn} # {} /\ clients' = [clients EXCEPT ![f] = new]
    <3>1. f \in Slots /\ clients[f].fd = NoConn
      BY <2>2, FirstSlot
    <3>2. new.token = 0 /\ NoClient.token = 0
      BY DEF NoClient
    <3> HIDE DEF f, new
    <3>3. clients'[f] = new /\ \A j \in Slots : j # f => clients'[j] = clients[j]
      BY <2>2, <3>1 DEF Base, Typed, TableTyped
    <3>4. clients[f].token = 0
      BY <3>1, <3>2 DEF Base, Seated
    <3> QED
      BY <3>2, <3>3, <3>4
  <2> QED
    BY <2>1, <2>2 DEF Accept, client_readable, table
<1>4. SameView(Token)
  BY <1>1, <1>2, <1>3, SameSlots
<1> QED
  BY <1>1, <1>4, StutterStep

\* A frame changes what a window shows, not whose it is.
LEMMA CommitRefines ==
  ASSUME Base, Base', Places, Places', on_commit
  PROVE  [Session!Next]_(Session!vars)
<1>1. /\ UNCHANGED <<orphans, next_token, running, pc, cur, focused_server_id>>
      /\ next_token \in Nat /\ focused_server_id \in Nat /\ cur \in Slots /\ Msg.wid \in Wid
      /\ Sound(stack) /\ Sound(stack') /\ TableTyped
  BY Receiving, Committing DEF on_commit, loop, Base, Typed, TableTyped, SceneTyped
<1>2. \A j \in Slots : LiveState(j)' = LiveState(j) /\ HeldState(j)' = HeldState(j)
  BY <1>1 DEF LiveState, HeldState
<1>3. CASE UNCHANGED <<stack, clients>>
  <2>1. SameView(Token)
    BY <1>1, <1>2, <1>3, SameSlots
  <2> QED
    BY <1>1, <1>3, <2>1, StutterStep
<1>4. PICK k \in Slots, w \in Wid : k = cur /\ w = Msg.wid
  BY <1>1
<1>5. ASSUME NEW fresh, Committed(clients[k].wins[w], fresh)
      PROVE  [Session!Next]_(Session!vars)
  <2>1. PICK e : e = [server_id |-> clients[k].wins[w].server_id, buf |-> fresh]
    OBVIOUS
  <2>2. e \in Entry /\ clients' = [clients EXCEPT ![k].wins[w] = e]
    BY <1>1, <1>4, <1>5, <2>1 DEF Committed, TableTyped, ClientRec, Entry
  <2>3. PutClient(k, w, e)
    BY <1>1, <2>2 DEF PutClient
  <2>4. /\ \A j \in Slots : j # k => clients'[j] = clients[j]
        /\ clients'[k].token = clients[k].token
        /\ \A x \in Wid : clients'[k].wins[x].server_id = clients[k].wins[x].server_id
    BY <2>1, <2>3, ClientEntry
  <2>5. IdsOf(clients'[k].wins) = IdsOf(clients[k].wins)
    <3>1. PICK W, V : W = clients[k].wins /\ V = clients'[k].wins
      OBVIOUS
    <3>2. \A x \in Wid : V[x].server_id = W[x].server_id
      BY <2>4, <3>1
    <3>3. IdsOf(V) = IdsOf(W)
      BY <3>2 DEF IdsOf
    <3> QED
      BY <3>1, <3>3
  <2>6. SameView(Token)
    BY <1>1, <1>2, <2>4, <2>5, SameSlots
  <2>7. PICK v \in Window, old \in Contents(stack) :
          /\ v.id = clients[k].wins[w].server_id /\ old.id = v.id
          /\ Contents(stack') = {z \in Contents(stack) : z.id # v.id} \cup {v}
    <3>1. PICK v \in Window :
            /\ v.id = clients[k].wins[w].server_id
            /\ Contents(stack') = {z \in Contents(stack) : z.id # v.id} \cup {v}
      BY <1>5 DEF Committed
    <3>2. window_by_id(stack, v.id) \in Contents(stack) /\ window_by_id(stack, v.id).id = v.id
      BY <1>1, <1>5, <3>1, ContentsDecide DEF Committed
    <3> QED
      BY <3>1, <3>2
  <2>8. Ids(stack') = Ids(stack) /\ stack'.next_id = stack.next_id
    <3>1. /\ Ids(stack) = {u.id : u \in Contents(stack)}
          /\ Ids(stack') = {u.id : u \in Contents(stack')}
      BY <1>1, StackIds
    <3> QED
      BY <1>5, <2>7, <3>1 DEF Committed
  <2> QED
    BY <1>1, <2>6, <2>8, StutterStep
<1> QED
  BY <1>3, <1>4, <1>5, Committing

LEMMA NextInTables ==
  ASSUME IsFiniteSet(Conn)
  PROVE  Base' /\ TokensBounded' => InTables' /\ GivenOut'
<1>1. Base /\ TokensBounded => InTables /\ GivenOut
  BY BoundedImpliesInTables
<1> QED
  BY <1>1, PTL

\* The handshake opens a session, or brings one that was held back, whole.
LEMMA HelloRefines ==
  ASSUME IsFiniteSet(Conn), Base, Base', Places, Places', TokensUnique, TokensUnique',
         TokensBounded, TokensBounded', HeldFull, DispatchHello
  PROVE  Session!Next
<1>1. /\ cur \in Slots /\ clients[cur].fd # NoConn /\ ~clients[cur].hello
      /\ \A k \in Slots : k # cur => clients'[k] = clients[k]
      /\ Greeted \/ \E o \in Slots : Reclaimed(o)
  BY Greeting
<1>2. PICK k \in Slots : k = cur
  BY <1>1
<1>3. /\ UNCHANGED <<stack, running, pc, cur>> /\ pc = "drain" /\ running
      /\ next_token \in Nat /\ next_token' \in Nat
  BY DEF DispatchHello, Recv, scene, Base, Typed, TableTyped, Pending
<1>4. /\ \A j \in Slots : LiveState(j) = "live" /\ LiveState(j)' = "live"
      /\ \A p \in Slots : HeldState(p) = IF orphans[p].due THEN "due" ELSE "held"
      /\ \A p \in Slots : HeldState(p)' = IF orphans'[p].due THEN "due" ELSE "held"
  BY <1>3 DEF LiveState, HeldState
<1>5. clients[k].token = 0 /\ Used(clients[k].wins) = {}
  BY <1>1, <1>2 DEF TokensUnique
<1>6. UNCHANGED <<Ids(stack), stack.next_id, running>>
  BY <1>3
<1>7. InTables /\ \A t \in Nat \ {0} : t <= next_token' => t \in Token
  BY BoundedImpliesInTables, NextInTables DEF GivenOut
<1>8. CASE Greeted
  <2>1. PICK t : t = next_token + 1
    OBVIOUS
  <2>2. /\ clients'[k].token = t /\ clients'[k].wins = clients[k].wins
        /\ t \in Nat \ {0} /\ t > next_token
    BY <1>2, <1>3, <1>8, <2>1 DEF Greeted
  <2>3. next_token' = t /\ t \in Token
    <3>1. next_token' = next_token \/ next_token' = next_token + 1
      BY DEF DispatchHello
    <3>2. clients'[k].token <= next_token'
      BY DEF Base, Typed, TableTyped
    <3>3. next_token' = t
      BY <1>3, <2>1, <2>2, <3>1, <3>2
    <3> QED
      BY <1>3, <1>7, <2>2, <3>3
  <2>4. \A o \in Slots : \/ orphans'[o] = orphans[o]
                         \/ orphans[o].token = 0 /\ orphans'[o].token = 0
    <3>1. \A o \in Slots : Used(orphans[o].wins) = {} => orphans[o].token = 0
      BY <1>3 DEF HeldFull
    <3>2. NoOrphan.token = 0
      BY DEF NoOrphan
    <3> QED
      BY <1>8, <3>1, <3>2 DEF Greeted
  <2>5. \A j \in Slots : clients[j].token # t /\ orphans[j].token # t
    BY <1>3, <2>2 DEF Base, Typed, TableTyped, ClientRec, OrphanRec
  <2>6. StateOf(t) = "new" /\ WinsOf(t) = {}
    BY <2>2, <2>5 DEF Places
  <2>7. StateOf(t)' = "live" /\ WinsOf(t)' = WinsOf(t)
    <3>1. StateOf(t)' = "live" /\ WinsOf(t)' = IdsOf(clients'[k].wins)
      BY <1>4, <2>2 DEF Places
    <3>2. IdsOf(clients'[k].wins) = {}
      BY <1>5, <2>2 DEF IdsOf, Used
    <3> QED
      BY <2>6, <3>1, <3>2
  <2>8. ASSUME NEW u \in Token \ {t}
        PROVE  StateOf(u)' = StateOf(u) /\ WinsOf(u)' = WinsOf(u)
    <3>1. /\ u \in Nat \ {0}
          /\ \A j \in Slots : clients[j].token = u \/ clients'[j].token = u => j # k
      BY <1>5, <2>2, <2>8, TokensAreNats
    <3>2. u <= next_token' <=> u <= next_token
      BY <1>3, <2>1, <2>3, <2>8, <3>1
    <3>3. \A o \in Slots : orphans[o].token = u \/ orphans'[o].token = u => orphans'[o] = orphans[o]
      BY <2>4, <3>1
    <3>4. \A j \in Slots : clients[j].token = u \/ clients'[j].token = u => clients'[j] = clients[j]
      BY <1>1, <1>2, <3>1
    <3>5. \A o \in Slots : orphans'[o] = orphans[o] => HeldState(o)' = HeldState(o)
      BY <1>4
    <3> QED
      BY <1>3, <1>4, <3>1, <3>2, <3>3, <3>4, <3>5, Undisturbed
  <2>9. \A u \in Token : StateOf(u) = "new" => t <= u
    <3>1. ASSUME NEW u \in Token, u <= next_token
          PROVE  StateOf(u) # "new"
      BY <1>3, <3>1, TokensAreNats DEF StateOf
    <3>2. \A u \in Token : u \in Nat
      BY TokensAreNats
    <3> QED
      BY <1>3, <2>1, <3>1, <3>2
  <2>10. Becomes(t, "live")
    BY <1>6, <2>7, <2>8 DEF Becomes, SameView
  <2> QED
    BY <2>3, <2>6, <2>9, <2>10, OpenStep
<1>9. ASSUME NEW o \in Slots, Reclaimed(o)
      PROVE  Session!Next
  <2>1. PICK t : t = orphans[o].token
    OBVIOUS
  <2>2. /\ t # 0 /\ clients'[k].token = t /\ clients'[k].wins = orphans[o].wins
        /\ orphans'[o] = NoOrphan /\ NoOrphan.token = 0
        /\ \A p \in Slots : p # o => orphans'[p] = orphans[p]
        /\ next_token' = next_token
    BY <1>2, <1>9, <2>1 DEF Reclaimed, NoOrphan
  <2>3. t \in Token /\ t \in Nat \ {0}
    BY <1>7, <2>1, <2>2, TokensAreNats DEF InTables
  <2>4. /\ StateOf(t) \in {"held", "due"} /\ WinsOf(t) = IdsOf(orphans[o].wins)
    BY <1>4, <2>1, <2>3 DEF Places
  <2>5. StateOf(t)' = "live" /\ WinsOf(t)' = WinsOf(t)
    <3>1. StateOf(t)' = "live" /\ WinsOf(t)' = IdsOf(clients'[k].wins)
      BY <1>4, <2>2, <2>3 DEF Places
    <3> QED
      BY <2>2, <2>4, <3>1
  <2>6. ASSUME NEW u \in Token \ {t}
        PROVE  StateOf(u)' = StateOf(u) /\ WinsOf(u)' = WinsOf(u)
    <3>1. /\ u \in Nat \ {0}
          /\ \A j \in Slots : clients[j].token = u \/ clients'[j].token = u => j # k
          /\ \A p \in Slots : orphans[p].token = u \/ orphans'[p].token = u => p # o
      BY <1>5, <2>1, <2>2, <2>6, TokensAreNats
    <3>2. \A p \in Slots : orphans'[p] = orphans[p] => HeldState(p)' = HeldState(p)
      BY <1>4
    <3> QED
      BY <1>1, <1>2, <1>3, <1>4, <2>2, <3>1, <3>2, Undisturbed
  <2>7. Becomes(t, "live")
    BY <1>6, <2>5, <2>6 DEF Becomes, SameView
  <2> QED
    BY <1>3, <2>3, <2>4, <2>7, ReclaimStep
<1> QED
  BY <1>1, <1>8, <1>9


\* A session gains the window its client creates.
LEMMA CreateRefines ==
  ASSUME ZeroWid \notin CreateWids, Base, Base', Places, Places', InTables, TokensUnique,
         on_create_window
  PROVE  [Session!Next]_(Session!vars)
<1>1. /\ cur \in Slots /\ next_token \in Nat /\ focused_server_id' \in Nat
      /\ UNCHANGED <<orphans, next_token, pc, cur, running>> /\ pc = "drain"
      /\ clients[cur].hello /\ Sound(stack) /\ Sound(stack') /\ TableTyped
      /\ stack.next_id \in Nat \ {0}
  BY Receiving DEF on_create_window, Recv, loop, Base, Typed, TableTyped, SceneTyped, Sound, Stack
<1>2. \A j \in Slots : /\ LiveState(j)' = LiveState(j) /\ HeldState(j)' = HeldState(j)
                       /\ LiveState(j) = "live"
  BY <1>1 DEF LiveState, HeldState
<1>3. CASE UNCHANGED <<stack, clients>>
  <2>1. SameView(Token)
    BY <1>1, <1>2, <1>3, SameSlots
  <2> QED
    BY <1>1, <1>3, <2>1, StutterStep
<1>4. CASE Created
  <2>1. PICK k \in Slots, w \in Wid :
          /\ k = cur /\ w = Msg.wid /\ clients[k].wins[w].server_id = 0
          /\ clients' = [clients EXCEPT ![k].wins[w] = [server_id |-> stack.next_id, buf |-> 0]]
    BY <1>1, <1>4 DEF Created
  <2>2. PICK e : e = [server_id |-> stack.next_id, buf |-> 0]
    OBVIOUS
  <2>3. PutClient(k, w, e) /\ e.server_id = stack.next_id
    BY <1>1, <2>1, <2>2 DEF PutClient, Entry
  <2>4. /\ \A j \in Slots : j # k => clients'[j] = clients[j]
        /\ clients'[k].token = clients[k].token /\ clients'[k].wins[w] = e
        /\ \A x \in Wid : x # w => clients'[k].wins[x] = clients[k].wins[x]
    BY <2>3, ClientEntry
  <2>5. PICK t : t = clients[k].token
    OBVIOUS
  <2>6. t \in Token /\ t \in Nat \ {0}
    <3>1. t # 0
      BY <1>1, <2>1, <2>5 DEF TokensUnique
    <3> QED
      BY <2>5, <3>1, TokensAreNats DEF InTables
  <2>7. IdsOf(clients'[k].wins) = IdsOf(clients[k].wins) \cup {stack.next_id}
    <3>1. PICK W, V, id : W = clients[k].wins /\ V = clients'[k].wins /\ id = stack.next_id
      OBVIOUS
    <3>2. /\ W[w].server_id = 0 /\ id # 0 /\ V[w].server_id = id
          /\ \A x \in Wid : x # w => V[x] = W[x]
      BY <1>1, <2>1, <2>3, <2>4, <3>1
    <3>3. IdsOf(V) = IdsOf(W) \cup {id}
      BY <3>2 DEF IdsOf
    <3> QED
      BY <3>1, <3>3
  <2>8. /\ StateOf(t) = "live" /\ StateOf(t)' = "live"
        /\ WinsOf(t) = IdsOf(clients[k].wins) /\ WinsOf(t)' = IdsOf(clients'[k].wins)
    BY <1>2, <2>4, <2>5, <2>6 DEF Places
  <2>9. ASSUME NEW u \in Token \ {t}
        PROVE  StateOf(u)' = StateOf(u) /\ WinsOf(u)' = WinsOf(u)
    <3>1. u \in Nat \ {0} /\ \A j \in Slots : clients[j].token = u \/ clients'[j].token = u => j # k
      BY <2>4, <2>5, <2>9, TokensAreNats
    <3> QED
      BY <1>1, <1>2, <2>4, <3>1, Undisturbed
  <2>10. SameView(Token \ {t})
    BY <2>9 DEF SameView
  <2>11. /\ Ids(stack') = Ids(stack) \cup {stack.next_id}
         /\ stack'.next_id = stack.next_id + 1
    <3>1. /\ Ids(stack) = {u.id : u \in Contents(stack)}
          /\ Ids(stack') = {u.id : u \in Contents(stack')}
      BY <1>1, StackIds
    <3>2. PICK v \in Window : v.id = stack.next_id /\ Contents(stack') = Contents(stack) \cup {v}
      BY <1>4 DEF Created
    <3> QED
      BY <1>4, <3>1, <3>2 DEF Created
  <2>12. WinsOf(t)' = WinsOf(t) \cup {stack.next_id} /\ StateOf(t)' = StateOf(t)
         /\ stack.next_id \in Nat /\ UNCHANGED running
    BY <1>1, <2>7, <2>8
  <2>13. Session!Next
    BY <2>6, <2>8, <2>10, <2>11, <2>12, AddStep
  <2> QED
    BY <2>13
<1> QED
  BY <1>3, <1>4, Creating

----------------------------------------------------------------------------
(* The refinement.                                                         *)

\* What the transport keeps so that each of its steps is one of Sessions, or none.
Refining == Base /\ TokensUnique /\ Owning /\ TokensBounded /\ HeldFull

LEMMA NextRefining ==
  ASSUME IsFiniteSet(Conn)
  PROVE  Refining /\ [Next]_vars => Refining'
BY NextBase, NextTokens, NextOwning, NextBounded, NextHeldFull DEF Refining

LEMMA InitRefining ==
  ASSUME IsFiniteSet(Conn)
  PROVE  Init => Refining
<1> SUFFICES ASSUME Init
             PROVE  Refining
  OBVIOUS
<1>1. Base /\ TokensUnique /\ Owning
  BY InitBase, InitTokens, InitOwning
<1>2. TokensBounded
  <2>1. IsFiniteSet(Welcomed)
    BY FS_Subset DEF Welcomed
  <2> QED
    BY <2>1, FS_CardinalityType DEF Init, TokensBounded
<1>3. HeldFull
  BY DEF Init, HeldFull, NoOrphan
<1> QED
  BY <1>1, <1>2, <1>3 DEF Refining

LEMMA StepRefines ==
  ASSUME IsFiniteSet(Conn), ZeroWid \notin CreateWids, Refining, Refining', [Next]_vars
  PROVE  [Session!Next]_(Session!vars)
<1>1. /\ Base /\ TokensUnique /\ Owning /\ TokensBounded /\ HeldFull
      /\ Base' /\ TokensUnique' /\ TokensBounded'
  BY DEF Refining
<1>2. Places /\ Places' /\ InTables
  BY <1>1, PlacesHold, PlacesNext, BoundedImpliesInTables
<1>3. CASE Still
  BY <1>1, <1>2, <1>3, StillRefines
<1>4. CASE Lose
  BY <1>1, <1>2, <1>4, LoseRefines
<1>5. CASE ReapWindow
  BY <1>1, <1>2, <1>5, ReapWindowRefines
<1>6. CASE ReapDone
  BY <1>1, <1>2, <1>6, ReapDoneRefines
<1>7. ASSUME NEW c \in Conn, Accept(c) \/ client_readable(c)
      PROVE  [Session!Next]_(Session!vars)
  BY <1>1, <1>2, <1>7, AcceptRefines
<1>8. ASSUME NEW o \in Slots, orphan_destroy(o)
      PROVE  [Session!Next]_(Session!vars)
  BY <1>1, <1>2, <1>8, OrphanDestroyRefines
<1>9. CASE DispatchHello
  BY <1>1, <1>2, <1>9, HelloRefines
<1>10. CASE on_create_window
  BY <1>1, <1>2, <1>10, CreateRefines
<1>11. CASE on_commit
  BY <1>1, <1>2, <1>11, CommitRefines
<1>12. CASE on_destroy_window
  BY <1>1, <1>2, <1>12, DestroyRefines
<1> QED
  BY <1>3, <1>4, <1>5, <1>6, <1>7, <1>8, <1>9, <1>10, <1>11, <1>12, Steps

LEMMA InitRefines ==
  ASSUME IsFiniteSet(Conn)
  PROVE  Init => Session!Init
<1> SUFFICES ASSUME Init
             PROVE  Session!Init
  OBVIOUS
<1>1. Refining /\ Places /\ InTables
  BY InitRefining, PlacesHold, BoundedImpliesInTables DEF Refining
<1>2. /\ stack = window_stack_init /\ running /\ next_token = 0 /\ running = TRUE
      /\ \A k \in Slots : clients[k].token = 0 /\ orphans[k].token = 0
  BY DEF Init, NoClient, NoOrphan
<1>3. ASSUME NEW t \in Token
      PROVE  StateOf(t) = "new" /\ WinsOf(t) = {}
  <2>1. t \in Nat \ {0} /\ t > next_token
    BY <1>2, <1>3, TokensAreNats
  <2> QED
    BY <1>1, <1>2, <2>1 DEF Places
<1>4. Ids(stack) = {} /\ stack.next_id - 1 = 0
  BY <1>2 DEF window_stack_init, Ids
<1> QED
  BY <1>2, <1>3, <1>4 DEF Session!Init, Token, WinsOf

\* Whatever clients send, whoever crashes and whenever the server stops, for any
\* number of connections, slots and windows: a session opens once, in the order of
\* the tokens, has its windows for itself, is held whole when its client is lost,
\* comes back whole or ends, never comes back once ended, and the screen shows the
\* windows of those that did not (transport.c, assign_token to transport_destroy).
\* A window created under the client id 0 would be in no session's table.
THEOREM RefinesSessions ==
  ASSUME IsFiniteSet(Conn), ZeroWid \notin CreateWids
  PROVE  Spec => ImplementsSessions
<1>1. Refining /\ Refining' /\ [Next]_vars => [Session!Next]_(Session!vars)
  BY StepRefines
<1>2. Refining /\ [Next]_vars => Refining'
  BY NextRefining
<1>3. Init => Refining /\ Session!Init
  BY InitRefining, InitRefines
<1> QED
  BY <1>1, <1>2, <1>3, PTL DEF Spec, ImplementsSessions, Session!Spec
=============================================================================
