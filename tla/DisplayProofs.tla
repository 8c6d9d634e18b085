--------------------------- MODULE DisplayProofs ---------------------------
(***************************************************************************)
(* Proofs that Display's safety properties hold for every set of modes and *)
(* every way of failing to allocate a framebuffer.  ShowsLatest speaks of  *)
(* the moment the loop goes to sleep; Inv says what holds on the way there.*)
(***************************************************************************)
EXTENDS Display, TLAPS

\* seatd and the seat flag: a VT that is theirs is one the server gave up.
SeatInv ==
  /\ vt = "theirs" => ~active
  /\ enabling => vt # "theirs"
  /\ pc = "seat" => vt # "theirs"
  /\ pc \in {"idle", "draw", "poll"} => (master <=> active)

\* The CRTC shows the last frame unless a modeset is due.
CrtcInv ==
  BothMapped /\ master /\ ~need_modeset =>
    /\ crtc.plane = Plane(front) /\ crtc.mode = mode
    /\ crtc.lit \/ blanked \/ replugged

\* What the dirty flag stands for.
DirtyInv ==
  /\ need_modeset => dirty
  /\ BothMapped /\ ~dirty => current
  /\ pc = "poll" /\ master /\ ~blanked => ~dirty
  /\ replugged => pc = "udev"

\* The framebuffer to draw into is not on screen, wherever the loop is.
BackInv == BothMapped => crtc.plane # Plane(back)

Inv == TypeOK /\ SeatInv /\ SizesAgree /\ CrtcInv /\ DirtyInv /\ BackInv

\* Switching the CRTC off keeps its type.
LEMMA DarkType ==
  ASSUME NEW c \in Crtc
  PROVE  [lit |-> FALSE, mode |-> c.mode, plane |-> c.plane] \in Crtc
  BY DEF Crtc

\* Removing a framebuffer keeps the CRTC's type.
LEMMA RmFBType ==
  ASSUME NEW c \in Crtc, NEW i
  PROVE  RmFB(c, i) \in Crtc
  BY DEF Crtc, RmFB

\* Init establishes the invariant.
LEMMA InitKeeps == Init => Inv
  <1> SUFFICES ASSUME Init PROVE Inv
    OBVIOUS
  <1> USE ModesAssumption DEF Init, Idle
  <1>1. FlagsOK
    BY Zenon DEF FlagsOK
  <1>2. TypeOK
    BY <1>1 DEF TypeOK, Crtc
  <1>3. SeatInv /\ SizesAgree /\ CrtcInv /\ DirtyInv
    BY DEF SeatInv, SizesAgree, CrtcInv, DirtyInv, BothMapped
  <1>4. BackInv
    BY DEF BackInv, Plane, back
  <1> QED BY <1>2, <1>3, <1>4 DEF Inv

\* What seatd, the other session, the connector, the clock and a caller do.
LEMMA OutsideKeeps == Inv /\ (SwitchAway \/ SwitchBack \/ OtherSession \/ Replug \/ IdleElapses
                             \/ CallerConnect \/ CallerSend) => Inv'
  <1> USE ModesAssumption DEF Inv, TypeOK, FlagsOK, Crtc, SeatInv, SizesAgree, CrtcInv, DirtyInv,
          BackInv, BothMapped, Plane, back, vars, flags, buffers, outside
  <1>1. Inv /\ SwitchAway => Inv'
    BY DEF SwitchAway
  <1>2. Inv /\ SwitchBack => Inv'
    BY DEF SwitchBack
  <1>3. Inv /\ OtherSession => Inv'
    BY DEF OtherSession
  <1>4. Inv /\ Replug => Inv'
    BY DEF Replug
  <1>5. Inv /\ IdleElapses => Inv'
    BY DEF IdleElapses
  <1>6. Inv /\ CallerConnect => Inv'
    BY DEF CallerConnect
  <1>7. Inv /\ CallerSend => Inv'
    BY DEF CallerSend
  <1> QED BY <1>1, <1>2, <1>3, <1>4, <1>5, <1>6, <1>7

\* Steps of the loop that change nothing but where it is, or the caller.
LEMMA QuietKeeps == Inv /\ (SkipFrame \/ FrameCrash \/ Poll \/ NoCall \/ HangUp \/ AnswerOnly
                           \/ Ended) => Inv'
  <1> USE ModesAssumption DEF Inv, TypeOK, FlagsOK, Crtc, SeatInv, SizesAgree, CrtcInv, DirtyInv,
          BackInv, BothMapped, Plane, back, vars, flags, buffers, outside
  <1>1. Inv /\ SkipFrame => Inv'
    BY DEF SkipFrame, Draws
  <1>2. Inv /\ FrameCrash => Inv'
    BY DEF FrameCrash
  <1>3. Inv /\ Poll => Inv'
    BY DEF Poll
  <1>4. Inv /\ NoCall => Inv'
    BY DEF NoCall
  <1>5. Inv /\ HangUp => Inv'
    BY DEF HangUp
  <1>6. Inv /\ AnswerOnly => Inv'
    BY DEF AnswerOnly, Answer, Idle
  <1>7. Inv /\ Ended => Inv'
    BY DEF Ended
  <1> QED BY <1>1, <1>2, <1>3, <1>4, <1>5, <1>6, <1>7

\* A signal.
LEMMA on_sigintKeeps == Inv /\ on_sigint => Inv'
  <1> SUFFICES ASSUME Inv, on_sigint PROVE Inv'
    OBVIOUS
  <1> USE ModesAssumption, FaultsAssumption DEF Inv, on_sigint,
          TypeOK, flags, buffers, outside
  <1>1. FlagsOK'
    BY Zenon DEF FlagsOK
  <1>2. TypeOK'
    BY <1>1 DEF Crtc
  <1>3. SeatInv'
    BY DEF SeatInv, FlagsOK, Crtc
  <1>4. SizesAgree'
    BY DEF SizesAgree, BothMapped, FlagsOK, Crtc
  <1>5. CrtcInv'
    BY DEF CrtcInv, SizesAgree, SeatInv, DirtyInv, BothMapped, Plane, FlagsOK, Crtc
  <1>6. DirtyInv'
    BY DEF DirtyInv, BothMapped, CrtcInv, FlagsOK, Crtc
  <1>7. BackInv'
    BY DEF BackInv, SizesAgree, CrtcInv, SeatInv, BothMapped, Plane, back, FlagsOK, Crtc
  <1> QED BY <1>2, <1>3, <1>4, <1>5, <1>6, <1>7 DEF Inv

\* Taking or dropping master, and waking up, ask for the modeset they need.
LEMMA LoopHeadKeeps == Inv /\ LoopHead => Inv'
  <1> SUFFICES ASSUME Inv, LoopHead PROVE Inv'
    OBVIOUS
  <1> USE ModesAssumption, FaultsAssumption DEF Inv, LoopHead,
          TypeOK, flags, buffers, outside, Acquires, Wakes
  <1>1. FlagsOK'
    BY Zenon DEF FlagsOK
  <1>2. TypeOK'
    BY <1>1 DEF Crtc
  <1>3. SeatInv'
    BY DEF SeatInv, FlagsOK, Crtc
  <1>4. SizesAgree'
    BY DEF SizesAgree, BothMapped, FlagsOK, Crtc
  <1>5. CrtcInv'
    BY DEF CrtcInv, SizesAgree, SeatInv, DirtyInv, BothMapped, Plane, FlagsOK, Crtc
  <1>6. DirtyInv'
    BY DEF DirtyInv, BothMapped, CrtcInv, FlagsOK, Crtc
  <1>7. BackInv'
    BY DEF BackInv, SizesAgree, CrtcInv, SeatInv, BothMapped, Plane, back, FlagsOK, Crtc
  <1> QED BY <1>2, <1>3, <1>4, <1>5, <1>6, <1>7 DEF Inv

\* After the loop no framebuffer is mapped.
LEMMA ShutdownKeeps == Inv /\ Shutdown => Inv'
  <1> SUFFICES ASSUME Inv, Shutdown PROVE Inv'
    OBVIOUS
  <1> USE ModesAssumption, FaultsAssumption DEF Inv, Shutdown,
          TypeOK, flags, buffers, outside, RmFB, Plane
  <1>1. FlagsOK'
    BY Zenon DEF FlagsOK
  <1>2. TypeOK'
    BY <1>1 DEF Crtc
  <1>3. SeatInv'
    BY DEF SeatInv, FlagsOK, Crtc
  <1>4. SizesAgree'
    BY DEF SizesAgree, BothMapped, FlagsOK, Crtc
  <1>5. CrtcInv'
    BY DEF CrtcInv, SizesAgree, SeatInv, DirtyInv, BothMapped, Plane, FlagsOK, Crtc
  <1>6. DirtyInv'
    BY DEF DirtyInv, BothMapped, CrtcInv, FlagsOK, Crtc
  <1>7. BackInv'
    BY DEF BackInv, SizesAgree, CrtcInv, SeatInv, BothMapped, Plane, back, FlagsOK, Crtc
  <1> QED BY <1>2, <1>3, <1>4, <1>5, <1>6, <1>7 DEF Inv

\* Blanking leaves the frame bound.
LEMMA BlankKeeps == Inv /\ Blank => Inv'
  <1> SUFFICES ASSUME Inv, Blank PROVE Inv'
    OBVIOUS
  <1> USE ModesAssumption, FaultsAssumption DEF Inv, Blank,
          TypeOK, flags, buffers, outside
  <1>1. FlagsOK'
    BY Zenon DEF FlagsOK
  <1>2. crtc' \in Crtc
    BY DarkType
  <1>3. TypeOK'
    BY <1>1, <1>2
  <1>4. SeatInv'
    BY DEF SeatInv, FlagsOK, Crtc
  <1>5. SizesAgree'
    BY DEF SizesAgree, BothMapped, FlagsOK, Crtc
  <1>6. CrtcInv'
    BY DEF CrtcInv, SizesAgree, SeatInv, DirtyInv, BothMapped, Plane, FlagsOK, Crtc
  <1>7. DirtyInv'
    BY DEF DirtyInv, BothMapped, CrtcInv, FlagsOK, Crtc
  <1>8. BackInv'
    BY DEF BackInv, SizesAgree, CrtcInv, SeatInv, BothMapped, Plane, back, FlagsOK, Crtc
  <1> QED BY <1>3, <1>4, <1>5, <1>6, <1>7, <1>8 DEF Inv

\* Holding master the commit is accepted, so the flip of front matches the CRTC.
LEMMA FrameKeeps == Inv /\ Frame => Inv'
  <1> SUFFICES ASSUME Inv, Frame PROVE Inv'
    OBVIOUS
  <1> USE ModesAssumption, FaultsAssumption DEF Inv, Frame,
          TypeOK, flags, buffers, outside, Draws, Accepts, back, Plane
  <1>1. FlagsOK'
    BY Zenon DEF FlagsOK
  <1>2. TypeOK'
    BY <1>1 DEF Crtc
  <1>3. SeatInv'
    BY DEF SeatInv, FlagsOK, Crtc
  <1>4. SizesAgree'
    BY DEF SizesAgree, BothMapped, FlagsOK, Crtc
  <1>5. CrtcInv'
    BY DEF CrtcInv, SizesAgree, SeatInv, DirtyInv, BothMapped, Plane, FlagsOK, Crtc
  <1>6. DirtyInv'
    BY DEF DirtyInv, BothMapped, CrtcInv, FlagsOK, Crtc
  <1>7. BackInv'
    BY DEF BackInv, SizesAgree, CrtcInv, SeatInv, BothMapped, Plane, back, FlagsOK, Crtc
  <1> QED BY <1>2, <1>3, <1>4, <1>5, <1>6, <1>7 DEF Inv

\* The VT is handed over only with the seat flag down.
LEMMA seat_dispatchKeeps == Inv /\ seat_dispatch => Inv'
  <1> SUFFICES ASSUME Inv, seat_dispatch PROVE Inv'
    OBVIOUS
  <1> USE ModesAssumption, FaultsAssumption DEF Inv, seat_dispatch,
          TypeOK, flags, buffers, outside, Acknowledged
  <1>1. FlagsOK'
    BY Zenon DEF FlagsOK
  <1>2. TypeOK'
    BY <1>1 DEF Crtc
  <1>3. SeatInv'
    BY DEF SeatInv, FlagsOK, Crtc
  <1>4. SizesAgree'
    BY DEF SizesAgree, BothMapped, FlagsOK, Crtc
  <1>5. CrtcInv'
    BY DEF CrtcInv, SizesAgree, SeatInv, DirtyInv, BothMapped, Plane, FlagsOK, Crtc
  <1>6. DirtyInv'
    BY DEF DirtyInv, BothMapped, CrtcInv, FlagsOK, Crtc
  <1>7. BackInv'
    BY DEF BackInv, SizesAgree, CrtcInv, SeatInv, BothMapped, Plane, back, FlagsOK, Crtc
  <1> QED BY <1>2, <1>3, <1>4, <1>5, <1>6, <1>7 DEF Inv

\* Whatever changes the scene sets dirty.
LEMMA on_inputKeeps == Inv /\ on_input => Inv'
  <1> SUFFICES ASSUME Inv, on_input PROVE Inv'
    OBVIOUS
  <1> USE ModesAssumption, FaultsAssumption DEF Inv, on_input,
          TypeOK, flags, buffers, outside
  <1>1. FlagsOK'
    BY Zenon DEF FlagsOK
  <1>2. TypeOK'
    BY <1>1 DEF Crtc
  <1>3. SeatInv'
    BY DEF SeatInv, FlagsOK, Crtc
  <1>4. SizesAgree'
    BY DEF SizesAgree, BothMapped, FlagsOK, Crtc
  <1>5. CrtcInv'
    BY DEF CrtcInv, SizesAgree, SeatInv, DirtyInv, BothMapped, Plane, FlagsOK, Crtc
  <1>6. DirtyInv'
    BY DEF DirtyInv, BothMapped, CrtcInv, FlagsOK, Crtc
  <1>7. BackInv'
    BY DEF BackInv, SizesAgree, CrtcInv, SeatInv, BothMapped, Plane, back, FlagsOK, Crtc
  <1> QED BY <1>2, <1>3, <1>4, <1>5, <1>6, <1>7 DEF Inv

\* So do the clients.
LEMMA ClientsKeeps == Inv /\ Clients => Inv'
  <1> SUFFICES ASSUME Inv, Clients PROVE Inv'
    OBVIOUS
  <1> USE ModesAssumption, FaultsAssumption DEF Inv, Clients,
          TypeOK, flags, buffers, outside
  <1>1. FlagsOK'
    BY Zenon DEF FlagsOK
  <1>2. TypeOK'
    BY <1>1 DEF Crtc
  <1>3. SeatInv'
    BY DEF SeatInv, FlagsOK, Crtc
  <1>4. SizesAgree'
    BY DEF SizesAgree, BothMapped, FlagsOK, Crtc
  <1>5. CrtcInv'
    BY DEF CrtcInv, SizesAgree, SeatInv, DirtyInv, BothMapped, Plane, FlagsOK, Crtc
  <1>6. DirtyInv'
    BY DEF DirtyInv, BothMapped, CrtcInv, FlagsOK, Crtc
  <1>7. BackInv'
    BY DEF BackInv, SizesAgree, CrtcInv, SeatInv, BothMapped, Plane, back, FlagsOK, Crtc
  <1> QED BY <1>2, <1>3, <1>4, <1>5, <1>6, <1>7 DEF Inv

\* A resolution change replaces everything or leaves a framebuffer unmapped.
LEMMA apply_mode_cbKeeps == Inv /\ apply_mode_cb => Inv'
  <1> SUFFICES ASSUME Inv, apply_mode_cb PROVE Inv'
    OBVIOUS
  <1> USE ModesAssumption, FaultsAssumption DEF Inv, apply_mode_cb,
          TypeOK, flags, buffers, outside, Answer, Idle, kms_set_mode_wh,
          ModeApplied, ModeHalfApplied, dumb_fb_create
  <1>1. FlagsOK'
    BY Zenon DEF FlagsOK
  <1>2. fb' \in [0..1 -> [size : Modes \cup {NoSize}, map : {"mapped", "failed", "none"}]]
    OBVIOUS
  <1>3. crtc' \in Crtc
    BY RmFBType
  <1>4. mode' \in Modes /\ screen' \in Modes
    OBVIOUS
  <1>5. call' \in [state : {"none", "connected", "sent", "hungup"}, want : Modes \cup {Unlisted}]
    OBVIOUS
  <1>6. TypeOK'
    BY <1>1, <1>2, <1>3, <1>4, <1>5
  <1>7. SeatInv'
    BY DEF SeatInv, FlagsOK, Crtc
  <1>8. SizesAgree'
    BY DEF SizesAgree, BothMapped, FlagsOK, Crtc
  <1>9. CrtcInv'
    BY DEF CrtcInv, SizesAgree, SeatInv, DirtyInv, BothMapped, Plane, FlagsOK, Crtc
  <1>10. DirtyInv'
    BY DEF DirtyInv, BothMapped, CrtcInv, FlagsOK, Crtc
  <1>11. BackInv'
    BY DEF BackInv, SizesAgree, CrtcInv, SeatInv, BothMapped, Plane, back, RmFB, FlagsOK, Crtc
  <1> QED BY <1>6, <1>7, <1>8, <1>9, <1>10, <1>11 DEF Inv

\* A hotplug event turns into a modeset.
LEMMA HotplugKeeps == Inv /\ Hotplug => Inv'
  <1> SUFFICES ASSUME Inv, Hotplug PROVE Inv'
    OBVIOUS
  <1> USE ModesAssumption, FaultsAssumption DEF Inv, Hotplug,
          TypeOK, flags, buffers, outside
  <1>1. FlagsOK'
    BY Zenon DEF FlagsOK
  <1>2. TypeOK'
    BY <1>1 DEF Crtc
  <1>3. SeatInv'
    BY DEF SeatInv, FlagsOK, Crtc
  <1>4. SizesAgree'
    BY DEF SizesAgree, BothMapped, FlagsOK, Crtc
  <1>5. CrtcInv'
    BY DEF CrtcInv, SizesAgree, SeatInv, DirtyInv, BothMapped, Plane, FlagsOK, Crtc
  <1>6. DirtyInv'
    BY DEF DirtyInv, BothMapped, CrtcInv, FlagsOK, Crtc
  <1>7. BackInv'
    BY DEF BackInv, SizesAgree, CrtcInv, SeatInv, BothMapped, Plane, back, FlagsOK, Crtc
  <1> QED BY <1>2, <1>3, <1>4, <1>5, <1>6, <1>7 DEF Inv

\* Every step keeps the invariant.
LEMMA NextKeeps == Inv /\ [Next]_vars => Inv'
  <1>1. Inv /\ UNCHANGED vars => Inv'
    BY DEF vars, flags, buffers, outside, Inv, TypeOK, FlagsOK, Crtc, SeatInv, SizesAgree, CrtcInv,
           DirtyInv, BackInv, BothMapped, Plane, back
  <1>2. Inv /\ Environment => Inv'
    BY OutsideKeeps, on_sigintKeeps DEF Environment
  <1>3. Inv /\ ServerStep => Inv'
    BY QuietKeeps, LoopHeadKeeps, ShutdownKeeps, BlankKeeps, FrameKeeps, seat_dispatchKeeps,
       on_inputKeeps, ClientsKeeps, apply_mode_cbKeeps, HotplugKeeps DEF ServerStep
  <1> QED BY <1>1, <1>2, <1>3, QuietKeeps DEF Next

LEMMA AlwaysInv == Spec => []Inv
  BY InitKeeps, NextKeeps, PTL DEF Spec

\* Every variable keeps its type.
THEOREM TypeCorrect == Spec => []TypeOK
  <1>1. Inv => TypeOK
    BY DEF Inv
  <1> QED BY <1>1, AlwaysInv, PTL

\* server_run never commits after it handed the VT over.
THEOREM NeverCommitsAway == Spec => []NoCommitWhenAway
  <1>1. Inv => NoCommitWhenAway
    BY DEF Inv, SeatInv, NoCommitWhenAway
  <1> QED BY <1>1, AlwaysInv, PTL

\* Mode, framebuffers and virtual screen agree (apply_mode_cb).
THEOREM SizesAlwaysAgree == Spec => []SizesAgree
  <1>1. Inv => SizesAgree
    BY DEF Inv
  <1> QED BY <1>1, AlwaysInv, PTL

\* composite never draws into the framebuffer on screen.
THEOREM DoubleBuffered == Spec => []NeverDrawsOnScreen
  <1>1. Inv => NeverDrawsOnScreen
    BY DEF Inv, BackInv, NeverDrawsOnScreen
  <1> QED BY <1>1, AlwaysInv, PTL

\* Whenever the loop sleeps with the seat held and the panel on, the latest scene
\* is on screen in the server's mode.
THEOREM AlwaysShowsLatest == Spec => []ShowsLatest
  <1>1. Inv => ShowsLatest
    BY DEF Inv, TypeOK, FlagsOK, CrtcInv, DirtyInv, ShowsLatest
  <1> QED BY <1>1, AlwaysInv, PTL
============================================================================
