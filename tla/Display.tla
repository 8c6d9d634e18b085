------------------------------ MODULE Display ------------------------------
(***************************************************************************)
(* The display half of server_run (src/src/server.c): the seat and DRM     *)
(* master, idle blanking, the two framebuffers and their atomic commits,   *)
(* resolution changes asked over the control socket (src/src/control.c)    *)
(* and hotplug.  seatd, the kernel's CRTC, the user and one control-panel  *)
(* caller run concurrently with every step of the loop.                    *)
(*                                                                         *)
(* What is drawn is abstracted to whether the last frame still shows the   *)
(* scene as it is; a mode is its size.                                     *)
(***************************************************************************)
EXTENDS Naturals

CONSTANTS Modes,      \* sizes of the connector's usable modes
          Covers,     \* pairs of them, the first at least as wide and as high
          Unlisted,   \* a size the connector does not offer
          NoSize,     \* the size of what is not there
          Faults      \* how dumb_fb_create may fail: "nobuf", "nomap"

ASSUME ModesAssumption == Modes # {} /\ Unlisted \notin Modes /\ NoSize \notin Modes
ASSUME CoversAssumption == Covers \subseteq Modes \X Modes
ASSUME FaultsAssumption == Faults \subseteq {"nobuf", "nomap"}

VARIABLES active,        \* seat->active
          master,        \* server_run thinks it holds DRM master
          need_modeset,  \* the next commit is a full modeset
          dirty,         \* the scene changed since the last frame
          activity,      \* input since the loop head
          blanked,       \* the panel was switched off
          idle,          \* idle_ms passed since last_activity
          front,         \* index of the last framebuffer committed
          mode,          \* k.mode
          screen,        \* wm.screen_w, screen_h
          fb,            \* the two dumb framebuffers
          current,       \* fb[front] holds the scene as it is now
          running,       \* cleared by Esc or a signal
          pc             \* where server_run is
VARIABLES vt,            \* seatd: who has the VT, or that it was asked back
          enabling,      \* seatd: an enable event is not yet read
          crtc,          \* kernel: is the CRTC on, in which mode, showing what
          replugged,     \* udev: a HOTPLUG event is not yet read
          call           \* a control-panel caller

flags   == <<need_modeset, dirty, activity, blanked>>
buffers == <<front, fb, current, mode, screen>>
outside == <<vt, enabling, replugged>>
vars    == <<active, master, flags, idle, buffers, running, pc, outside, crtc, call>>

\* A caller not in the middle of a request.
Idle == [state |-> "none", want |-> Unlisted]

\* server_run up to its loop: the seat is active, nothing is committed yet.
Init ==
  /\ active = TRUE /\ master = FALSE
  /\ need_modeset = FALSE /\ dirty = TRUE /\ activity = FALSE /\ blanked = FALSE
  /\ idle = FALSE
  /\ front = 0
  /\ mode \in Modes
  /\ screen = mode
  /\ fb = [i \in 0..1 |-> [size |-> mode, map |-> "mapped"]]
  /\ current = FALSE
  /\ running = TRUE /\ pc = "head"
  /\ vt = "ours" /\ enabling = FALSE /\ replugged = FALSE
  /\ crtc = [lit |-> TRUE, mode |-> mode, plane |-> "console"]
  /\ call = Idle

----------------------------------------------------------------------------
(* The kernel, seatd and the others outside, as the server uses them.  They *)
(* run at any moment; a step of theirs is taken where the loop next reads   *)
(* what it changes, which the loop's steps in between do not touch.         *)

Plane(i) == IF i = 0 THEN "fb0" ELSE "fb1"

\* drmModeRmFB switches off whatever shows the framebuffer.
RmFB(c, i) == IF c.plane = Plane(i) THEN [lit |-> FALSE, mode |-> NoSize, plane |-> "none"] ELSE c

\* Does drmModeAtomicCommit accept framebuffer i?  A flip needs a plane that is
\* already bound, a modeset a framebuffer that covers the mode.
Accepts(i) ==
  /\ vt # "theirs"
  /\ fb[i].map = "mapped"
  /\ need_modeset => fb[i].size = mode \/ <<fb[i].size, mode>> \in Covers
  /\ ~need_modeset => crtc.plane # "none"

\* The user leaves; seatd waits for the acknowledgement before it hands over.
SwitchAway ==
  /\ pc \in {"poll", "seat"} /\ vt = "ours"
  /\ vt' = "asked"
  /\ UNCHANGED <<active, master, flags, idle, buffers, running, pc, enabling, replugged, crtc, call>>

SwitchBack ==
  /\ pc = "poll" /\ vt = "theirs"
  /\ vt' = "ours" /\ enabling' = TRUE
  /\ UNCHANGED <<active, master, flags, idle, buffers, running, pc, replugged, crtc, call>>

\* The other session lights the CRTC its own way.
OtherSession ==
  /\ pc = "poll" /\ vt = "theirs"
  /\ \E m \in Modes : crtc' = [lit |-> TRUE, mode |-> m, plane |-> "other"]
  /\ UNCHANGED <<active, master, flags, idle, buffers, running, pc, outside, call>>

\* A cable is pulled and put back: the link stays dark until the next modeset.
Replug ==
  /\ pc = "udev" /\ ~replugged
  /\ replugged' = TRUE
  /\ crtc' = [lit |-> FALSE, mode |-> crtc.mode, plane |-> crtc.plane]
  /\ UNCHANGED <<active, master, flags, idle, buffers, running, pc, vt, enabling, call>>

\* The clock is read once, at the loop head, for the reset and for the test.
IdleElapses ==
  /\ pc = "head" /\ ~idle
  /\ idle' = TRUE
  /\ UNCHANGED <<active, master, flags, buffers, running, pc, outside, crtc, call>>

on_sigint ==
  /\ pc = "head" /\ running
  /\ running' = FALSE
  /\ UNCHANGED <<active, master, flags, idle, buffers, pc, outside, crtc, call>>

\* A caller connects, then sends its request: two system calls.
CallerConnect ==
  /\ pc = "control" /\ call.state \in {"none", "hungup"}
  /\ call' = [state |-> "connected", want |-> Unlisted]
  /\ UNCHANGED <<active, master, flags, idle, buffers, running, pc, outside, crtc>>

CallerSend ==
  /\ pc = "control" /\ call.state = "connected"
  /\ \E m \in Modes \cup {Unlisted} : call' = [state |-> "sent", want |-> m]
  /\ UNCHANGED <<active, master, flags, idle, buffers, running, pc, outside, crtc>>

----------------------------------------------------------------------------
(* The loop head: master, idle blanking, a frame.                          *)

\* Fault: master is taken without asking for a modeset.
Acquires_NoModeset == FALSE

Acquires == active /\ ~master

\* Fault: waking does not re-enable the CRTC.
Wakes_Quietly == FALSE

Wakes == activity /\ blanked

\* Fault: DRM master is kept when the seat is gone.
LoopHead_KeepMaster ==
  /\ pc = "head" /\ running
  /\ pc' = "idle"
  /\ master' = (master \/ active)
  /\ need_modeset' = (need_modeset \/ Acquires \/ Wakes)
  /\ dirty' = (dirty \/ Acquires \/ Wakes)
  /\ blanked' = (blanked /\ ~activity)
  /\ activity' = FALSE
  /\ idle' = (idle /\ ~activity)
  /\ UNCHANGED <<active, buffers, running, outside, crtc, call>>

LoopHead ==
  /\ pc = "head" /\ running
  /\ pc' = "idle"
  /\ master' = active
  /\ need_modeset' = (need_modeset \/ Acquires \/ Wakes)
  /\ dirty' = (dirty \/ Acquires \/ Wakes)
  /\ blanked' = (blanked /\ ~activity)
  /\ activity' = FALSE
  /\ idle' = (idle /\ ~activity)
  /\ UNCHANGED <<active, buffers, running, outside, crtc, call>>

\* After the loop: drop master, destroy the framebuffers.
Shutdown ==
  /\ pc = "head" /\ ~running
  /\ pc' = "exit"
  /\ master' = FALSE
  /\ fb' = [i \in 0..1 |-> [size |-> NoSize, map |-> "none"]]
  /\ crtc' = RmFB(RmFB(crtc, 0), 1)
  /\ UNCHANGED <<active, flags, idle, front, current, mode, screen, running, outside, call>>

\* An ACTIVE=0 commit; the panel counts as blanked only when it succeeds.
Blank ==
  /\ pc = "idle"
  /\ pc' = "draw"
  /\ \/ /\ master /\ ~blanked /\ idle /\ vt # "theirs"
        /\ blanked' = TRUE
        /\ crtc' = [lit |-> FALSE, mode |-> crtc.mode, plane |-> crtc.plane]
     \/ /\ ~(master /\ ~blanked /\ idle /\ vt # "theirs")
        /\ UNCHANGED <<blanked, crtc>>
  /\ UNCHANGED <<active, master, need_modeset, dirty, activity, idle, buffers, running,
                 outside, call>>

Draws == master /\ dirty /\ ~blanked

SkipFrame ==
  /\ pc = "draw" /\ ~Draws
  /\ pc' = "poll"
  /\ UNCHANGED <<active, master, flags, idle, buffers, running, outside, crtc, call>>

\* Fault: the frame on screen is drawn over.
back_Front == front

back == 1 - front

\* The result of the commit is only logged.
Frame ==
  /\ pc = "draw" /\ Draws /\ fb[back].map # "failed"
  /\ pc' = "poll"
  /\ current' = (fb[back].map = "mapped")
  /\ crtc' = IF ~Accepts(back) THEN crtc
             ELSE IF need_modeset THEN [lit |-> TRUE, mode |-> mode, plane |-> Plane(back)]
             ELSE [lit |-> crtc.lit, mode |-> crtc.mode, plane |-> Plane(back)]
  /\ front' = back
  /\ need_modeset' = FALSE /\ dirty' = FALSE
  /\ UNCHANGED <<active, master, activity, blanked, idle, fb, mode, screen, running, outside,
                 call>>

\* composite writes through MAP_FAILED, which a failed CREATE_DUMB left behind
\* with a size.
FrameCrash ==
  /\ pc = "draw" /\ Draws /\ fb[back].map = "failed"
  /\ pc' = "crashed"
  /\ UNCHANGED <<active, master, flags, idle, buffers, running, outside, crtc, call>>

----------------------------------------------------------------------------
(* poll (a second at most) and the handlers, in their order.               *)

Poll ==
  /\ pc = "poll"
  /\ pc' = IF enabling \/ vt = "asked" THEN "seat" ELSE "input"
  /\ UNCHANGED <<active, master, flags, idle, buffers, running, outside, crtc, call>>

\* Fault: the disable event is not acknowledged.
Acknowledged_Never == vt

Acknowledged == IF vt = "asked" THEN "theirs" ELSE vt

\* on_enable, on_disable: a disable is always the last event queued.
seat_dispatch ==
  /\ pc = "seat"
  /\ pc' = "input"
  /\ active' = (vt # "asked")
  /\ vt' = Acknowledged
  /\ enabling' = FALSE
  /\ UNCHANGED <<master, flags, idle, buffers, running, replugged, crtc, call>>

\* input_dispatch and on_input: motion, buttons and Alt-Tab change the scene, a
\* forwarded key or the terminal shortcut does not, Esc ends the loop.
on_input ==
  /\ pc = "input"
  /\ pc' = "clients"
  /\ \/ /\ master /\ \E kind \in {"motion", "key", "escape"} :
             /\ activity' = TRUE
             /\ dirty' = (dirty \/ kind = "motion")
             /\ current' = (current /\ kind # "motion")
             /\ running' = (running /\ kind # "escape")
     \/ UNCHANGED <<activity, dirty, current, running>>
  /\ UNCHANGED <<active, master, need_modeset, blanked, idle, front, fb, mode, screen,
                 outside, crtc, call>>

\* transport_process and wl_frontend_dispatch: clients change the scene or not.
Clients ==
  /\ pc = "clients"
  /\ pc' = "control"
  /\ \/ dirty' = TRUE /\ current' = FALSE
     \/ UNCHANGED <<dirty, current>>
  /\ UNCHANGED <<active, master, need_modeset, activity, blanked, idle, front, fb, mode,
                 screen, running, outside, crtc, call>>

NoCall ==
  /\ pc = "control" /\ call.state \notin {"connected", "sent"}
  /\ pc' = "udev"
  /\ UNCHANGED <<active, master, flags, idle, buffers, running, outside, crtc, call>>

\* recv finds no request yet: the connection is closed without an answer.
HangUp ==
  /\ pc = "control" /\ call.state = "connected"
  /\ pc' = "udev"
  /\ call' = [state |-> "hungup", want |-> Unlisted]
  /\ UNCHANGED <<active, master, flags, idle, buffers, running, outside, crtc>>

Answer == /\ pc = "control" /\ call.state = "sent"
          /\ pc' = "udev"
          /\ call' = Idle

\* Fault: any size asked for counts as found.
kms_set_mode_wh_Any == TRUE

\* Does the connector have a mode of the size asked for?
kms_set_mode_wh == call.want \in Modes

\* GLCTL_GET_OUTPUTS, a size not found or a mode blob the kernel refuses.
AnswerOnly ==
  /\ Answer
  /\ UNCHANGED <<active, master, flags, idle, buffers, running, outside, crtc>>

\* What dumb_fb_create leaves in *fb; the size of one not mapped is never used, for
\* to draw into it faults or does nothing.
dumb_fb_create(m, result) ==
  [size |-> IF result = "ok" THEN m ELSE NoSize,
   map |-> IF result = "ok" THEN "mapped" ELSE IF result = "nobuf" THEN "failed" ELSE "none"]

\* apply_mode_cb when an allocation fails: the mode is switched, the screen is not.
ModeHalfApplied(m) ==
  /\ mode' = m
  /\ \/ \E r \in Faults :
          /\ fb' = [i \in 0..1 |-> IF i = 0 THEN dumb_fb_create(m, r) ELSE fb[1]]
          /\ crtc' = RmFB(crtc, 0)
     \/ \E r \in Faults :
          /\ fb' = [i \in 0..1 |-> dumb_fb_create(m, IF i = 0 THEN "ok" ELSE r)]
          /\ crtc' = RmFB(RmFB(crtc, 0), 1)
  /\ UNCHANGED <<need_modeset, dirty, screen>>

\* Fault: the virtual screen keeps its size.
ModeApplied_NoScreen(m) ==
  /\ mode' = m
  /\ fb' = [i \in 0..1 |-> dumb_fb_create(m, "ok")]
  /\ crtc' = RmFB(RmFB(crtc, 0), 1)
  /\ need_modeset' = TRUE /\ dirty' = TRUE
  /\ UNCHANGED screen

ModeApplied(m) ==
  /\ mode' = m
  /\ fb' = [i \in 0..1 |-> dumb_fb_create(m, "ok")]
  /\ crtc' = RmFB(RmFB(crtc, 0), 1)
  /\ need_modeset' = TRUE /\ dirty' = TRUE
  /\ screen' = m

apply_mode_cb ==
  /\ Answer
  /\ kms_set_mode_wh
  /\ ModeApplied(call.want) \/ ModeHalfApplied(call.want)
  /\ current' = FALSE
  /\ UNCHANGED <<active, master, activity, blanked, idle, front, running, outside>>

Hotplug ==
  /\ pc = "udev"
  /\ pc' = "head"
  /\ need_modeset' = (need_modeset \/ replugged)
  /\ dirty' = (dirty \/ replugged)
  /\ replugged' = FALSE
  /\ UNCHANGED <<active, master, activity, blanked, idle, buffers, running, vt, enabling,
                 crtc, call>>

----------------------------------------------------------------------------
Environment == \/ SwitchAway \/ SwitchBack \/ OtherSession \/ Replug \/ IdleElapses
               \/ on_sigint \/ CallerConnect \/ CallerSend

ServerStep == \/ LoopHead \/ Shutdown \/ Blank \/ SkipFrame \/ Frame \/ FrameCrash
              \/ Poll \/ seat_dispatch \/ on_input \/ Clients
              \/ NoCall \/ HangUp \/ AnswerOnly \/ apply_mode_cb \/ Hotplug

\* Esc, a signal or the crash ended the process.
Ended == pc \in {"exit", "crashed"} /\ UNCHANGED vars

Next == Environment \/ ServerStep \/ Ended

Spec == Init /\ [][Next]_vars

\* The server's process is scheduled, and its poll returns within a second.
FairSpec == Spec /\ WF_vars(ServerStep)

----------------------------------------------------------------------------
(* Properties.                                                             *)

Crtc == [lit : BOOLEAN, mode : Modes \cup {NoSize},
         plane : {"fb0", "fb1", "console", "other", "none"}]

FlagsOK ==
  /\ active \in BOOLEAN /\ master \in BOOLEAN
  /\ need_modeset \in BOOLEAN /\ dirty \in BOOLEAN /\ current \in BOOLEAN
  /\ activity \in BOOLEAN /\ blanked \in BOOLEAN /\ idle \in BOOLEAN
  /\ running \in BOOLEAN /\ enabling \in BOOLEAN /\ replugged \in BOOLEAN

\* Type invariant.
TypeOK ==
  /\ FlagsOK
  /\ front \in 0..1
  /\ mode \in Modes /\ screen \in Modes
  /\ fb \in [0..1 -> [size : Modes \cup {NoSize}, map : {"mapped", "failed", "none"}]]
  /\ vt \in {"ours", "asked", "theirs"}
  /\ crtc \in Crtc
  /\ call \in [state : {"none", "connected", "sent", "hungup"},
               want : Modes \cup {Unlisted}]
  /\ pc \in {"head", "idle", "draw", "poll", "seat", "input", "clients", "control", "udev",
            "exit", "crashed"}

BothMapped == fb[0].map = "mapped" /\ fb[1].map = "mapped"

\* DESIGN.md P0.5 "On VT-away you lose master - stop committing": once the VT is
\* handed over, no commit is attempted until it is ours again.
NoCommitWhenAway == pc \in {"idle", "draw"} /\ master => vt # "theirs"

\* apply_mode_cb: mode, framebuffers and virtual screen change together, so that
\* composite and kms_atomic_plane agree on the size; only an allocation failure,
\* which leaves a framebuffer unmapped, can part them.
SizesAgree == BothMapped => screen = mode /\ \A i \in 0..1 : fb[i].size = mode

\* Double buffering: composite never draws into the framebuffer on screen, after
\* VT switches, blanking and reallocation too.
NeverDrawsOnScreen == pc = "draw" /\ BothMapped => crtc.plane # Plane(back)

\* Whenever the loop goes to sleep holding the seat and not blanked, the CRTC is
\* on, in the server's mode and shows the latest scene: no VT switch, wake-up,
\* resolution change or client request is left without its modeset or repaint.
\* (An unplugged connector counts from the step that reads its event.)
ShowsLatest ==
  pc = "poll" /\ master /\ ~blanked /\ BothMapped =>
    /\ crtc.plane = Plane(front) /\ crtc.mode = mode
    /\ crtc.lit /\ current

\* seat.c "acknowledge so seatd can hand off": a VT switch always gets through,
\* unless the server ends.
HandsOver == vt = "asked" ~> vt = "theirs" \/ ~running \/ pc = "crashed"

\* server.c "any input wakes the display": a blanked panel on which there was
\* input is lit again, unless the seat, the mode change or the server fails first.
WakesUp == blanked /\ activity ~>
             \/ crtc.lit /\ ~blanked
             \/ vt # "ours" \/ ~active \/ ~master
             \/ ~BothMapped \/ ~running

\* DESIGN.md P0.5 "on VT-return - re-acquire, repaint": the loop never sleeps with
\* the seat held while another session's frame is on screen.
RepaintedOnReturn == pc = "poll" /\ master /\ BothMapped => crtc.plane # "other"
============================================================================
