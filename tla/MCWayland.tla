----------------------------- MODULE MCWayland -----------------------------
(***************************************************************************)
(* Two clients with a surface each, on a screen of a few pixels.           *)
(***************************************************************************)
EXTENDS Wayland

CONSTANTS s1, s2, c1, c2

OneEach == s1 :> c1 @@ s2 :> c2

Shm(w, h)   == [kind |-> "shm", w |-> w, h |-> h]
Dmabuf      == [kind |-> "other", w |-> 0, h |-> 0]
\* One client attaches everything, the other keeps to one size.
AllAndOne   == s1 :> {NoBuffer, Dmabuf, Shm(1, 1), Shm(2, 1)} @@ s2 :> {Shm(1, 1)}

Corner == <<[x |-> 0, y |-> 0]>>
Beside == {[x |-> 1, y |-> 0, w |-> 1, h |-> 2]}
Pixel  == {[x |-> 0, y |-> 1]}

\* Window ids are only compared for equality and never reused, so a window may be
\* known by its place in the stack and one that is gone by -1.  The handshake is
\* only recorded: no step reads it.
Place(id) == IF id = 0 THEN 0 ELSE IF Exists(stack, id) THEN window_index(stack, id) ELSE -1

Places(told) == [c \in Clients |-> {Place(id) : id \in told[c]}]

View ==
  << [i \in DOMAIN stack.windows |-> [stack.windows[i] EXCEPT !.id = 0]],
     Place(stack.focus_id), stack.next_id,
     [s \in Surfaces |-> [surf[s] EXCEPT !.server_id = Place(@)]],
     Place(pointer_focus), Place(kbd_focus), Places(pointer_told), Places(keyboard_told),
     objects, bound, dying, cascade, fe_dirty, dirty, current, cursor, pc >>
============================================================================
