------------------------------ MODULE Sessions ------------------------------
(***************************************************************************)
(* What the CrystallineLattice transport promises a client, without        *)
(* sockets, slots or messages: a session is known by its reconnect token;  *)
(* its windows are its own; when its client dies they are either held,     *)
(* whole, until the session comes back or its grace period is over, or     *)
(* taken down, and a session that ended never comes back.                  *)
(***************************************************************************)
EXTENDS Integers

CONSTANT Token

VARIABLES state,  \* by token, where the session is
          wins,   \* by token, the windows it has
          shown,  \* windows on screen
          last,   \* window id last given out
          up      \* the server has not been told to stop

vars == <<state, wins, shown, last, up>>

States == {"new", "live", "held", "due", "ended", "gone"}

In(s) == {t \in Token : state[t] = s}

Init ==
  /\ state = [t \in Token |-> "new"]
  /\ wins = [t \in Token |-> {}]
  /\ shown = {}
  /\ last = 0
  /\ up = TRUE

Become(T, s) ==
  /\ state' = [t \in Token |-> IF t \in T THEN s ELSE state[t]]
  /\ UNCHANGED <<wins, shown, last, up>>

\* A client is welcomed; tokens are given out in order.
Open(t) == /\ state[t] = "new" /\ \A u \in In("new") : t <= u
           /\ Become({t}, "live")

AddWindow(t) ==
  /\ state[t] = "live"
  /\ last' = last + 1
  /\ wins' = [wins EXCEPT ![t] = @ \cup {last'}]
  /\ shown' = shown \cup {last'}
  /\ UNCHANGED <<state, up>>

\* A live client destroys its window; those of an ended session are taken down.
RemoveWindow(t, id) ==
  /\ state[t] \in {"live", "ended"}
  /\ id \in wins[t]
  /\ wins' = [wins EXCEPT ![t] = @ \ {id}]
  /\ shown' = shown \ {id}
  /\ UNCHANGED <<state, last, up>>

\* The client is lost: its windows are held for it, or taken down.
Hold(t) == up /\ state[t] = "live" /\ wins[t] # {} /\ Become({t}, "held")
Drop(t) == state[t] = "live" /\ Become({t}, "ended")

GraceElapses(t) == state[t] = "held" /\ Become({t}, "due")

Reclaim(t) == up /\ state[t] \in {"held", "due"} /\ Become({t}, "live")

\* Sessions held too long, or held when the server stops, end together.
Expire(T) ==
  /\ T # {} /\ T \subseteq In("held") \cup In("due")
  /\ up => T \subseteq In("due")
  /\ Become(T, "ended")

Forget(t) == state[t] = "ended" /\ wins[t] = {} /\ Become({t}, "gone")

Stop == up /\ up' = FALSE /\ UNCHANGED <<state, wins, shown, last>>

Next ==
  \/ \E t \in Token :
       \/ Open(t) \/ AddWindow(t) \/ Hold(t) \/ Drop(t)
       \/ GraceElapses(t) \/ Reclaim(t) \/ Forget(t)
       \/ \E id \in wins[t] : RemoveWindow(t, id)
  \/ \E T \in SUBSET (In("held") \cup In("due")) : Expire(T)
  \/ Stop

Spec == Init /\ [][Next]_vars
=============================================================================
