--------------------------- MODULE SessionsProofs ---------------------------
(***************************************************************************)
(* What the abstract sessions guarantee, for any set of tokens: hence what *)
(* Transport guarantees wherever it implements them.                       *)
(***************************************************************************)
EXTENDS Sessions, TLAPS

TypeOK == /\ state \in [Token -> States]
          /\ wins \in [Token -> SUBSET (Nat \ {0})]
          /\ shown \in SUBSET (Nat \ {0})
          /\ last \in Nat
          /\ up \in BOOLEAN

\* A window belongs to one session and is on screen exactly while it does; a
\* session that is not there has none.
WindowsOwned ==
  /\ \A id : id \in shown <=> \E t \in Token : id \in wins[t]
  /\ \A t, u \in Token : t # u => wins[t] \cap wins[u] = {}
  /\ \A t \in Token : state[t] \in {"new", "gone"} => wins[t] = {}

\* Ids are never given out twice.
Allocated == \A id \in shown : id <= last

Inv == TypeOK /\ WindowsOwned /\ Allocated

LEMMA Initially == Init => Inv
BY DEF Init, Inv, TypeOK, WindowsOwned, Allocated, States

LEMMA BecomeKeeps ==
  ASSUME Inv, NEW T \in SUBSET Token, NEW s \in States, Become(T, s),
         s \in {"new", "gone"} => \A t \in T : wins[t] = {}
  PROVE  Inv'
BY DEF Inv, TypeOK, WindowsOwned, Allocated, States, Become

LEMMA AddKeeps == ASSUME Inv, NEW t \in Token, AddWindow(t) PROVE Inv'
<1>1. last' \in Nat \ {0} /\ last' \notin shown
  BY DEF Inv, TypeOK, Allocated, AddWindow
<1>2. TypeOK'
  BY <1>1 DEF Inv, TypeOK, AddWindow
<1>3. \A u \in Token : wins'[u] = IF u = t THEN wins[u] \cup {last'} ELSE wins[u]
  BY DEF Inv, TypeOK, AddWindow
<1>4. WindowsOwned'
  <2>1. \A id : id \in shown' <=> \E u \in Token : id \in wins'[u]
    BY <1>3 DEF Inv, WindowsOwned, AddWindow
  <2>2. \A u, v \in Token : u # v => wins'[u] \cap wins'[v] = {}
    <3>1. \A u \in Token : last' \notin wins[u]
      BY <1>1 DEF Inv, WindowsOwned
    <3>2. \A u, v \in Token : u # v => wins[u] \cap wins[v] = {}
      BY DEF Inv, WindowsOwned
    <3>3. SUFFICES ASSUME NEW u \in Token, NEW v \in Token, u # v
                   PROVE  wins'[u] \cap wins'[v] = {}
      OBVIOUS
    <3>4. CASE u = t
      BY <3>1, <3>2, <3>3, <3>4, <1>3
    <3>5. CASE u # t
      BY <3>1, <3>2, <3>3, <3>5, <1>3
    <3> QED  BY <3>4, <3>5
  <2>3. \A u \in Token : state'[u] \in {"new", "gone"} => wins'[u] = {}
    BY <1>3 DEF Inv, WindowsOwned, AddWindow
  <2> QED  BY <2>1, <2>2, <2>3 DEF WindowsOwned
<1>5. Allocated'
  BY DEF Inv, TypeOK, Allocated, AddWindow
<1> QED  BY <1>2, <1>4, <1>5 DEF Inv

LEMMA RemoveKeeps == ASSUME Inv, NEW t \in Token, NEW id \in wins[t], RemoveWindow(t, id) PROVE Inv'
<1>1. TypeOK'
  BY DEF Inv, TypeOK, RemoveWindow
<1>2. \A u \in Token : wins'[u] = IF u = t THEN wins[u] \ {id} ELSE wins[u]
  BY DEF Inv, TypeOK, RemoveWindow
<1>3. WindowsOwned'
  <2>1. \A i : i \in shown' <=> \E u \in Token : i \in wins'[u]
    BY <1>2 DEF Inv, WindowsOwned, RemoveWindow
  <2>2. \A u, v \in Token : u # v => wins'[u] \cap wins'[v] = {}
    BY <1>2 DEF Inv, WindowsOwned
  <2>3. \A u \in Token : state'[u] \in {"new", "gone"} => wins'[u] = {}
    BY <1>2 DEF Inv, WindowsOwned, RemoveWindow
  <2> QED  BY <2>1, <2>2, <2>3 DEF WindowsOwned
<1>4. Allocated'
  BY DEF Inv, Allocated, RemoveWindow
<1> QED  BY <1>1, <1>3, <1>4 DEF Inv

LEMMA StepKeeps == Inv /\ [Next]_vars => Inv'
<1> SUFFICES ASSUME Inv, [Next]_vars PROVE Inv'
  OBVIOUS
<1>1. ASSUME NEW t \in Token, AddWindow(t) PROVE Inv'
  BY <1>1, AddKeeps
<1>2. ASSUME NEW t \in Token, NEW id \in wins[t], RemoveWindow(t, id) PROVE Inv'
  BY <1>2, RemoveKeeps
<1>3. ASSUME NEW t \in Token,
             Open(t) \/ Hold(t) \/ Drop(t) \/ GraceElapses(t) \/ Reclaim(t) \/ Forget(t)
      PROVE  Inv'
  BY <1>3, BecomeKeeps
     DEF Open, Hold, Drop, GraceElapses, Reclaim, Forget, States
<1>4. ASSUME NEW T \in SUBSET (In("held") \cup In("due")), Expire(T) PROVE Inv'
  BY <1>4, BecomeKeeps DEF Expire, In, States
<1>5. CASE Stop
  BY <1>5 DEF Stop, Inv, TypeOK, WindowsOwned, Allocated
<1>6. CASE UNCHANGED vars
  BY <1>6 DEF vars, Inv, TypeOK, WindowsOwned, Allocated
<1> QED  BY <1>1, <1>2, <1>3, <1>4, <1>5, <1>6 DEF Next

LEMMA AlwaysInv == Spec => []Inv
BY Initially, StepKeeps, PTL DEF Spec

\* Every window on screen belongs to one session, live, held or being taken down.
THEOREM SessionsOwnWindows == Spec => []WindowsOwned
<1>1. Inv => WindowsOwned
  BY DEF Inv
<1> QED  BY <1>1, AlwaysInv, PTL

\* A session that ended keeps ending: no client gets it back.
EndedStaysEnded ==
  \A t \in Token : state[t] \in {"ended", "gone"} => state'[t] \in {"ended", "gone"}

\* A session waiting for its client keeps all its windows: it is reclaimed whole.
HeldWhole == \A t \in Token : state[t] \in {"held", "due"} => wins'[t] = wins[t]

LEMMA StepIsProper == Inv /\ [Next]_vars => EndedStaysEnded /\ HeldWhole
<1> SUFFICES ASSUME Inv, [Next]_vars PROVE EndedStaysEnded /\ HeldWhole
  OBVIOUS
<1> USE DEF Inv, TypeOK, EndedStaysEnded, HeldWhole
<1>1. ASSUME NEW t \in Token, AddWindow(t) PROVE EndedStaysEnded /\ HeldWhole
  BY <1>1 DEF AddWindow
<1>2. ASSUME NEW t \in Token, NEW id \in wins[t], RemoveWindow(t, id)
      PROVE  EndedStaysEnded /\ HeldWhole
  BY <1>2 DEF RemoveWindow
<1>3. ASSUME NEW t \in Token,
             Open(t) \/ Hold(t) \/ Drop(t) \/ GraceElapses(t) \/ Reclaim(t) \/ Forget(t)
      PROVE  EndedStaysEnded /\ HeldWhole
  BY <1>3 DEF Open, Hold, Drop, GraceElapses, Reclaim, Forget, Become, In
<1>4. ASSUME NEW T \in SUBSET (In("held") \cup In("due")), Expire(T)
      PROVE  EndedStaysEnded /\ HeldWhole
  BY <1>4 DEF Expire, Become, In
<1>5. CASE Stop
  BY <1>5 DEF Stop
<1>6. CASE UNCHANGED vars
  BY <1>6 DEF vars
<1> QED  BY <1>1, <1>2, <1>3, <1>4, <1>5, <1>6 DEF Next

\* No session comes back once its grace period is over, and none is ever
\* reclaimed with some of its windows missing.
THEOREM SessionsEndOnce == Spec => [][EndedStaysEnded /\ HeldWhole]_vars
BY AlwaysInv, StepIsProper, PTL DEF Spec
=============================================================================
