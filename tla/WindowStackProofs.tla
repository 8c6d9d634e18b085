------------------------- MODULE WindowStackProofs -------------------------
(***************************************************************************)
(* Lemmas about the operators of WindowStack, for every capacity and every *)
(* stack: what each operation of window.c returns and preserves.           *)
(***************************************************************************)
EXTENDS WindowStack, SequenceTheorems, WellFoundedInduction, TLAPS

----------------------------------------------------------------------------
(* The array rotations.                                                    *)

\* Removing an element keeps the order of the others.
LEMMA RemoveAtProperties ==
  ASSUME NEW S, NEW ws \in Seq(S), NEW i \in 1 .. Len(ws)
  PROVE  /\ RemoveAt(ws, i) \in Seq(S)
         /\ Len(RemoveAt(ws, i)) = Len(ws) - 1
         /\ \A j \in 1 .. Len(ws) - 1 :
              RemoveAt(ws, i)[j] = IF j < i THEN ws[j] ELSE ws[j + 1]
<1> DEFINE lo   == SubSeq(ws, 1, i - 1)
           hi   == SubSeq(ws, i + 1, Len(ws))
           rest == lo \o hi
<1>1. /\ lo \in Seq(S) /\ Len(lo) = i - 1
      /\ \A j \in 1 .. i - 1 : lo[j] = ws[j]
  OBVIOUS
<1>2. /\ hi \in Seq(S) /\ Len(hi) = Len(ws) - i
      /\ \A j \in 1 .. Len(ws) - i : hi[j] = ws[j + i]
  OBVIOUS
<1>3. RemoveAt(ws, i) = rest
  BY DEF RemoveAt
<1> HIDE DEF lo, hi
<1>4. /\ rest \in Seq(S)
      /\ Len(rest) = Len(lo) + Len(hi)
      /\ \A j \in 1 .. Len(lo) + Len(hi) :
           rest[j] = IF j <= Len(lo) THEN lo[j] ELSE hi[j - Len(lo)]
  BY <1>1, <1>2, ConcatProperties
<1> HIDE DEF rest
<1>5. Len(rest) = Len(ws) - 1
  BY <1>1, <1>2, <1>4
<1>6. ASSUME NEW j \in 1 .. Len(ws) - 1
      PROVE  rest[j] = IF j < i THEN ws[j] ELSE ws[j + 1]
  <2>1. CASE j < i
    BY <1>1, <1>4, <1>5, <2>1
  <2>2. CASE ~(j < i)
    <3>1. j - Len(lo) \in 1 .. Len(ws) - i /\ j - Len(lo) + i = j + 1
      BY <1>1, <2>2
    <3>2. rest[j] = hi[j - Len(lo)]
      BY <1>1, <1>4, <1>5, <2>2
    <3> QED
      BY <1>2, <2>2, <3>1, <3>2
  <2> QED
    BY <2>1, <2>2
<1> QED
  BY <1>3, <1>4, <1>5, <1>6

\* move_to_top puts one element last and keeps the order of the others.
LEMMA MoveToTopProperties ==
  ASSUME NEW S, NEW ws \in Seq(S), NEW i \in 1 .. Len(ws)
  PROVE  /\ move_to_top(ws, i) \in Seq(S)
         /\ Len(move_to_top(ws, i)) = Len(ws)
         /\ \A j \in 1 .. Len(ws) :
              move_to_top(ws, i)[j] =
                IF j < i THEN ws[j] ELSE IF j < Len(ws) THEN ws[j + 1] ELSE ws[i]
<1> DEFINE rest == RemoveAt(ws, i)
<1>1. /\ rest \in Seq(S) /\ Len(rest) = Len(ws) - 1
      /\ \A j \in 1 .. Len(ws) - 1 : rest[j] = IF j < i THEN ws[j] ELSE ws[j + 1]
  BY RemoveAtProperties
<1>2. ws[i] \in S /\ move_to_top(ws, i) = Append(rest, ws[i])
  BY DEF move_to_top
<1> HIDE DEF rest
<1> QED
  BY <1>1, <1>2

\* move_to_bottom puts one element first and keeps the order of the others.
LEMMA MoveToBottomProperties ==
  ASSUME NEW S, NEW ws \in Seq(S), NEW i \in 1 .. Len(ws)
  PROVE  /\ move_to_bottom(ws, i) \in Seq(S)
         /\ Len(move_to_bottom(ws, i)) = Len(ws)
         /\ \A j \in 1 .. Len(ws) :
              move_to_bottom(ws, i)[j] =
                IF j = 1 THEN ws[i] ELSE IF j <= i THEN ws[j - 1] ELSE ws[j]
<1> DEFINE rest == RemoveAt(ws, i)
<1>1. /\ rest \in Seq(S) /\ Len(rest) = Len(ws) - 1
      /\ \A j \in 1 .. Len(ws) - 1 : rest[j] = IF j < i THEN ws[j] ELSE ws[j + 1]
  BY RemoveAtProperties
<1>2. ws[i] \in S /\ move_to_bottom(ws, i) = << ws[i] >> \o rest
  BY DEF move_to_bottom
<1>3. << ws[i] >> \in Seq(S) /\ Len(<< ws[i] >>) = 1 /\ << ws[i] >>[1] = ws[i]
  BY <1>2
<1> DEFINE first == << ws[i] >>
<1> HIDE DEF rest, first
<1>4. /\ first \o rest \in Seq(S)
      /\ Len(first \o rest) = Len(ws)
      /\ \A j \in 1 .. Len(ws) : (first \o rest)[j] = IF j <= 1 THEN first[j] ELSE rest[j - 1]
  BY <1>1, <1>3, ConcatProperties DEF first
<1> QED
  BY <1>1, <1>2, <1>3, <1>4 DEF first

----------------------------------------------------------------------------
(* The least and the greatest element of a set of array positions.         *)

\* Min picks the least element of a non-empty set of naturals.
LEMMA MinOfNats ==
  ASSUME NEW T, T \subseteq Nat, T # {}
  PROVE  Min(T) \in T /\ \A y \in T : Min(T) <= y
<1>1. PICK R : /\ IsWellFoundedOn(R, Nat)
               /\ \A x, y \in Nat : <<y, x>> \in R <=> y < x
  BY NatLessThanWellFounded DEF OpToRel
<1>2. PICK x \in T : \A y \in T : ~ (<<y, x>> \in R)
  BY <1>1, WFMin
<1>3. ASSUME NEW y \in T
      PROVE  x <= y
  <2>1. x \in Nat /\ y \in Nat
    OBVIOUS
  <2>2. ~ (y < x)
    BY <1>1, <1>2, <2>1, Zenon
  <2> QED
    BY <2>1, <2>2
<1> QED
  BY <1>3 DEF Min

\* Max picks the greatest element of a non-empty set of positions.
LEMMA MaxOfPositions ==
  ASSUME NEW n \in Nat, NEW T, T \subseteq 1 .. n, T # {}
  PROVE  Max(T) \in T /\ \A y \in T : Max(T) >= y
<1> DEFINE D == {n - y : y \in T}
<1>1. \A y \in T : y \in Nat /\ n - y \in Nat
  OBVIOUS
<1> D \subseteq Nat /\ D # {}
  BY <1>1
<1>2. Min(D) \in D /\ \A d \in D : Min(D) <= d
  BY MinOfNats
<1>3. PICK m \in T : Min(D) = n - m
  BY <1>2
<1>4. ASSUME NEW y \in T
      PROVE  m >= y
  <2>1. n - m <= n - y
    BY <1>2, <1>3
  <2> QED
    BY <1>1, <2>1
<1> QED
  BY <1>4 DEF Max

----------------------------------------------------------------------------
(* Every operation keeps a stack a stack, with unique ids, a live focus    *)
(* and no more windows than the array holds.                               *)

Sound(s) == s \in Stack /\ UniqueIds(s) /\ FocusLive(s) /\ CountBounded(s)

SameIds(s, t) == \A id \in Nat : Exists(t, id) <=> Exists(s, id)

\* A change of one field of a stack.
LEMMA OneField ==
  ASSUME NEW s \in Stack
  PROVE  /\ \A ws \in Seq(Window) :
              LET t == [s EXCEPT !.windows = ws]
              IN  /\ t \in Stack /\ t.windows = ws
                  /\ t.focus_id = s.focus_id /\ t.next_id = s.next_id
         /\ \A f \in Nat :
              LET t == [s EXCEPT !.focus_id = f]
              IN  /\ t \in Stack /\ t.windows = s.windows
                  /\ t.focus_id = f /\ t.next_id = s.next_id
         /\ \A n \in Nat \ {0} :
              LET t == [s EXCEPT !.next_id = n]
              IN  /\ t \in Stack /\ t.windows = s.windows
                  /\ t.focus_id = s.focus_id /\ t.next_id = n
  BY DEF Stack

\* window_index finds the window when there is one.
LEMMA WindowIndexFinds ==
  ASSUME NEW s \in Stack, NEW id, Exists(s, id)
  PROVE  /\ window_index(s, id) \in 1 .. Len(s.windows)
         /\ s.windows[window_index(s, id)].id = id
         /\ window_by_id(s, id) = s.windows[window_index(s, id)]
         /\ window_by_id(s, id) \in Window
         /\ id \in Nat \ {0}
<1>1. s.windows \in Seq(Window) /\ DOMAIN s.windows = 1 .. Len(s.windows)
  BY DEF Stack
<1>2. PICK i \in DOMAIN s.windows : s.windows[i].id = id
  BY DEF Exists
<1>3. /\ window_index(s, id) \in DOMAIN s.windows
      /\ s.windows[window_index(s, id)].id = id
  BY <1>2 DEF window_index
<1>4. s.windows[window_index(s, id)] \in Window
  BY <1>1, <1>3
<1>5. id \in Nat \ {0}
  BY <1>3, <1>4 DEF Window
<1> QED
  BY <1>1, <1>3, <1>4, <1>5 DEF window_by_id

\* window_at names a window of the stack, or none.
LEMMA WindowAtFinds ==
  ASSUME NEW s \in Stack, NEW gx \in Int, NEW gy \in Int
  PROVE  window_at(s, gx, gy) = 0 \/ Exists(s, window_at(s, gx, gy))
<1> DEFINE hits == {i \in DOMAIN s.windows : InRect(s.windows[i], gx, gy)}
<1>1. DOMAIN s.windows = 1 .. Len(s.windows) /\ Len(s.windows) \in Nat
  BY DEF Stack
<1>2. CASE hits = {}
  BY <1>2 DEF window_at
<1>3. CASE hits # {}
  <2>1. hits \subseteq 1 .. Len(s.windows)
    BY <1>1
  <2>2. Max(hits) \in hits
    BY <1>1, <1>3, <2>1, MaxOfPositions
  <2>3. window_at(s, gx, gy) = s.windows[Max(hits)].id
    BY <1>3 DEF window_at
  <2> QED
    BY <2>2, <2>3 DEF Exists
<1> QED
  BY <1>2, <1>3

\* Creating a window issues the next id and changes no other window.
LEMMA CreateSound ==
  ASSUME NEW s, Sound(s), NEW role \in Role, NEW r \in Rect
  PROVE  /\ Sound(window_create(s, role, r))
         /\ ~IsFull(s) =>
              /\ window_create(s, role, r).windows
                   = Append(s.windows, NewWindow(s.next_id, role, r))
              /\ window_create(s, role, r).focus_id = s.focus_id
              /\ window_create(s, role, r).next_id = s.next_id + 1
              /\ NewWindow(s.next_id, role, r) \in Window
<1> DEFINE t  == window_create(s, role, r)
           nw == NewWindow(s.next_id, role, r)
<1>1. CASE IsFull(s)
  BY <1>1 DEF window_create
<1>2. CASE ~IsFull(s)
  <2>1. s \in Stack /\ s.windows \in Seq(Window) /\ s.next_id \in Nat \ {0}
    BY DEF Sound, Stack
  <2>2. nw \in Window /\ nw.id = s.next_id
    BY <2>1 DEF NewWindow, Window, Rect
  <2>3. /\ t.windows = Append(s.windows, nw)
        /\ t.focus_id = s.focus_id
        /\ t.next_id = s.next_id + 1
        /\ t \in Stack
    BY <1>2, <2>1, <2>2 DEF window_create, Stack
  <2> HIDE DEF t, nw
  <2>4. /\ DOMAIN t.windows = 1 .. Len(s.windows) + 1
        /\ DOMAIN s.windows = 1 .. Len(s.windows)
        /\ Len(t.windows) = Len(s.windows) + 1
        /\ \A i \in 1 .. Len(s.windows) : t.windows[i] = s.windows[i]
        /\ t.windows[Len(s.windows) + 1] = nw
    BY <2>1, <2>2, <2>3
  <2>5. ASSUME NEW i \in 1 .. Len(s.windows)
        PROVE  s.windows[i].id \in Nat
    <3>1. s.windows[i] \in Window
      BY <2>1
    <3> QED
      BY <3>1 DEF Window
  <2>6. UniqueIds(t)
    BY <2>1, <2>2, <2>3, <2>4, <2>5, SMTT(30) DEF Sound, UniqueIds
  <2>7. FocusLive(t)
    BY <2>3, <2>4 DEF Sound, FocusLive, Exists
  <2>8. CountBounded(t)
    BY <1>2, <2>1, <2>4, WinMaxAssumption DEF CountBounded, IsFull
  <2> QED
    BY <2>2, <2>3, <2>6, <2>7, <2>8 DEF Sound, t, nw
<1> QED
  BY <1>1, <1>2

\* Choosing among the windows without repetition keeps ids unique.
LEMMA RearrangedUnique ==
  ASSUME NEW s, Sound(s), NEW t \in Stack, t.next_id = s.next_id,
         Len(t.windows) <= Len(s.windows),
         NEW p \in [1 .. Len(t.windows) -> 1 .. Len(s.windows)],
         \A i, j \in 1 .. Len(t.windows) : p[i] = p[j] => i = j,
         \A j \in 1 .. Len(t.windows) : t.windows[j] = s.windows[p[j]]
  PROVE  UniqueIds(t) /\ CountBounded(t)
<1>1. /\ DOMAIN s.windows = 1 .. Len(s.windows)
      /\ DOMAIN t.windows = 1 .. Len(t.windows)
      /\ Len(s.windows) \in Nat /\ Len(t.windows) \in Nat
  BY DEF Sound, Stack
<1>2. ASSUME NEW i \in 1 .. Len(t.windows)
      PROVE  t.windows[i].id < t.next_id
  <2>1. p[i] \in 1 .. Len(s.windows)
    OBVIOUS
  <2> QED
    BY <1>1, <2>1 DEF Sound, UniqueIds
<1>3. ASSUME NEW i \in 1 .. Len(t.windows), NEW j \in 1 .. Len(t.windows),
             t.windows[i].id = t.windows[j].id
      PROVE  i = j
  <2>1. p[i] \in 1 .. Len(s.windows) /\ p[j] \in 1 .. Len(s.windows)
    OBVIOUS
  <2>2. p[i] = p[j]
    BY <1>1, <1>3, <2>1, SMTT(30) DEF Sound, UniqueIds
  <2> QED
    BY <2>2
<1>4. CountBounded(t)
  BY <1>1, WinMaxAssumption DEF Sound, CountBounded
<1> QED
  BY <1>1, <1>2, <1>3, <1>4 DEF UniqueIds

\* window_raise keeps the windows and puts one of them on top.
LEMMA RaiseSound ==
  ASSUME NEW s, Sound(s), NEW id
  PROVE  /\ Sound(window_raise(s, id))
         /\ SameIds(s, window_raise(s, id))
         /\ window_raise(s, id).focus_id = s.focus_id
         /\ window_raise(s, id).next_id = s.next_id
<1>0. CASE ~Exists(s, id)
  BY <1>0 DEF window_raise, SameIds
<1>1. CASE Exists(s, id)
  <2> DEFINE i == window_index(s, id)
             n == Len(s.windows)
             ws == move_to_top(s.windows, i)
             t == window_raise(s, id)
             p == [j \in 1 .. n |-> IF j < i THEN j ELSE IF j < n THEN j + 1 ELSE i]
             q == [j \in 1 .. n |-> IF j < i THEN j ELSE IF j = i THEN n ELSE j - 1]
  <2>1. /\ s \in Stack /\ s.windows \in Seq(Window) /\ n \in Nat
        /\ DOMAIN s.windows = 1 .. n
    BY DEF Sound, Stack
  <2>2. i \in 1 .. n
    BY <1>1, <2>1, WindowIndexFinds
  <2>3. /\ ws \in Seq(Window) /\ Len(ws) = n
        /\ \A j \in 1 .. n :
             ws[j] = IF j < i THEN s.windows[j]
                     ELSE IF j < n THEN s.windows[j + 1] ELSE s.windows[i]
    BY <2>1, <2>2, MoveToTopProperties
  <2> HIDE DEF ws, i
  <2>4. t = [s EXCEPT !.windows = ws]
    BY <1>1 DEF window_raise, ws, i
  <2> HIDE DEF t
  <2>5. /\ t \in Stack /\ t.windows = ws
        /\ t.focus_id = s.focus_id /\ t.next_id = s.next_id
    BY <2>1, <2>3, <2>4 DEF Stack
  <2>6. /\ p \in [1 .. n -> 1 .. n]
        /\ \A j, k \in 1 .. n : p[j] = p[k] => j = k
        /\ \A j \in 1 .. n : ws[j] = s.windows[p[j]]
    BY <2>1, <2>2, <2>3
  <2>7. /\ q \in [1 .. n -> 1 .. n]
        /\ \A j \in 1 .. n : s.windows[j] = ws[q[j]]
    BY <2>1, <2>2, <2>3, SMTT(30)
  <2> HIDE DEF p, q
  <2>8. UniqueIds(t) /\ CountBounded(t)
    <3>1. /\ Len(t.windows) <= Len(s.windows)
          /\ p \in [1 .. Len(t.windows) -> 1 .. Len(s.windows)]
          /\ \A j, k \in 1 .. Len(t.windows) : p[j] = p[k] => j = k
          /\ \A j \in 1 .. Len(t.windows) : t.windows[j] = s.windows[p[j]]
      BY <2>1, <2>3, <2>5, <2>6
    <3> QED
      BY <2>5, <3>1, RearrangedUnique
  <2>9. DOMAIN t.windows = 1 .. n
    BY <2>3, <2>5
  <2>10. SameIds(s, t)
    BY <2>1, <2>5, <2>6, <2>7, <2>9, SMTT(30) DEF SameIds, Exists
  <2>11. FocusLive(t)
    BY <2>1, <2>5, <2>10 DEF Sound, Stack, FocusLive, SameIds
  <2> QED
    BY <2>5, <2>8, <2>10, <2>11 DEF Sound, t
<1> QED
  BY <1>0, <1>1

\* window_lower keeps the windows and puts one of them at the bottom.
LEMMA LowerSound ==
  ASSUME NEW s, Sound(s), NEW id
  PROVE  /\ Sound(window_lower(s, id))
         /\ SameIds(s, window_lower(s, id))
         /\ window_lower(s, id).focus_id = s.focus_id
         /\ window_lower(s, id).next_id = s.next_id
<1>0. CASE ~Exists(s, id)
  BY <1>0 DEF window_lower, SameIds
<1>1. CASE Exists(s, id)
  <2> DEFINE i == window_index(s, id)
             n == Len(s.windows)
             ws == move_to_bottom(s.windows, i)
             t == window_lower(s, id)
             p == [j \in 1 .. n |-> IF j = 1 THEN i ELSE IF j <= i THEN j - 1 ELSE j]
             q == [j \in 1 .. n |-> IF j < i THEN j + 1 ELSE IF j = i THEN 1 ELSE j]
  <2>1. /\ s \in Stack /\ s.windows \in Seq(Window) /\ n \in Nat
        /\ DOMAIN s.windows = 1 .. n
    BY DEF Sound, Stack
  <2>2. i \in 1 .. n
    BY <1>1, <2>1, WindowIndexFinds
  <2>3. /\ ws \in Seq(Window) /\ Len(ws) = n
        /\ \A j \in 1 .. n :
             ws[j] = IF j = 1 THEN s.windows[i]
                     ELSE IF j <= i THEN s.windows[j - 1] ELSE s.windows[j]
    BY <2>1, <2>2, MoveToBottomProperties
  <2> HIDE DEF ws, i
  <2>4. t = [s EXCEPT !.windows = ws]
    BY <1>1 DEF window_lower, ws, i
  <2> HIDE DEF t
  <2>5. /\ t \in Stack /\ t.windows = ws
        /\ t.focus_id = s.focus_id /\ t.next_id = s.next_id
    BY <2>1, <2>3, <2>4 DEF Stack
  <2>6. /\ p \in [1 .. n -> 1 .. n]
        /\ \A j, k \in 1 .. n : p[j] = p[k] => j = k
        /\ \A j \in 1 .. n : ws[j] = s.windows[p[j]]
    BY <2>1, <2>2, <2>3
  <2>7. /\ q \in [1 .. n -> 1 .. n]
        /\ \A j \in 1 .. n : s.windows[j] = ws[q[j]]
    BY <2>1, <2>2, <2>3
  <2> HIDE DEF p, q
  <2>8. UniqueIds(t) /\ CountBounded(t)
    <3>1. /\ Len(t.windows) <= Len(s.windows)
          /\ p \in [1 .. Len(t.windows) -> 1 .. Len(s.windows)]
          /\ \A j, k \in 1 .. Len(t.windows) : p[j] = p[k] => j = k
          /\ \A j \in 1 .. Len(t.windows) : t.windows[j] = s.windows[p[j]]
      BY <2>1, <2>3, <2>5, <2>6
    <3> QED
      BY <2>5, <3>1, RearrangedUnique
  <2>9. DOMAIN t.windows = 1 .. n
    BY <2>3, <2>5
  <2>10. SameIds(s, t)
    BY <2>1, <2>5, <2>6, <2>7, <2>9, SMTT(30) DEF SameIds, Exists
  <2>11. FocusLive(t)
    BY <2>1, <2>5, <2>10 DEF Sound, Stack, FocusLive, SameIds
  <2> QED
    BY <2>5, <2>8, <2>10, <2>11 DEF Sound, t
<1> QED
  BY <1>0, <1>1

\* window_destroy removes one window and moves a focus it held to the top of
\* what remains.
LEMMA DestroySound ==
  ASSUME NEW s, Sound(s), NEW id
  PROVE  /\ Sound(window_destroy(s, id))
         /\ window_destroy(s, id).next_id = s.next_id
<1>0. CASE ~Exists(s, id)
  BY <1>0 DEF window_destroy
<1>1. CASE Exists(s, id)
  <2> DEFINE i == window_index(s, id)
             n == Len(s.windows)
             rest == RemoveAt(s.windows, i)
             top == IF rest = << >> THEN 0 ELSE rest[Len(rest)].id
             t == window_destroy(s, id)
             p == [j \in 1 .. n - 1 |-> IF j < i THEN j ELSE j + 1]
  <2>1. /\ s \in Stack /\ s.windows \in Seq(Window) /\ n \in Nat
        /\ DOMAIN s.windows = 1 .. n /\ s.focus_id \in Nat
    BY DEF Sound, Stack
  <2>2. i \in 1 .. n /\ s.windows[i].id = id
    BY <1>1, <2>1, WindowIndexFinds
  <2>3. /\ rest \in Seq(Window) /\ Len(rest) = n - 1
        /\ \A j \in 1 .. n - 1 :
             rest[j] = IF j < i THEN s.windows[j] ELSE s.windows[j + 1]
    BY <2>1, <2>2, RemoveAtProperties
  <2> HIDE DEF rest, i
  <2>4. top \in Nat /\ (top = 0 \/ \E j \in 1 .. n - 1 : rest[j].id = top)
    <3>1. CASE rest = << >>
      BY <3>1
    <3>2. CASE rest # << >>
      <4>1. Len(rest) \in 1 .. n - 1 /\ rest[Len(rest)] \in Window
        BY <2>1, <2>3, <3>2
      <4> QED
        BY <2>3, <3>2, <4>1 DEF Window
    <3> QED
      BY <3>1, <3>2
  <2>5. t = [windows |-> rest, focus_id |-> IF s.focus_id = id THEN top ELSE s.focus_id,
             next_id |-> s.next_id]
    BY <1>1 DEF window_destroy, rest, i
  <2> HIDE DEF t, top
  <2>6. /\ t \in Stack /\ t.windows = rest /\ t.next_id = s.next_id
        /\ t.focus_id = IF s.focus_id = id THEN top ELSE s.focus_id
    BY <2>1, <2>3, <2>4, <2>5 DEF Stack
  <2>7. /\ p \in [1 .. n - 1 -> 1 .. n]
        /\ \A j, k \in 1 .. n - 1 : p[j] = p[k] => j = k
        /\ \A j \in 1 .. n - 1 : rest[j] = s.windows[p[j]]
    <3>1. \A j \in 1 .. n - 1 : p[j] = IF j < i THEN j ELSE j + 1
      OBVIOUS
    <3>2. \A j \in 1 .. n - 1 : (IF j < i THEN j ELSE j + 1) \in 1 .. n
      BY <2>1, <2>2
    <3>3. p \in [1 .. n - 1 -> 1 .. n]
      BY <3>2
    <3> HIDE DEF p
    <3>4. ASSUME NEW j \in 1 .. n - 1, NEW k \in 1 .. n - 1, p[j] = p[k]
          PROVE  j = k
      <4>1. (IF j < i THEN j ELSE j + 1) = (IF k < i THEN k ELSE k + 1)
        BY <3>1, <3>4
      <4> QED
        BY <2>1, <2>2, <4>1
    <3>5. \A j \in 1 .. n - 1 : rest[j] = s.windows[p[j]]
      BY <2>3, <3>1
    <3> QED
      BY <3>3, <3>4, <3>5
  <2> HIDE DEF p
  <2>8. UniqueIds(t) /\ CountBounded(t)
    <3>1. /\ Len(t.windows) <= Len(s.windows)
          /\ p \in [1 .. Len(t.windows) -> 1 .. Len(s.windows)]
          /\ \A j, k \in 1 .. Len(t.windows) : p[j] = p[k] => j = k
          /\ \A j \in 1 .. Len(t.windows) : t.windows[j] = s.windows[p[j]]
      BY <2>1, <2>3, <2>6, <2>7
    <3> QED
      BY <2>6, <3>1, RearrangedUnique
  <2>9. DOMAIN t.windows = 1 .. n - 1
    BY <2>3, <2>6
  <2>10. FocusLive(t)
    <3>1. CASE s.focus_id = id
      BY <2>4, <2>6, <2>9, <3>1 DEF FocusLive, Exists
    <3>2. CASE s.focus_id # id
      <4>1. t.focus_id = s.focus_id
        BY <2>6, <3>2
      <4>2. SUFFICES ASSUME s.focus_id # 0
                     PROVE  Exists(t, s.focus_id)
        BY <4>1 DEF FocusLive
      <4>3. PICK k \in 1 .. n : s.windows[k].id = s.focus_id
        BY <2>1, <4>2 DEF Sound, FocusLive, Exists
      <4>4. k # i
        BY <2>2, <3>2, <4>3
      <4>5. CASE k < i
        <5>1. k \in 1 .. n - 1 /\ rest[k] = s.windows[k]
          BY <2>1, <2>2, <2>3, <4>5
        <5> QED
          BY <2>6, <2>9, <4>3, <5>1 DEF Exists
      <4>6. CASE k > i
        <5>1. k - 1 \in 1 .. n - 1 /\ rest[k - 1] = s.windows[k]
          BY <2>1, <2>2, <2>3, <4>6
        <5> QED
          BY <2>6, <2>9, <4>3, <5>1 DEF Exists
      <4> QED
        BY <2>2, <4>4, <4>5, <4>6
    <3> QED
      BY <3>1, <3>2
  <2> QED
    BY <2>6, <2>8, <2>10 DEF Sound, t
<1> QED
  BY <1>0, <1>1

\* Changing one window in place, whatever of it but its id.
LEMMA UpdateSound ==
  ASSUME NEW s, Sound(s), NEW id, Exists(s, id), NEW w \in Window, w.id = id
  PROVE  /\ Sound(Update(s, id, w))
         /\ SameIds(s, Update(s, id, w))
         /\ Update(s, id, w).focus_id = s.focus_id
         /\ Update(s, id, w).next_id = s.next_id
<1> DEFINE i == window_index(s, id)
           ws == [s.windows EXCEPT ![i] = w]
           t == Update(s, id, w)
<1>1. /\ s \in Stack /\ s.windows \in Seq(Window)
      /\ DOMAIN s.windows = 1 .. Len(s.windows)
  BY DEF Sound, Stack
<1>2. i \in 1 .. Len(s.windows) /\ s.windows[i].id = id
  BY <1>1, WindowIndexFinds
<1>3. t = [s EXCEPT !.windows = ws]
  BY DEF Update
<1> HIDE DEF i
<1>4. /\ ws \in Seq(Window) /\ Len(ws) = Len(s.windows)
      /\ DOMAIN ws = 1 .. Len(s.windows)
      /\ \A j \in 1 .. Len(s.windows) : ws[j] = IF j = i THEN w ELSE s.windows[j]
  BY <1>1, <1>2
<1> HIDE DEF ws, t
<1>5. /\ t \in Stack /\ t.windows = ws
      /\ t.focus_id = s.focus_id /\ t.next_id = s.next_id
  BY <1>1, <1>3, <1>4 DEF Stack
<1>6. \A j \in 1 .. Len(s.windows) : t.windows[j].id = s.windows[j].id
  BY <1>2, <1>4, <1>5
<1>7. SameIds(s, t)
  BY <1>1, <1>4, <1>5, <1>6 DEF SameIds, Exists
<1>8. UniqueIds(t)
  BY <1>1, <1>4, <1>5, <1>6 DEF Sound, UniqueIds
<1>9. FocusLive(t) /\ CountBounded(t)
  BY <1>1, <1>4, <1>5, <1>7 DEF Sound, Stack, FocusLive, SameIds, CountBounded
<1> QED
  BY <1>5, <1>7, <1>8, <1>9 DEF Sound, t

\* window_move changes a position and nothing else.
LEMMA MoveSound ==
  ASSUME NEW s, Sound(s), NEW id, NEW nx \in Int, NEW ny \in Int
  PROVE  /\ Sound(window_move(s, id, nx, ny))
         /\ SameIds(s, window_move(s, id, nx, ny))
         /\ window_move(s, id, nx, ny).focus_id = s.focus_id
         /\ window_move(s, id, nx, ny).next_id = s.next_id
<1>1. CASE ~Exists(s, id)
  BY <1>1 DEF window_move, SameIds
<1>2. CASE Exists(s, id)
  <2> DEFINE w == window_by_id(s, id)
             v == [w EXCEPT !.x = nx, !.y = ny]
  <2>1. w \in Window /\ w.id = id
    BY <1>2, WindowIndexFinds DEF Sound
  <2> HIDE DEF w
  <2>2. v \in Window /\ v.id = id
    BY <2>1 DEF Window
  <2>3. window_move(s, id, nx, ny) = Update(s, id, v)
    BY <1>2 DEF window_move, w
  <2> HIDE DEF v
  <2>4. /\ Sound(Update(s, id, v)) /\ SameIds(s, Update(s, id, v))
        /\ Update(s, id, v).focus_id = s.focus_id
        /\ Update(s, id, v).next_id = s.next_id
    BY <1>2, <2>2, UpdateSound
  <2> QED
    BY <2>3, <2>4
<1> QED
  BY <1>1, <1>2

\* window_set_geometry changes a rectangle and nothing else.
LEMMA SetGeometrySound ==
  ASSUME NEW s, Sound(s), NEW id, NEW r \in Rect
  PROVE  /\ Sound(window_set_geometry(s, id, r))
         /\ SameIds(s, window_set_geometry(s, id, r))
         /\ window_set_geometry(s, id, r).focus_id = s.focus_id
         /\ window_set_geometry(s, id, r).next_id = s.next_id
<1>1. CASE ~Exists(s, id)
  BY <1>1 DEF window_set_geometry, SameIds
<1>2. CASE Exists(s, id)
  <2> DEFINE w == window_by_id(s, id)
             nw == IF r.w > 0 THEN r.w ELSE w.w
             nh == IF r.h > 0 THEN r.h ELSE w.h
             v == [w EXCEPT !.x = r.x, !.y = r.y, !.w = nw, !.h = nh]
  <2>1. w \in Window /\ w.id = id
    BY <1>2, WindowIndexFinds DEF Sound
  <2> HIDE DEF w
  <2>2. r.x \in Int /\ r.y \in Int /\ nw \in Int /\ nh \in Int
    BY <2>1 DEF Window, Rect
  <2>3. window_set_geometry(s, id, r) = Update(s, id, v)
    BY <1>2 DEF window_set_geometry, w
  <2> HIDE DEF nw, nh
  <2>4. v \in Window /\ v.id = id
    BY <2>1, <2>2 DEF Window
  <2> HIDE DEF v
  <2>5. /\ Sound(Update(s, id, v)) /\ SameIds(s, Update(s, id, v))
        /\ Update(s, id, v).focus_id = s.focus_id
        /\ Update(s, id, v).next_id = s.next_id
    BY <1>2, <2>4, UpdateSound
  <2> QED
    BY <2>3, <2>5
<1> QED
  BY <1>1, <1>2

\* window_focus moves the focus and perhaps one window.
LEMMA FocusSound ==
  ASSUME NEW s, Sound(s), NEW id
  PROVE  /\ Sound(window_focus(s, id))
         /\ SameIds(s, window_focus(s, id))
         /\ window_focus(s, id).focus_id = IF Exists(s, id) THEN id ELSE s.focus_id
         /\ window_focus(s, id).next_id = s.next_id
<1>1. CASE ~Exists(s, id)
  BY <1>1 DEF window_focus, SameIds
<1>2. CASE Exists(s, id)
  <2> DEFINE f == [s EXCEPT !.focus_id = id]
  <2>1. s \in Stack /\ id \in Nat
    BY <1>2, WindowIndexFinds DEF Sound
  <2>2. /\ f \in Stack /\ f.windows = s.windows
        /\ f.focus_id = id /\ f.next_id = s.next_id
    BY <2>1 DEF Stack
  <2>3. /\ window_focus(s, id) = IF window_by_id(s, id).role = "DESKTOP" THEN f
                                 ELSE window_raise(f, id)
    BY <1>2 DEF window_focus
  <2> HIDE DEF f
  <2>4. SameIds(s, f)
    BY <2>2 DEF SameIds, Exists
  <2>5. Sound(f)
    BY <1>2, <2>2 DEF Sound, UniqueIds, FocusLive, CountBounded, Exists
  <2>6. /\ Sound(window_raise(f, id)) /\ SameIds(f, window_raise(f, id))
        /\ window_raise(f, id).focus_id = id
        /\ window_raise(f, id).next_id = s.next_id
    BY <2>2, <2>5, RaiseSound
  <2> QED
    BY <1>2, <2>2, <2>3, <2>4, <2>5, <2>6 DEF SameIds
<1> QED
  BY <1>1, <1>2

\* window_focus_cycle is a window_focus of one of the application windows, if
\* there is any.
LEMMA CycleFocuses ==
  ASSUME NEW s, Sound(s), NEW dir \in {-1, 1}
  PROVE  \/ window_focus_cycle(s, dir) = s
         \/ \E i \in 1 .. Len(s.windows) :
              /\ s.windows[i].role = "NORMAL"
              /\ window_focus_cycle(s, dir) = window_focus(s, s.windows[i].id)
<1> DEFINE n == Len(s.windows)
           start == window_index(s, s.focus_id)
           probe(k) == ((start - 1 + dir * k) % n) + 1
           hits == {k \in 1 .. n : s.windows[probe(k)].role = "NORMAL"}
<1>1. n \in Nat /\ DOMAIN s.windows = 1 .. n
  BY DEF Sound, Stack
<1>2. CASE hits = {}
  BY <1>2 DEF window_focus_cycle
<1>3. CASE hits # {}
  <2>1. start \in Int
    <3>1. CASE Exists(s, s.focus_id)
      BY <3>1, WindowIndexFinds DEF Sound
    <3>2. CASE ~Exists(s, s.focus_id)
      BY <3>2 DEF window_index, Exists
    <3> QED
      BY <3>1, <3>2
  <2> HIDE DEF n, start
  <2>2. Min(hits) \in hits
    <3>1. hits \subseteq Nat
      OBVIOUS
    <3> HIDE DEF hits
    <3> QED
      BY <1>3, <3>1, MinOfNats
  <2>3. Min(hits) \in 1 .. n /\ s.windows[probe(Min(hits))].role = "NORMAL"
    BY <2>2
  <2> DEFINE k == Min(hits)
  <2>4. n > 0 /\ k \in Nat
    BY <1>1, <2>3
  <2>5. window_focus_cycle(s, dir) = window_focus(s, s.windows[probe(k)].id)
    BY <1>3 DEF window_focus_cycle, n, start
  <2> HIDE DEF k
  <2>6. dir * k \in Int
    BY <2>4
  <2>7. probe(k) \in 1 .. n
    BY <1>1, <2>1, <2>4, <2>6
  <2> QED
    BY <2>3, <2>5, <2>7 DEF k, n
<1> QED
  BY <1>2, <1>3

\* window_focus_cycle keeps the stack sound.
LEMMA CycleSound ==
  ASSUME NEW s, Sound(s), NEW dir \in {-1, 1}
  PROVE  /\ Sound(window_focus_cycle(s, dir))
         /\ window_focus_cycle(s, dir).next_id = s.next_id
  BY CycleFocuses, FocusSound

----------------------------------------------------------------------------
(* The windows of a stack without their order: window_raise, window_lower   *)
(* and window_focus only reorder, the other operations touch one window.    *)

Contents(s) == {s.windows[i] : i \in 1 .. Len(s.windows)}

\* A stack holds one window of each id, the one window_by_id finds.
LEMMA ContentsDecide ==
  ASSUME NEW s, Sound(s)
  PROVE  /\ \A id : Exists(s, id) => /\ window_by_id(s, id) \in Contents(s)
                                    /\ window_by_id(s, id).id = id
         /\ \A v \in Contents(s) : /\ v \in Window /\ v.id < s.next_id
                                  /\ Exists(s, v.id)
                                  /\ window_by_id(s, v.id) = v
<1>1. DOMAIN s.windows = 1 .. Len(s.windows) /\ s \in Stack /\ s.windows \in Seq(Window)
  BY DEF Sound, Stack
<1>2. ASSUME NEW id, Exists(s, id)
      PROVE  window_by_id(s, id) \in Contents(s) /\ window_by_id(s, id).id = id
  BY <1>1, <1>2, WindowIndexFinds DEF Contents
<1>3. ASSUME NEW v \in Contents(s)
      PROVE  /\ v \in Window /\ v.id < s.next_id
             /\ Exists(s, v.id)
             /\ window_by_id(s, v.id) = v
  <2>1. PICK i \in 1 .. Len(s.windows) : v = s.windows[i]
    BY DEF Contents
  <2>2. v \in Window /\ v.id < s.next_id /\ Exists(s, v.id)
    BY <1>1, <2>1 DEF Sound, UniqueIds, Exists
  <2>3. /\ window_index(s, v.id) \in 1 .. Len(s.windows)
        /\ s.windows[window_index(s, v.id)].id = v.id
        /\ window_by_id(s, v.id) = s.windows[window_index(s, v.id)]
    BY <1>1, <2>2, WindowIndexFinds
  <2>4. window_index(s, v.id) = i
    BY <1>1, <2>1, <2>3 DEF Sound, UniqueIds
  <2> QED
    BY <2>1, <2>2, <2>3, <2>4
<1> QED
  BY <1>2, <1>3

\* Reordering keeps the windows.
LEMMA ReorderedContents ==
  ASSUME NEW s, NEW t, NEW n \in Nat, Len(s.windows) = n, Len(t.windows) = n,
         \A j \in 1 .. n : \E k \in 1 .. n : t.windows[j] = s.windows[k],
         \A j \in 1 .. n : \E k \in 1 .. n : s.windows[j] = t.windows[k]
  PROVE  Contents(t) = Contents(s)
<1>1. ASSUME NEW k \in Contents(t)
      PROVE  k \in Contents(s)
  <2>1. PICK j \in 1 .. n : k = t.windows[j]
    BY DEF Contents
  <2> QED
    BY <2>1 DEF Contents
<1>2. ASSUME NEW k \in Contents(s)
      PROVE  k \in Contents(t)
  <2>1. PICK j \in 1 .. n : k = s.windows[j]
    BY DEF Contents
  <2> QED
    BY <2>1 DEF Contents
<1> QED
  BY <1>1, <1>2

\* window_raise.
LEMMA RaiseContents ==
  ASSUME NEW s, Sound(s), NEW id
  PROVE  Contents(window_raise(s, id)) = Contents(s)
<1>0. CASE ~Exists(s, id)
  BY <1>0 DEF window_raise
<1>1. CASE Exists(s, id)
  <2> DEFINE i == window_index(s, id)
             n == Len(s.windows)
             ws == move_to_top(s.windows, i)
             t == window_raise(s, id)
  <2>1. s \in Stack /\ s.windows \in Seq(Window) /\ n \in Nat
    BY DEF Sound, Stack
  <2>2. i \in 1 .. n
    BY <1>1, <2>1, WindowIndexFinds
  <2>3. /\ ws \in Seq(Window) /\ Len(ws) = n
        /\ \A j \in 1 .. n :
             ws[j] = IF j < i THEN s.windows[j]
                     ELSE IF j < n THEN s.windows[j + 1] ELSE s.windows[i]
    BY <2>1, <2>2, MoveToTopProperties
  <2> HIDE DEF ws, i
  <2>4. t = [s EXCEPT !.windows = ws]
    BY <1>1 DEF window_raise, ws, i
  <2> HIDE DEF t
  <2>5. t.windows = ws
    BY <2>1, <2>4 DEF Stack
  <2>6. ASSUME NEW j \in 1 .. n
        PROVE  \E k \in 1 .. n : t.windows[j] = s.windows[k]
    <3>1. CASE j < i
      BY <2>3, <2>5, <3>1
    <3>2. CASE i <= j /\ j < n
      <4>1. j + 1 \in 1 .. n /\ ws[j] = s.windows[j + 1]
        BY <2>1, <2>2, <2>3, <3>2
      <4> QED
        BY <2>5, <4>1
    <3>3. CASE j = n
      <4>1. ws[j] = s.windows[i]
        BY <2>1, <2>2, <2>3, <3>3
      <4> QED
        BY <2>2, <2>5, <4>1
    <3> QED
      BY <2>1, <2>2, <3>1, <3>2, <3>3
  <2>7. ASSUME NEW j \in 1 .. n
        PROVE  \E k \in 1 .. n : s.windows[j] = t.windows[k]
    <3>1. CASE j < i
      BY <2>3, <2>5, <3>1
    <3>2. CASE j = i
      <4>1. n \in 1 .. n /\ ws[n] = s.windows[i]
        BY <2>1, <2>2, <2>3
      <4> QED
        BY <2>5, <3>2, <4>1
    <3>3. CASE i < j
      <4>1. /\ j - 1 \in 1 .. n /\ ~(j - 1 < i) /\ j - 1 < n
            /\ (j - 1) + 1 = j
        BY <2>1, <2>2, <3>3
      <4>2. ws[j - 1] = s.windows[j]
        BY <2>3, <4>1
      <4> QED
        BY <2>5, <4>1, <4>2
    <3> QED
      BY <2>1, <2>2, <3>1, <3>2, <3>3
  <2>8. Contents(t) = Contents(s)
    <3>1. Len(s.windows) = n /\ Len(t.windows) = n
      BY <2>3, <2>5
    <3> HIDE DEF n
    <3> QED
      BY <2>1, <2>6, <2>7, <3>1, ReorderedContents
  <2> QED
    BY <2>8 DEF t
<1> QED
  BY <1>0, <1>1

\* window_lower.
LEMMA LowerContents ==
  ASSUME NEW s, Sound(s), NEW id
  PROVE  Contents(window_lower(s, id)) = Contents(s)
<1>0. CASE ~Exists(s, id)
  BY <1>0 DEF window_lower
<1>1. CASE Exists(s, id)
  <2> DEFINE i == window_index(s, id)
             n == Len(s.windows)
             ws == move_to_bottom(s.windows, i)
             t == window_lower(s, id)
  <2>1. s \in Stack /\ s.windows \in Seq(Window) /\ n \in Nat
    BY DEF Sound, Stack
  <2>2. i \in 1 .. n
    BY <1>1, <2>1, WindowIndexFinds
  <2>3. /\ ws \in Seq(Window) /\ Len(ws) = n
        /\ \A j \in 1 .. n :
             ws[j] = IF j = 1 THEN s.windows[i]
                     ELSE IF j <= i THEN s.windows[j - 1] ELSE s.windows[j]
    BY <2>1, <2>2, MoveToBottomProperties
  <2> HIDE DEF ws, i
  <2>4. t = [s EXCEPT !.windows = ws]
    BY <1>1 DEF window_lower, ws, i
  <2> HIDE DEF t
  <2>5. t.windows = ws
    BY <2>1, <2>4 DEF Stack
  <2>6. ASSUME NEW j \in 1 .. n
        PROVE  \E k \in 1 .. n : t.windows[j] = s.windows[k]
    <3>1. CASE j = 1
      BY <2>2, <2>3, <2>5, <3>1
    <3>2. CASE 1 < j /\ j <= i
      <4>1. j - 1 \in 1 .. n /\ ws[j] = s.windows[j - 1]
        BY <2>1, <2>2, <2>3, <3>2
      <4> QED
        BY <2>5, <4>1
    <3>3. CASE i < j
      <4>1. ws[j] = s.windows[j]
        BY <2>1, <2>2, <2>3, <3>3
      <4> QED
        BY <2>5, <4>1
    <3> QED
      BY <2>1, <2>2, <3>1, <3>2, <3>3
  <2>7. ASSUME NEW j \in 1 .. n
        PROVE  \E k \in 1 .. n : s.windows[j] = t.windows[k]
    <3>1. CASE j < i
      <4>1. j + 1 \in 1 .. n /\ ws[j + 1] = s.windows[j]
        BY <2>1, <2>2, <2>3, <3>1
      <4> QED
        BY <2>5, <4>1
    <3>2. CASE j = i
      <4>1. 1 \in 1 .. n /\ ws[1] = s.windows[i]
        BY <2>1, <2>2, <2>3
      <4> QED
        BY <2>5, <3>2, <4>1
    <3>3. CASE i < j
      <4>1. ws[j] = s.windows[j]
        BY <2>1, <2>2, <2>3, <3>3
      <4> QED
        BY <2>5, <4>1
    <3> QED
      BY <2>1, <2>2, <3>1, <3>2, <3>3
  <2>8. Contents(t) = Contents(s)
    <3>1. Len(s.windows) = n /\ Len(t.windows) = n
      BY <2>3, <2>5
    <3> HIDE DEF n
    <3> QED
      BY <2>1, <2>6, <2>7, <3>1, ReorderedContents
  <2> QED
    BY <2>8 DEF t
<1> QED
  BY <1>0, <1>1

\* Replacing a window in place.
LEMMA UpdateContents ==
  ASSUME NEW s, Sound(s), NEW id, Exists(s, id), NEW w \in Window, w.id = id
  PROVE  Contents(Update(s, id, w)) = (Contents(s) \ {window_by_id(s, id)}) \cup {w}
<1> DEFINE i  == window_index(s, id)
           n  == Len(s.windows)
           ws == [s.windows EXCEPT ![i] = w]
           t  == Update(s, id, w)
           old == window_by_id(s, id)
<1>1. /\ s \in Stack /\ s.windows \in Seq(Window) /\ n \in Nat
      /\ DOMAIN s.windows = 1 .. n
  BY DEF Sound, Stack
<1>2. i \in 1 .. n /\ s.windows[i].id = id /\ old = s.windows[i]
  BY <1>1, WindowIndexFinds
<1>3. t = [s EXCEPT !.windows = ws]
  BY DEF Update
<1> HIDE DEF i, old
<1>4. /\ ws \in Seq(Window) /\ Len(ws) = n
      /\ \A j \in 1 .. n : ws[j] = IF j = i THEN w ELSE s.windows[j]
  BY <1>1, <1>2
<1> HIDE DEF ws, t
<1>5. t.windows = ws
  BY <1>1, <1>3, <1>4 DEF Stack
<1>6. ASSUME NEW j \in 1 .. n, j # i
      PROVE  s.windows[j] # old
  <2>1. s.windows[j].id # s.windows[i].id
    BY <1>1, <1>2, <1>6 DEF Sound, UniqueIds
  <2> QED
    BY <1>2, <2>1
<1>7. ASSUME NEW k \in Contents(t)
      PROVE  k \in (Contents(s) \ {old}) \cup {w}
  <2>1. PICK j \in 1 .. n : k = ws[j]
    BY <1>4, <1>5 DEF Contents
  <2>2. CASE j = i
    BY <1>4, <2>1, <2>2
  <2>3. CASE j # i
    BY <1>4, <1>6, <2>1, <2>3 DEF Contents
  <2> QED
    BY <2>2, <2>3
<1>8. ASSUME NEW k \in (Contents(s) \ {old}) \cup {w}
      PROVE  k \in Contents(t)
  <2>1. CASE k = w
    <3>1. ws[i] = w /\ i \in 1 .. Len(t.windows)
      BY <1>2, <1>4, <1>5
    <3> QED
      BY <1>5, <2>1, <3>1 DEF Contents
  <2>2. CASE k \in Contents(s) /\ k # old
    <3>1. PICK j \in 1 .. n : k = s.windows[j]
      BY <2>2 DEF Contents
    <3>2. j # i
      BY <1>2, <2>2, <3>1
    <3>3. ws[j] = s.windows[j] /\ j \in 1 .. Len(t.windows)
      BY <1>4, <1>5, <3>2
    <3> QED
      BY <1>5, <3>1, <3>3 DEF Contents
  <2> QED
    BY <1>8, <2>1, <2>2
<1> QED
  BY <1>7, <1>8 DEF t, old

\* window_focus.
LEMMA FocusContents ==
  ASSUME NEW s, Sound(s), NEW id
  PROVE  Contents(window_focus(s, id)) = Contents(s)
<1>1. CASE ~Exists(s, id)
  BY <1>1 DEF window_focus
<1>2. CASE Exists(s, id)
  <2> DEFINE f == [s EXCEPT !.focus_id = id]
  <2>1. s \in Stack /\ id \in Nat
    BY <1>2, WindowIndexFinds DEF Sound
  <2>2. /\ f \in Stack /\ f.windows = s.windows
        /\ f.focus_id = id /\ f.next_id = s.next_id
    BY <2>1 DEF Stack
  <2>3. window_focus(s, id) = f \/ window_focus(s, id) = window_raise(f, id)
    BY <1>2 DEF window_focus
  <2> HIDE DEF f
  <2>4. Sound(f) /\ Contents(f) = Contents(s)
    BY <1>2, <2>2 DEF Sound, UniqueIds, FocusLive, CountBounded, Exists, Contents
  <2> QED
    BY <2>3, <2>4, RaiseContents
<1> QED
  BY <1>1, <1>2

\* window_create adds one window.
LEMMA CreateContents ==
  ASSUME NEW s, Sound(s), ~IsFull(s), NEW role \in Role, NEW r \in Rect
  PROVE  /\ Contents(window_create(s, role, r)) = Contents(s) \cup {NewWindow(s.next_id, role, r)}
         /\ Exists(window_create(s, role, r), s.next_id)
<1> DEFINE t  == window_create(s, role, r)
           nw == NewWindow(s.next_id, role, r)
           n  == Len(s.windows)
<1>1. s.windows \in Seq(Window) /\ n \in Nat
  BY DEF Sound, Stack
<1>2. t.windows = Append(s.windows, nw)
  BY CreateSound
<1>3. nw.id = s.next_id
  BY DEF NewWindow
<1> HIDE DEF t, nw
<1>4. /\ Len(t.windows) = n + 1 /\ t.windows[n + 1] = nw
      /\ DOMAIN t.windows = 1 .. n + 1
      /\ \A j \in 1 .. n : t.windows[j] = s.windows[j]
  BY <1>1, <1>2
<1>5. n + 1 \in 1 .. n + 1 /\ \A j \in 1 .. n : j \in 1 .. n + 1
  BY <1>1
<1> HIDE DEF n
<1>6. ASSUME NEW k \in Contents(t)
      PROVE  k \in Contents(s) \cup {nw}
  <2>1. PICK j \in 1 .. n + 1 : k = t.windows[j]
    BY <1>4 DEF Contents
  <2>2. j \in 1 .. n \/ j = n + 1
    BY <1>1
  <2> QED
    BY <1>4, <2>1, <2>2 DEF Contents, n
<1>7. ASSUME NEW k \in Contents(s) \cup {nw}
      PROVE  k \in Contents(t)
  <2>1. CASE k = nw
    BY <1>4, <1>5, <2>1 DEF Contents
  <2>2. CASE k \in Contents(s)
    <3>1. PICK j \in 1 .. n : k = s.windows[j]
      BY <2>2 DEF Contents, n
    <3> QED
      BY <1>4, <1>5, <3>1 DEF Contents
  <2> QED
    BY <1>7, <2>1, <2>2
<1>8. Exists(t, s.next_id)
  BY <1>3, <1>4, <1>5 DEF Exists
<1> QED
  BY <1>6, <1>7, <1>8 DEF t, nw

\* window_destroy takes one window away and no other.
LEMMA DestroyContents ==
  ASSUME NEW s, Sound(s), NEW id
  PROVE  /\ Contents(window_destroy(s, id)) = {k \in Contents(s) : k.id # id}
         /\ s.focus_id # id => window_destroy(s, id).focus_id = s.focus_id
<1>0. CASE ~Exists(s, id)
  <2>1. \A k \in Contents(s) : k.id # id
    BY <1>0 DEF Contents, Exists, Sound, Stack
  <2> QED
    BY <1>0, <2>1 DEF window_destroy
<1>1. CASE Exists(s, id)
  <2> DEFINE i == window_index(s, id)
             n == Len(s.windows)
             rest == RemoveAt(s.windows, i)
             top == IF rest = << >> THEN 0 ELSE rest[Len(rest)].id
             t == window_destroy(s, id)
  <2>1. /\ s \in Stack /\ s.windows \in Seq(Window) /\ n \in Nat
        /\ DOMAIN s.windows = 1 .. n
    BY DEF Sound, Stack
  <2>2. i \in 1 .. n /\ s.windows[i].id = id
    BY <1>1, <2>1, WindowIndexFinds
  <2>3. /\ rest \in Seq(Window) /\ Len(rest) = n - 1
        /\ \A j \in 1 .. n - 1 :
             rest[j] = IF j < i THEN s.windows[j] ELSE s.windows[j + 1]
    BY <2>1, <2>2, RemoveAtProperties
  <2>4. t = [windows |-> rest, focus_id |-> IF s.focus_id = id THEN top ELSE s.focus_id,
             next_id |-> s.next_id]
    BY <1>1 DEF window_destroy
  <2> HIDE DEF rest, i, top, t
  <2>5. t.windows = rest /\ (s.focus_id # id => t.focus_id = s.focus_id)
    BY <2>4
  <2>6. \A j \in 1 .. n : j # i => s.windows[j].id # id
    BY <2>1, <2>2 DEF Sound, UniqueIds
  <2>7. ASSUME NEW k \in Contents(t)
        PROVE  k \in Contents(s) /\ k.id # id
    <3>1. PICK j \in 1 .. n - 1 : k = rest[j]
      BY <2>3, <2>5 DEF Contents
    <3>2. PICK m \in 1 .. n : m # i /\ rest[j] = s.windows[m]
      <4>1. CASE j < i
        BY <2>1, <2>3, <4>1
      <4>2. CASE ~(j < i)
        <5>1. j + 1 \in 1 .. n /\ j + 1 # i
          BY <2>1, <2>2, <4>2
        <5> QED
          BY <2>3, <4>2, <5>1
      <4> QED
        BY <4>1, <4>2
    <3> QED
      BY <2>6, <3>1, <3>2 DEF Contents
  <2>8. ASSUME NEW k \in Contents(s), k.id # id
        PROVE  k \in Contents(t)
    <3>1. PICK j \in 1 .. n : k = s.windows[j]
      BY DEF Contents
    <3>2. j # i
      BY <2>2, <2>8, <3>1
    <3>3. PICK m \in 1 .. n - 1 : rest[m] = s.windows[j]
      <4>1. CASE j < i
        <5>1. j \in 1 .. n - 1
          BY <2>1, <2>2, <4>1
        <5> QED
          BY <2>3, <4>1, <5>1
      <4>2. CASE ~(j < i)
        <5>1. j - 1 \in 1 .. n - 1 /\ ~(j - 1 < i) /\ j - 1 + 1 = j
          BY <2>1, <2>2, <3>2, <4>2
        <5> QED
          BY <2>3, <5>1
      <4> QED
        BY <4>1, <4>2
    <3> QED
      BY <2>3, <2>5, <3>1, <3>3 DEF Contents
  <2> QED
    BY <2>5, <2>7, <2>8 DEF t
<1> QED
  BY <1>0, <1>1

----------------------------------------------------------------------------
(* The z-order: wallpapers at the bottom, the focused application above the *)
(* others, and a focus while an application is open.                        *)

Ordered(s) == DesktopsBelow(s) /\ FocusedAppOnTop(s) /\ AppsHaveFocus(s)

\* The order looks at ids, roles and the focus only.
SameShape(s, t) ==
  /\ Len(t.windows) = Len(s.windows)
  /\ t.focus_id = s.focus_id
  /\ \A i \in 1 .. Len(s.windows) : /\ t.windows[i].id = s.windows[i].id
                                    /\ t.windows[i].role = s.windows[i].role

LEMMA ShapeDecides ==
  ASSUME NEW s \in Stack, NEW t \in Stack, SameShape(s, t)
  PROVE  /\ DesktopsBelow(s) => DesktopsBelow(t)
         /\ Ordered(s) => Ordered(t)
<1>1. DOMAIN s.windows = 1 .. Len(s.windows) /\ DOMAIN t.windows = 1 .. Len(s.windows)
  BY DEF Stack, SameShape
<1>2. DesktopsBelow(s) => DesktopsBelow(t)
  BY <1>1 DEF SameShape, DesktopsBelow
<1>3. FocusedAppOnTop(s) => FocusedAppOnTop(t)
  BY <1>1 DEF SameShape, FocusedAppOnTop
<1>4. AppsHaveFocus(s) => AppsHaveFocus(t)
  BY <1>1 DEF SameShape, AppsHaveFocus
<1> QED
  BY <1>2, <1>3, <1>4 DEF Ordered

----------------------------------------------------------------------------
(* The operations that leave the shape alone.                              *)

\* Changing a window in place, whatever of it but its id and role.
LEMMA UpdateShape ==
  ASSUME NEW s, Sound(s), NEW id, Exists(s, id),
         NEW w \in Window, w.id = id, w.role = window_by_id(s, id).role
  PROVE  SameShape(s, Update(s, id, w))
<1> DEFINE i  == window_index(s, id)
           ws == [s.windows EXCEPT ![i] = w]
           t  == Update(s, id, w)
<1>1. /\ s \in Stack /\ s.windows \in Seq(Window)
      /\ DOMAIN s.windows = 1 .. Len(s.windows)
  BY DEF Sound, Stack
<1>2. /\ i \in 1 .. Len(s.windows) /\ s.windows[i].id = id
      /\ w.role = s.windows[i].role
  BY <1>1, WindowIndexFinds
<1>3. t = [s EXCEPT !.windows = ws]
  BY DEF Update
<1> HIDE DEF i
<1>4. /\ ws \in Seq(Window) /\ Len(ws) = Len(s.windows)
      /\ \A j \in 1 .. Len(s.windows) : ws[j] = IF j = i THEN w ELSE s.windows[j]
  BY <1>1, <1>2
<1> HIDE DEF ws, t
<1>5. t.windows = ws /\ t.focus_id = s.focus_id
  BY <1>1, <1>3, <1>4 DEF Stack
<1> QED
  BY <1>2, <1>4, <1>5 DEF SameShape, t

\* window_move.
LEMMA MoveShape ==
  ASSUME NEW s, Sound(s), NEW id, NEW nx \in Int, NEW ny \in Int
  PROVE  SameShape(s, window_move(s, id, nx, ny))
<1>1. CASE ~Exists(s, id)
  BY <1>1 DEF window_move, SameShape
<1>2. CASE Exists(s, id)
  <2> DEFINE w == window_by_id(s, id)
             v == [w EXCEPT !.x = nx, !.y = ny]
  <2>1. w \in Window /\ w.id = id
    BY <1>2, WindowIndexFinds DEF Sound
  <2>2. window_move(s, id, nx, ny) = Update(s, id, v)
    BY <1>2 DEF window_move
  <2> HIDE DEF w
  <2>3. v \in Window /\ v.id = id /\ v.role = w.role
    BY <2>1 DEF Window
  <2> HIDE DEF v
  <2> QED
    BY <1>2, <2>2, <2>3, UpdateShape DEF w
<1> QED
  BY <1>1, <1>2

\* window_set_geometry.
LEMMA SetGeometryShape ==
  ASSUME NEW s, Sound(s), NEW id, NEW r \in Rect
  PROVE  SameShape(s, window_set_geometry(s, id, r))
<1>1. CASE ~Exists(s, id)
  BY <1>1 DEF window_set_geometry, SameShape
<1>2. CASE Exists(s, id)
  <2> DEFINE w == window_by_id(s, id)
             nw == IF r.w > 0 THEN r.w ELSE w.w
             nh == IF r.h > 0 THEN r.h ELSE w.h
             v == [w EXCEPT !.x = r.x, !.y = r.y, !.w = nw, !.h = nh]
  <2>1. w \in Window /\ w.id = id
    BY <1>2, WindowIndexFinds DEF Sound
  <2>2. window_set_geometry(s, id, r) = Update(s, id, v)
    BY <1>2 DEF window_set_geometry
  <2> HIDE DEF w
  <2>3. r.x \in Int /\ r.y \in Int /\ nw \in Int /\ nh \in Int
    BY <2>1 DEF Window, Rect
  <2> HIDE DEF nw, nh
  <2>4. v \in Window /\ v.id = id /\ v.role = w.role
    BY <2>1, <2>3 DEF Window
  <2> HIDE DEF v
  <2> QED
    BY <1>2, <2>2, <2>4, UpdateShape DEF w
<1> QED
  BY <1>1, <1>2

----------------------------------------------------------------------------
(* The operations that move a window, or the focus.                        *)

\* window_raise of a window that is not a wallpaper keeps the wallpapers below and
\* leaves that window on top.
LEMMA RaiseTops ==
  ASSUME NEW s, Sound(s), DesktopsBelow(s), NEW id, Exists(s, id),
         window_by_id(s, id).role # "DESKTOP"
  PROVE  LET t == window_raise(s, id)
         IN  /\ DesktopsBelow(t)
             /\ Len(t.windows) = Len(s.windows)
             /\ t.windows[Len(s.windows)].id = id
<1> DEFINE i  == window_index(s, id)
           n  == Len(s.windows)
           ws == move_to_top(s.windows, i)
           t  == window_raise(s, id)
<1>1. /\ s \in Stack /\ s.windows \in Seq(Window) /\ n \in Nat
      /\ DOMAIN s.windows = 1 .. n
  BY DEF Sound, Stack
<1>2. i \in 1 .. n /\ s.windows[i].id = id /\ s.windows[i].role # "DESKTOP"
  BY <1>1, WindowIndexFinds
<1>3. /\ ws \in Seq(Window) /\ Len(ws) = n
      /\ \A j \in 1 .. n :
           ws[j] = IF j < i THEN s.windows[j]
                   ELSE IF j < n THEN s.windows[j + 1] ELSE s.windows[i]
  BY <1>1, <1>2, MoveToTopProperties
<1>4. t = [s EXCEPT !.windows = ws]
  BY DEF window_raise
<1> HIDE DEF i, ws, t
<1>5. t.windows = ws
  BY <1>1, <1>4 DEF Stack
<1>6. t.windows[n] = s.windows[i]
  BY <1>1, <1>2, <1>3, <1>5
<1>7. ASSUME NEW a \in 1 .. n, NEW b \in 1 .. n,
             t.windows[b].role = "DESKTOP", t.windows[a].role # "DESKTOP"
      PROVE  b < a
  <2>1. b < n
    BY <1>1, <1>2, <1>6, <1>7
  <2>2. CASE a = n
    BY <2>1, <2>2
  <2>3. CASE a < n
    <3> DEFINE f(j) == IF j < i THEN j ELSE j + 1
    <3>1. f(a) \in 1 .. n /\ f(b) \in 1 .. n
      BY <1>1, <1>2, <2>1, <2>3
    <3>2. t.windows[a] = s.windows[f(a)] /\ t.windows[b] = s.windows[f(b)]
      BY <1>3, <1>5, <2>1, <2>3
    <3>3. f(b) < f(a)
      <4> HIDE DEF f
      <4> QED
        BY <1>1, <1>7, <3>1, <3>2 DEF DesktopsBelow
    <3> QED
      BY <1>2, <3>3
  <2> QED
    BY <1>1, <2>2, <2>3
<1>8. DesktopsBelow(t)
  BY <1>1, <1>3, <1>5, <1>7 DEF DesktopsBelow
<1> QED
  BY <1>2, <1>3, <1>5, <1>6, <1>8 DEF t

\* window_focus restores the order of any stack whose wallpapers are below: what it
\* focuses is a wallpaper, left where it is, or the top window.
LEMMA FocusOrders ==
  ASSUME NEW s, Sound(s), DesktopsBelow(s), NEW id, Exists(s, id)
  PROVE  Ordered(window_focus(s, id))
<1> DEFINE f == [s EXCEPT !.focus_id = id]
           t == window_focus(s, id)
           n == Len(s.windows)
<1>1. /\ s \in Stack /\ n \in Nat /\ DOMAIN s.windows = 1 .. n
      /\ id \in Nat \ {0} /\ window_index(s, id) \in 1 .. n
      /\ s.windows[window_index(s, id)].id = id
      /\ window_by_id(s, id) = s.windows[window_index(s, id)]
  BY WindowIndexFinds DEF Sound, Stack
<1>2. f \in Stack /\ f.windows = s.windows /\ f.focus_id = id /\ f.next_id = s.next_id
  BY <1>1 DEF Stack
<1>3. t = IF window_by_id(s, id).role = "DESKTOP" THEN f ELSE window_raise(f, id)
  BY DEF window_focus
<1> HIDE DEF f
<1>4. /\ Sound(f) /\ Exists(f, id) /\ DesktopsBelow(f)
      /\ window_by_id(f, id) = window_by_id(s, id)
  BY <1>1, <1>2 DEF Sound, UniqueIds, FocusLive, CountBounded, Exists, DesktopsBelow,
     window_by_id, window_index
<1>5. Sound(t) /\ t.focus_id = id
  BY FocusSound
<1>6. AppsHaveFocus(t)
  BY <1>1, <1>5 DEF AppsHaveFocus
<1>7. CASE window_by_id(s, id).role = "DESKTOP"
  <2>1. t = f
    BY <1>3, <1>7
  <2>2. \A a \in 1 .. n : f.windows[a].id = id => f.windows[a].role = "DESKTOP"
    BY <1>1, <1>2, <1>7 DEF Sound, UniqueIds
  <2>3. FocusedAppOnTop(f)
    BY <1>1, <1>2, <2>2 DEF FocusedAppOnTop
  <2> QED
    BY <1>4, <1>6, <2>1, <2>3 DEF Ordered
<1>8. CASE window_by_id(s, id).role # "DESKTOP"
  <2>1. t = window_raise(f, id)
    BY <1>3, <1>8
  <2>2. DesktopsBelow(t) /\ Len(t.windows) = n /\ t.windows[n].id = id
    BY <1>2, <1>4, <1>8, <2>1, RaiseTops
  <2> HIDE DEF t
  <2>3. DOMAIN t.windows = 1 .. n /\ n \in 1 .. n
    BY <1>1, <1>5, <2>2 DEF Sound, Stack
  <2>4. FocusedAppOnTop(t)
    <3>1. ASSUME NEW a \in 1 .. n, NEW b \in 1 .. n, t.windows[a].id = id
          PROVE  b <= a
      <4>1. a = n
        BY <1>5, <2>2, <2>3, <3>1 DEF Sound, UniqueIds
      <4> QED
        BY <1>1, <4>1
    <3> QED
      BY <1>5, <2>3, <3>1 DEF FocusedAppOnTop
  <2> QED
    BY <1>6, <2>2, <2>4 DEF Ordered, t
<1> QED
  BY <1>7, <1>8

\* window_destroy keeps the order of what remains; a focus it moves goes to the top.
LEMMA DestroyOrders ==
  ASSUME NEW s, Sound(s), Ordered(s), NEW id
  PROVE  Ordered(window_destroy(s, id))
<1>0. CASE ~Exists(s, id)
  BY <1>0 DEF window_destroy
<1>1. CASE Exists(s, id)
  <2> DEFINE i    == window_index(s, id)
             n    == Len(s.windows)
             rest == RemoveAt(s.windows, i)
             top  == IF rest = << >> THEN 0 ELSE rest[Len(rest)].id
             t    == window_destroy(s, id)
             f(j) == IF j < i THEN j ELSE j + 1
  <2>1. /\ s \in Stack /\ s.windows \in Seq(Window) /\ n \in Nat
        /\ DOMAIN s.windows = 1 .. n
    BY DEF Sound, Stack
  <2>2. i \in 1 .. n /\ s.windows[i].id = id
    BY <1>1, <2>1, WindowIndexFinds
  <2>3. /\ rest \in Seq(Window) /\ Len(rest) = n - 1
        /\ \A j \in 1 .. n - 1 :
             rest[j] = IF j < i THEN s.windows[j] ELSE s.windows[j + 1]
    BY <2>1, <2>2, RemoveAtProperties
  <2>4. t = [windows |-> rest, focus_id |-> IF s.focus_id = id THEN top ELSE s.focus_id,
             next_id |-> s.next_id]
    BY <1>1 DEF window_destroy
  <2> HIDE DEF rest, i, top, t
  <2>5. /\ t.windows = rest
        /\ t.focus_id = IF s.focus_id = id THEN top ELSE s.focus_id
        /\ DOMAIN rest = 1 .. n - 1
    BY <2>1, <2>3, <2>4
  <2>6. ASSUME NEW a \in 1 .. n - 1
        PROVE  f(a) \in 1 .. n /\ rest[a] = s.windows[f(a)]
    BY <2>1, <2>2, <2>3
  <2>7. ASSUME NEW a \in 1 .. n - 1, NEW b \in 1 .. n - 1
        PROVE  (f(b) < f(a) => b < a) /\ (f(b) <= f(a) => b <= a)
    BY <2>1, <2>2
  <2> HIDE DEF f
  <2>8. DesktopsBelow(t)
    BY <2>1, <2>5, <2>6, <2>7, SMTT(30) DEF Ordered, DesktopsBelow
  <2>9. CASE s.focus_id # id
    <3>1. FocusedAppOnTop(t)
      BY <2>1, <2>5, <2>6, <2>7, <2>9 DEF Ordered, FocusedAppOnTop
    <3>2. AppsHaveFocus(t)
      BY <2>1, <2>5, <2>6, <2>9 DEF Ordered, AppsHaveFocus
    <3> QED
      BY <2>8, <3>1, <3>2 DEF Ordered, t
  <2>10. CASE s.focus_id = id
    <3>1. CASE n = 1
      <4>1. DOMAIN t.windows = {}
        BY <2>5, <3>1
      <4> QED
        BY <2>8, <4>1 DEF Ordered, FocusedAppOnTop, AppsHaveFocus, t
    <3>2. CASE n > 1
      <4>1. n - 1 \in 1 .. n - 1 /\ rest # << >>
        <5>1. n - 1 \in 1 .. n - 1
          BY <2>1, <3>2
        <5>2. rest = << >> => Len(rest) = 0
          OBVIOUS
        <5> QED
          BY <2>1, <2>3, <3>2, <5>1, <5>2
      <4>2. t.focus_id = rest[n - 1].id
        BY <2>3, <2>5, <2>10, <4>1 DEF top
      <4>3. t.focus_id \in Nat \ {0}
        <5>1. rest[n - 1] \in Window
          BY <2>3, <4>1
        <5> QED
          BY <4>2, <5>1 DEF Window
      <4>4. AppsHaveFocus(t)
        BY <4>3 DEF AppsHaveFocus
      <4>5. ASSUME NEW a \in 1 .. n - 1, NEW b \in 1 .. n - 1, rest[a].id = t.focus_id
            PROVE  b <= a
        <5>1. s.windows[f(a)].id = s.windows[f(n - 1)].id
          BY <2>6, <4>1, <4>2, <4>5
        <5>2. f(a) = f(n - 1)
          BY <2>1, <2>6, <4>1, <5>1, SMTT(30) DEF Sound, UniqueIds
        <5>3. n - 1 <= a
          <6>1. f(n - 1) <= f(a)
            BY <2>1, <2>6, <4>1, <5>2
          <6> QED
            BY <2>7, <4>1, <6>1
        <5> QED
          BY <2>1, <5>3
      <4>6. FocusedAppOnTop(t)
        BY <2>5, <4>5 DEF FocusedAppOnTop
      <4> QED
        BY <2>8, <4>4, <4>6 DEF Ordered, t
    <3>3. n = 1 \/ n > 1
      <4>1. i \in 1 .. n /\ n \in Nat
        BY <2>1, <2>2
      <4> HIDE DEF n
      <4> QED
        BY <4>1
    <3> QED
      BY <3>1, <3>2, <3>3
  <2> QED
    BY <2>9, <2>10
<1> QED
  BY <1>0, <1>1

\* window_create puts a window on top, which keeps the order unless it is an
\* application (to be focused) or a wallpaper (to be lowered).
LEMMA CreateOrders ==
  ASSUME NEW s, Sound(s), Ordered(s), ~IsFull(s), NEW role \in Role, NEW r \in Rect
  PROVE  LET t == window_create(s, role, r)
             n == Len(s.windows) + 1
         IN  /\ role # "DESKTOP" => DesktopsBelow(t)
             /\ role # "NORMAL" => FocusedAppOnTop(t) /\ AppsHaveFocus(t)
             /\ DOMAIN t.windows = 1 .. n
             /\ t.windows[n].id = s.next_id /\ t.windows[n].role = role
             /\ \A a, b \in 1 .. n : b # n /\ t.windows[b].role = "DESKTOP"
                                     /\ t.windows[a].role # "DESKTOP" => b < a
<1> DEFINE t  == window_create(s, role, r)
           nw == NewWindow(s.next_id, role, r)
           n  == Len(s.windows) + 1
<1>1. /\ s \in Stack /\ s.windows \in Seq(Window) /\ Len(s.windows) \in Nat
      /\ DOMAIN s.windows = 1 .. Len(s.windows) /\ s.next_id \in Nat \ {0}
  BY DEF Sound, Stack
<1>2. t.windows = Append(s.windows, nw) /\ t.focus_id = s.focus_id
  BY CreateSound
<1>3. nw.id = s.next_id /\ nw.role = role
  BY DEF NewWindow
<1> HIDE DEF t, nw
<1>4. /\ DOMAIN t.windows = 1 .. n /\ t.windows[n] = nw
      /\ \A j \in 1 .. Len(s.windows) : t.windows[j] = s.windows[j]
  BY <1>1, <1>2
<1>5. s.focus_id # s.next_id
  BY <1>1 DEF Sound, FocusLive, Exists, UniqueIds
<1>6. ASSUME NEW a \in 1 .. n, NEW b \in 1 .. n,
             b # n, t.windows[b].role = "DESKTOP", t.windows[a].role # "DESKTOP"
      PROVE  b < a
  <2>1. b \in 1 .. Len(s.windows)
    BY <1>1, <1>6
  <2>2. CASE a = n
    BY <1>1, <2>1, <2>2
  <2>3. CASE a # n
    <3>1. a \in 1 .. Len(s.windows)
      BY <1>1, <2>3
    <3> QED
      BY <1>1, <1>4, <1>6, <2>1, <3>1 DEF Ordered, DesktopsBelow
  <2> QED
    BY <2>2, <2>3
<1>7. role # "DESKTOP" => DesktopsBelow(t)
  BY <1>3, <1>4, <1>6 DEF DesktopsBelow
<1>8. role # "NORMAL" => FocusedAppOnTop(t)
  BY <1>1, <1>2, <1>3, <1>4, <1>5 DEF Ordered, FocusedAppOnTop
<1>9. role # "NORMAL" => AppsHaveFocus(t)
  BY <1>1, <1>2, <1>3, <1>4 DEF Ordered, AppsHaveFocus
<1> QED
  BY <1>3, <1>4, <1>6, <1>7, <1>8, <1>9 DEF t

\* window_lower of a wallpaper that is anywhere in an ordered stack.
LEMMA LowerOrders ==
  ASSUME NEW s, Sound(s), FocusedAppOnTop(s), AppsHaveFocus(s),
         NEW i \in 1 .. Len(s.windows), s.windows[i].role = "DESKTOP",
         \A a, b \in 1 .. Len(s.windows) :
           b # i /\ s.windows[b].role = "DESKTOP" /\ s.windows[a].role # "DESKTOP" => b < a
  PROVE  Ordered(window_lower(s, s.windows[i].id))
<1> DEFINE id == s.windows[i].id
           n  == Len(s.windows)
           ws == move_to_bottom(s.windows, i)
           t  == window_lower(s, id)
           f(j) == IF j <= i THEN j - 1 ELSE j
<1>1. /\ s \in Stack /\ s.windows \in Seq(Window) /\ n \in Nat
      /\ DOMAIN s.windows = 1 .. n
  BY DEF Sound, Stack
<1>2. Exists(s, id) /\ window_index(s, id) = i
  <2>1. Exists(s, id)
    BY <1>1 DEF Exists
  <2>2. /\ window_index(s, id) \in 1 .. n
        /\ s.windows[window_index(s, id)].id = s.windows[i].id
    BY <1>1, <2>1, WindowIndexFinds
  <2> QED
    BY <1>1, <2>1, <2>2 DEF Sound, UniqueIds
<1>3. /\ ws \in Seq(Window) /\ Len(ws) = n
      /\ \A j \in 1 .. n :
           ws[j] = IF j = 1 THEN s.windows[i]
                   ELSE IF j <= i THEN s.windows[j - 1] ELSE s.windows[j]
  BY <1>1, MoveToBottomProperties
<1>4. t = [s EXCEPT !.windows = ws]
  BY <1>2 DEF window_lower
<1> HIDE DEF ws, t, id
<1>5. t.windows = ws /\ t.focus_id = s.focus_id /\ DOMAIN ws = 1 .. n
  BY <1>1, <1>3, <1>4 DEF Stack
<1>6. ASSUME NEW a \in 2 .. n
      PROVE  f(a) \in 1 .. n /\ f(a) # i /\ ws[a] = s.windows[f(a)]
  BY <1>1, <1>3
<1>7. ASSUME NEW a \in 2 .. n, NEW b \in 2 .. n
      PROVE  (f(b) < f(a) => b < a) /\ (f(b) <= f(a) => b <= a)
  BY <1>1
<1> HIDE DEF f
<1>8. ASSUME NEW a \in 1 .. n
      PROVE  (a = 1 /\ ws[a].role = "DESKTOP") \/ a \in 2 .. n
  BY <1>1, <1>3
<1>9. DesktopsBelow(t)
  <2>1. ASSUME NEW a \in 1 .. n, NEW b \in 1 .. n,
               ws[b].role = "DESKTOP", ws[a].role # "DESKTOP"
        PROVE  b < a
    <3>1. a \in 2 .. n
      BY <1>8, <2>1
    <3>2. CASE b = 1
      BY <3>1, <3>2
    <3>3. CASE b \in 2 .. n
      BY <1>6, <1>7, <2>1, <3>1, <3>3
    <3> QED
      BY <1>8, <3>2, <3>3
  <2> QED
    BY <1>5, <2>1 DEF DesktopsBelow
<1>10. FocusedAppOnTop(t)
  <2>1. ASSUME NEW a \in 1 .. n, NEW b \in 1 .. n,
               ws[a].id = s.focus_id, ws[a].role = "NORMAL", ws[b].role = "NORMAL"
        PROVE  b <= a
    <3>1. a \in 2 .. n /\ b \in 2 .. n
      BY <1>8, <2>1
    <3>2. f(b) <= f(a)
      BY <1>1, <1>6, <2>1, <3>1 DEF FocusedAppOnTop
    <3> QED
      BY <1>7, <3>1, <3>2
  <2> QED
    BY <1>5, <2>1 DEF FocusedAppOnTop
<1>11. AppsHaveFocus(t)
  <2>1. ASSUME NEW a \in 1 .. n, s.focus_id = 0
        PROVE  ws[a].role # "NORMAL"
    BY <1>1, <1>6, <1>8, <2>1 DEF AppsHaveFocus
  <2> QED
    BY <1>5, <2>1 DEF AppsHaveFocus
<1> QED
  BY <1>9, <1>10, <1>11 DEF Ordered, t, id

\* Alt-Tab.
LEMMA CycleOrders ==
  ASSUME NEW s, Sound(s), Ordered(s), NEW dir \in {-1, 1}
  PROVE  Ordered(window_focus_cycle(s, dir))
<1>1. CASE window_focus_cycle(s, dir) = s
  BY <1>1
<1>2. ASSUME NEW i \in 1 .. Len(s.windows),
             window_focus_cycle(s, dir) = window_focus(s, s.windows[i].id)
      PROVE  Ordered(window_focus_cycle(s, dir))
  <2>1. Exists(s, s.windows[i].id)
    BY DEF Sound, Stack, Exists
  <2>2. DesktopsBelow(s)
    BY DEF Ordered
  <2> QED
    BY <1>2, <2>1, <2>2, FocusOrders
<1> QED
  BY <1>1, <1>2, CycleFocuses

----------------------------------------------------------------------------
(* One window changed in place.                                            *)

\* v is w at another place or of another size.
SameButRect(w, v) ==
  /\ v \in Window /\ v.id = w.id /\ v.role = w.role /\ v.buf = w.buf
  /\ v.snapped = w.snapped /\ v.saved = w.saved /\ v.app_decorated = w.app_decorated

\* The windows of t are those of s with v in the place of w.
Swapped(s, t, w, v) == Contents(t) = (Contents(s) \ {w}) \cup {v}

\* Of two stacks that differ in one window, the others have other ids.
LEMMA SwappedLeaves ==
  ASSUME NEW s, Sound(s), NEW t, NEW w \in Contents(s), NEW v, v.id = w.id, Swapped(s, t, w, v)
  PROVE  /\ v \in Contents(t)
         /\ \A u \in Contents(t) : u = v \/ (u \in Contents(s) /\ u.id # w.id)
<1>1. \A u \in Contents(s) : u.id = w.id => u = w
  BY ContentsDecide
<1> QED
  BY <1>1 DEF Swapped

\* It is under the point.
LEMMA WindowAtHits ==
  ASSUME NEW s \in Stack, Sound(s), NEW gx \in Int, NEW gy \in Int, window_at(s, gx, gy) # 0
  PROVE  /\ Exists(s, window_at(s, gx, gy))
         /\ InRect(window_by_id(s, window_at(s, gx, gy)), gx, gy)
<1> DEFINE n    == Len(s.windows)
           hits == {i \in 1 .. n : InRect(s.windows[i], gx, gy)}
           w    == s.windows[Max(hits)]
<1>1. n \in Nat /\ DOMAIN s.windows = 1 .. n
  BY DEF Stack
<1>2. hits # {} /\ window_at(s, gx, gy) = w.id
  BY <1>1 DEF window_at
<1>3. Max(hits) \in hits
  <2> HIDE DEF hits, n
  <2>1. hits \subseteq 1 .. n
    BY DEF hits
  <2> QED
    BY <1>1, <1>2, <2>1, MaxOfPositions
<1>4. w \in Contents(s) /\ InRect(w, gx, gy)
  BY <1>3 DEF Contents
<1> QED
  BY <1>2, <1>4, ContentsDecide

\* The top window is the one that is hit.
LEMMA TopHits ==
  ASSUME NEW s \in Stack, NEW gx \in Int, NEW gy \in Int, s.windows # << >>,
         InRect(s.windows[Len(s.windows)], gx, gy)
  PROVE  window_at(s, gx, gy) = s.windows[Len(s.windows)].id
<1> DEFINE n    == Len(s.windows)
           hits == {i \in 1 .. n : InRect(s.windows[i], gx, gy)}
<1>1. n \in Nat /\ n > 0 /\ DOMAIN s.windows = 1 .. n
  BY DEF Stack
<1>2. n \in hits
  BY <1>1
<1>3. window_at(s, gx, gy) = s.windows[Max(hits)].id
  BY <1>1, <1>2 DEF window_at
<1>4. hits \subseteq 1 .. n
  OBVIOUS
<1> HIDE DEF hits, n
<1>5. Max(hits) \in 1 .. n /\ Max(hits) >= n
  BY <1>1, <1>2, <1>4, MaxOfPositions
<1>6. Max(hits) = n
  BY <1>1, <1>5
<1> QED
  BY <1>3, <1>6 DEF n

\* An application that is focused is on top.
LEMMA FocusedOnTop ==
  ASSUME NEW s, Sound(s), NEW id, Exists(s, id), window_by_id(s, id).role # "DESKTOP"
  PROVE  LET t == window_focus(s, id)
         IN  t.windows # << >> /\ t.windows[Len(t.windows)] = window_by_id(s, id)
<1> DEFINE f  == [s EXCEPT !.focus_id = id]
           i  == window_index(s, id)
           n  == Len(s.windows)
           ws == move_to_top(s.windows, i)
<1>1. s \in Stack /\ n \in Nat /\ s.windows \in Seq(Window) /\ id \in Nat
  BY WindowIndexFinds DEF Sound, Stack
<1>2. i \in 1 .. n /\ window_by_id(s, id) = s.windows[i]
  BY <1>1, WindowIndexFinds
<1>3. Len(ws) = n /\ ws \in Seq(Window) /\ ws[n] = s.windows[i]
  <2>1. /\ ws \in Seq(Window) /\ Len(ws) = n
        /\ \A j \in 1 .. n :
             ws[j] = IF j < i THEN s.windows[j] ELSE IF j < n THEN s.windows[j + 1] ELSE s.windows[i]
    BY <1>1, <1>2, MoveToTopProperties
  <2> HIDE DEF ws, i, n
  <2>2. n \in 1 .. n /\ ~(n < i) /\ ~(n < n)
    BY <1>1, <1>2
  <2> QED
    BY <2>1, <2>2
<1>4. f \in Stack /\ f.windows = s.windows
  BY <1>1, OneField
<1>5. Exists(f, id) /\ window_index(f, id) = i
  BY <1>4 DEF Exists, window_index
<1>6. window_focus(s, id) = window_raise(f, id)
  BY DEF window_focus
<1> HIDE DEF f
<1>7. window_raise(f, id) = [f EXCEPT !.windows = ws]
  BY <1>4, <1>5 DEF window_raise
<1> HIDE DEF ws, i, n
<1>8. window_focus(s, id).windows = ws
  BY <1>3, <1>4, <1>6, <1>7, OneField
<1> QED
  BY <1>1, <1>2, <1>3, <1>8

\* window_move, to a place of its own.
LEMMA MoveContents ==
  ASSUME NEW s, Sound(s), NEW id, Exists(s, id), NEW nx \in Int, NEW ny \in Int
  PROVE  \E v : /\ SameButRect(window_by_id(s, id), v)
                /\ v.x = nx /\ v.y = ny
                /\ v.w = window_by_id(s, id).w /\ v.h = window_by_id(s, id).h
                /\ Swapped(s, window_move(s, id, nx, ny), window_by_id(s, id), v)
<1> DEFINE w == window_by_id(s, id)
           v == [w EXCEPT !.x = nx, !.y = ny]
<1>1. w \in Window /\ w.id = id
  BY WindowIndexFinds DEF Sound
<1>2. window_move(s, id, nx, ny) = Update(s, id, v)
  BY DEF window_move
<1> HIDE DEF w
<1>3. SameButRect(w, v) /\ v.x = nx /\ v.y = ny /\ v.w = w.w /\ v.h = w.h
  BY <1>1 DEF Window, SameButRect
<1> HIDE DEF v
<1>4. Swapped(s, Update(s, id, v), w, v)
  BY <1>1, <1>3, UpdateContents DEF w, SameButRect, Swapped
<1> QED
  BY <1>2, <1>3, <1>4 DEF w

\* window_set_geometry: a size that is not positive is not taken over.
LEMMA GeometryContents ==
  ASSUME NEW s, Sound(s), NEW id, Exists(s, id), NEW r \in Rect
  PROVE  \E v : /\ SameButRect(window_by_id(s, id), v)
                /\ v.x = r.x /\ v.y = r.y
                /\ v.w = IF r.w > 0 THEN r.w ELSE window_by_id(s, id).w
                /\ v.h = IF r.h > 0 THEN r.h ELSE window_by_id(s, id).h
                /\ Swapped(s, window_set_geometry(s, id, r), window_by_id(s, id), v)
<1> DEFINE w  == window_by_id(s, id)
           x  == r.x
           y  == r.y
           nw == IF r.w > 0 THEN r.w ELSE w.w
           nh == IF r.h > 0 THEN r.h ELSE w.h
           v  == [w EXCEPT !.x = x, !.y = y, !.w = nw, !.h = nh]
<1>1. w \in Window /\ w.id = id
  BY WindowIndexFinds DEF Sound
<1>2. window_set_geometry(s, id, r) = Update(s, id, v)
  BY DEF window_set_geometry
<1> HIDE DEF w
<1>3. x \in Int /\ y \in Int /\ nw \in Int /\ nh \in Int
  BY <1>1 DEF Window, Rect
<1> HIDE DEF x, y, nw, nh
<1>4. SameButRect(w, v) /\ v.x = x /\ v.y = y /\ v.w = nw /\ v.h = nh
  BY <1>1, <1>3 DEF Window, SameButRect
<1> HIDE DEF v
<1>5. Swapped(s, Update(s, id, v), w, v)
  BY <1>1, <1>4, UpdateContents DEF w, SameButRect, Swapped
<1> QED
  BY <1>2, <1>4, <1>5 DEF w, x, y, nw, nh

----------------------------------------------------------------------------
(* A window created for a client of the CrystallineLattice transport, which *)
(* decorates itself.                                                        *)

ClientWindow(s, role, r) ==
  LET t == window_create(s, role, r)
  IN  Update(t, s.next_id, [window_by_id(t, s.next_id) EXCEPT !.app_decorated = TRUE])

\* One more window, without a buffer, under the next id.
LEMMA ClientWindowCreates ==
  ASSUME NEW s, Sound(s), ~IsFull(s), NEW role \in Role, NEW r \in Rect
  PROVE  LET t == ClientWindow(s, role, r)
         IN  /\ Sound(t) /\ Exists(t, s.next_id)
             /\ t.next_id = s.next_id + 1 /\ t.focus_id = s.focus_id
             /\ SameShape(window_create(s, role, r), t)
             /\ \E v \in Window : /\ v.id = s.next_id /\ v.role = role /\ v.buf = 0
                                  /\ v.app_decorated /\ ~v.snapped
                                  /\ Contents(t) = Contents(s) \cup {v}
                                  /\ window_by_id(t, s.next_id) = v
<1> DEFINE id == s.next_id
           t  == window_create(s, role, r)
           nw == NewWindow(id, role, r)
           v  == [window_by_id(t, id) EXCEPT !.app_decorated = TRUE]
           u  == ClientWindow(s, role, r)
<1>1. /\ Sound(t) /\ t.next_id = id + 1 /\ t.focus_id = s.focus_id
      /\ Exists(t, id) /\ nw \in Window
      /\ Contents(t) = Contents(s) \cup {nw}
  BY CreateSound, CreateContents
<1>2. nw.id = id /\ nw.role = role /\ nw.buf = 0 /\ ~nw.snapped
  BY DEF NewWindow
<1>3. u = Update(t, id, v)
  BY DEF ClientWindow
<1>4. id \in Nat \ {0} /\ \A z \in Contents(s) : z.id # id
  <2>1. id \in Nat \ {0}
    BY DEF Sound, Stack
  <2>2. ASSUME NEW z \in Contents(s) PROVE z.id # id
    <3>1. z.id < id /\ z.id \in Nat
      BY ContentsDecide DEF Window
    <3> QED
      BY <2>1, <3>1
  <2> QED
    BY <2>1, <2>2
<1> HIDE DEF t, nw, u, id
<1>5. window_by_id(t, id) = nw
  BY <1>1, <1>2, ContentsDecide
<1>6. v \in Window /\ v.id = id /\ v.role = role /\ v.buf = 0 /\ v.app_decorated /\ ~v.snapped
  BY <1>1, <1>2, <1>5 DEF Window
<1> HIDE DEF v
<1>7. Sound(u) /\ SameIds(t, u) /\ u.next_id = t.next_id /\ u.focus_id = t.focus_id
  BY <1>1, <1>3, <1>6, UpdateSound
<1>8. SameShape(t, u)
  BY <1>1, <1>2, <1>3, <1>5, <1>6, UpdateShape
<1>9. Contents(u) = Contents(s) \cup {v}
  <2>1. Contents(u) = (Contents(t) \ {nw}) \cup {v}
    BY <1>1, <1>3, <1>5, <1>6, UpdateContents
  <2> QED
    BY <1>1, <1>2, <1>4, <2>1
<1>10. Exists(u, id) /\ window_by_id(u, id) = v
  BY <1>6, <1>7, <1>9, ContentsDecide
<1> QED
  BY <1>1, <1>6, <1>7, <1>8, <1>9, <1>10 DEF t, u, id

\* It keeps the order once it is focused (an application) or lowered (a wallpaper).
LEMMA ClientWindowOrders ==
  ASSUME NEW s, Sound(s), Ordered(s), ~IsFull(s), NEW role \in Role, NEW r \in Rect,
         NEW full \in Rect
  PROVE  LET t == ClientWindow(s, role, r)
         IN  /\ role = "NORMAL" => Ordered(window_focus(t, s.next_id))
             /\ role = "DESKTOP" =>
                  Ordered(window_lower(window_set_geometry(t, s.next_id, full), s.next_id))
             /\ role \notin {"NORMAL", "DESKTOP"} => Ordered(t)
<1> DEFINE id == s.next_id
           n  == Len(s.windows) + 1
           s1 == window_create(s, role, r)
           s2 == ClientWindow(s, role, r)
           s3 == window_set_geometry(s2, id, full)
<1>1. /\ Sound(s1)
      /\ role # "DESKTOP" => DesktopsBelow(s1)
      /\ role # "NORMAL" => FocusedAppOnTop(s1) /\ AppsHaveFocus(s1)
      /\ DOMAIN s1.windows = 1 .. n
      /\ s1.windows[n].id = id /\ s1.windows[n].role = role
      /\ \A a, b \in 1 .. n : b # n /\ s1.windows[b].role = "DESKTOP"
                              /\ s1.windows[a].role # "DESKTOP" => b < a
  BY CreateSound, CreateOrders
<1>2. Sound(s2) /\ SameShape(s1, s2) /\ Exists(s2, id)
  BY ClientWindowCreates
<1>3. n \in 1 .. n
  BY DEF Sound, Stack
<1> HIDE DEF s1, id, s2
<1>4. Sound(s3) /\ SameShape(s2, s3)
  BY <1>2, SetGeometrySound, SetGeometryShape
<1> HIDE DEF s3
<1>5. CASE role = "NORMAL"
  <2>1. DesktopsBelow(s2)
    BY <1>1, <1>2, <1>5, ShapeDecides DEF Sound
  <2>2. Ordered(window_focus(s2, id))
    BY <1>2, <2>1, FocusOrders
  <2> QED
    BY <1>5, <2>2 DEF s2, id
<1>6. CASE role = "DESKTOP"
  <2>1. /\ FocusedAppOnTop(s3) /\ AppsHaveFocus(s3)
        /\ Len(s3.windows) = n /\ DOMAIN s3.windows = 1 .. n
        /\ s3.windows[n].id = id /\ s3.windows[n].role = "DESKTOP"
        /\ \A a, b \in 1 .. n : b # n /\ s3.windows[b].role = "DESKTOP"
                                /\ s3.windows[a].role # "DESKTOP" => b < a
    <3>1. /\ Len(s1.windows) = n /\ Len(s2.windows) = n /\ Len(s3.windows) = n
          /\ DOMAIN s3.windows = 1 .. n
      BY <1>1, <1>2, <1>4 DEF Sound, Stack, SameShape
    <3> HIDE DEF n
    <3>2. /\ s3.focus_id = s1.focus_id
          /\ \A j \in 1 .. n : /\ s3.windows[j].id = s1.windows[j].id
                               /\ s3.windows[j].role = s1.windows[j].role
      BY <1>2, <1>4, <3>1 DEF SameShape
    <3>3. FocusedAppOnTop(s3) /\ AppsHaveFocus(s3)
      BY <1>1, <1>6, <3>1, <3>2 DEF FocusedAppOnTop, AppsHaveFocus
    <3> QED
      BY <1>1, <1>3, <1>6, <3>1, <3>2, <3>3
  <2>2. Ordered(window_lower(s3, id))
    BY <1>3, <1>4, <2>1, LowerOrders
  <2> QED
    BY <1>6, <2>2 DEF s3, s2, id
<1>7. CASE role \notin {"NORMAL", "DESKTOP"}
  <2>1. Ordered(s1)
    BY <1>1, <1>7 DEF Ordered
  <2>2. Ordered(s2)
    BY <1>1, <1>2, <2>1, ShapeDecides DEF Sound
  <2> QED
    BY <1>7, <2>2 DEF s2
<1> QED
  BY <1>5, <1>6, <1>7

----------------------------------------------------------------------------
(* The order of the windows other than the one that moves.                 *)

\* Windows of both stacks, m apart, are in the same order in both.
KeepsOrder(s, t, m) ==
  \A a, b \in Nat \ {m} :
    Exists(s, a) /\ Exists(s, b) /\ Exists(t, a) /\ Exists(t, b) =>
      (window_index(s, a) < window_index(s, b) <=> window_index(t, a) < window_index(t, b))

\* Every window of t that s has, m apart, is at position p[j] of s, and p keeps the order.
LEMMA OrderedPositions ==
  ASSUME NEW s, Sound(s), NEW t, Sound(t), NEW m, NEW p,
         \A j \in 1 .. Len(t.windows) : t.windows[j].id # m /\ Exists(s, t.windows[j].id) =>
           p[j] \in 1 .. Len(s.windows) /\ s.windows[p[j]].id = t.windows[j].id,
         \A j, k \in 1 .. Len(t.windows) :
           /\ t.windows[j].id # m /\ Exists(s, t.windows[j].id)
           /\ t.windows[k].id # m /\ Exists(s, t.windows[k].id)
           => (j < k <=> p[j] < p[k])
  PROVE  KeepsOrder(s, t, m)
<1> SUFFICES ASSUME NEW a \in Nat \ {m}, NEW b \in Nat \ {m},
                    Exists(s, a), Exists(s, b), Exists(t, a), Exists(t, b)
             PROVE  window_index(s, a) < window_index(s, b) <=>
                    window_index(t, a) < window_index(t, b)
  BY DEF KeepsOrder
<1>1. ASSUME NEW c \in Nat \ {m}, Exists(s, c), Exists(t, c)
      PROVE  /\ window_index(t, c) \in 1 .. Len(t.windows)
             /\ t.windows[window_index(t, c)].id = c
             /\ p[window_index(t, c)] = window_index(s, c)
  <2>1. /\ window_index(t, c) \in 1 .. Len(t.windows)
        /\ t.windows[window_index(t, c)].id = c
        /\ window_index(s, c) \in 1 .. Len(s.windows)
        /\ s.windows[window_index(s, c)].id = c
    BY <1>1, WindowIndexFinds DEF Sound
  <2>2. /\ p[window_index(t, c)] \in 1 .. Len(s.windows)
        /\ s.windows[p[window_index(t, c)]].id = c
    BY <1>1, <2>1
  <2>3. DOMAIN s.windows = 1 .. Len(s.windows)
    BY DEF Sound, Stack
  <2> QED
    BY <2>1, <2>2, <2>3 DEF Sound, UniqueIds
<1> QED
  BY <1>1

\* Changing windows in place moves none.
LEMMA ShapeKeepsOrder ==
  ASSUME NEW s, Sound(s), NEW t, Sound(t), SameShape(s, t)
  PROVE  \A m : KeepsOrder(s, t, m)
<1> DEFINE p == [j \in 1 .. Len(s.windows) |-> j]
<1> SUFFICES ASSUME NEW m
             PROVE  KeepsOrder(s, t, m)
  OBVIOUS
<1>1. /\ Len(t.windows) = Len(s.windows)
      /\ \A j \in 1 .. Len(s.windows) : t.windows[j].id = s.windows[j].id
  BY DEF SameShape, Sound, Stack
<1>2. \A j \in 1 .. Len(t.windows) : p[j] = j
  BY <1>1
<1> HIDE DEF p
<1>3. \A j \in 1 .. Len(t.windows) :
        t.windows[j].id # m /\ Exists(s, t.windows[j].id) =>
          p[j] \in 1 .. Len(s.windows) /\ s.windows[p[j]].id = t.windows[j].id
  BY <1>1, <1>2
<1>4. \A j, k \in 1 .. Len(t.windows) : j < k <=> p[j] < p[k]
  BY <1>2
<1> QED
  BY <1>3, <1>4, OrderedPositions

\* window_raise moves its window alone.
LEMMA RaiseKeepsOrder ==
  ASSUME NEW s, Sound(s), NEW id
  PROVE  KeepsOrder(s, window_raise(s, id), id)
<1>1. CASE ~Exists(s, id)
  BY <1>1 DEF window_raise, KeepsOrder
<1>2. CASE Exists(s, id)
  <2> DEFINE i  == window_index(s, id)
             n  == Len(s.windows)
             ws == move_to_top(s.windows, i)
             t  == window_raise(s, id)
             p  == [j \in 1 .. n |-> IF j < i THEN j ELSE IF j < n THEN j + 1 ELSE i]
  <2>1. s \in Stack /\ n \in Nat /\ s.windows \in Seq(Window)
    BY DEF Sound, Stack
  <2>2. i \in 1 .. n /\ s.windows[i].id = id
    BY <1>2, <2>1, WindowIndexFinds
  <2>3. /\ ws \in Seq(Window) /\ Len(ws) = n
        /\ \A j \in 1 .. n :
             ws[j] = IF j < i THEN s.windows[j] ELSE IF j < n THEN s.windows[j + 1] ELSE s.windows[i]
    BY <2>1, <2>2, MoveToTopProperties
  <2>4. t = [s EXCEPT !.windows = ws]
    BY <1>2 DEF window_raise
  <2>5. Sound(t)
    BY RaiseSound
  <2> HIDE DEF i, ws, t
  <2>6. t.windows = ws
    BY <2>1, <2>3, <2>4, OneField
  <2>7. \A j \in 1 .. n : p[j] \in 1 .. n /\ t.windows[j] = s.windows[p[j]]
    BY <2>1, <2>2, <2>3, <2>6
  <2>8. t.windows[n].id = id
    BY <2>1, <2>2, <2>3, <2>6
  <2>9. \A j, k \in 1 .. n : j # n /\ k # n => (j < k <=> p[j] < p[k])
    BY <2>1, <2>2
  <2> HIDE DEF p, n
  <2>10. Len(t.windows) = n
    BY <2>3, <2>6
  <2> QED
    BY <2>5, <2>7, <2>8, <2>9, <2>10, OrderedPositions DEF n, t
<1> QED
  BY <1>1, <1>2

\* window_lower moves its window alone.
LEMMA LowerKeepsOrder ==
  ASSUME NEW s, Sound(s), NEW id
  PROVE  KeepsOrder(s, window_lower(s, id), id)
<1>1. CASE ~Exists(s, id)
  BY <1>1 DEF window_lower, KeepsOrder
<1>2. CASE Exists(s, id)
  <2> DEFINE i  == window_index(s, id)
             n  == Len(s.windows)
             ws == move_to_bottom(s.windows, i)
             t  == window_lower(s, id)
             p  == [j \in 1 .. n |-> IF j = 1 THEN i ELSE IF j <= i THEN j - 1 ELSE j]
  <2>1. s \in Stack /\ n \in Nat /\ s.windows \in Seq(Window)
    BY DEF Sound, Stack
  <2>2. i \in 1 .. n /\ s.windows[i].id = id
    BY <1>2, <2>1, WindowIndexFinds
  <2>3. /\ ws \in Seq(Window) /\ Len(ws) = n
        /\ \A j \in 1 .. n :
             ws[j] = IF j = 1 THEN s.windows[i] ELSE IF j <= i THEN s.windows[j - 1] ELSE s.windows[j]
    BY <2>1, <2>2, MoveToBottomProperties
  <2>4. t = [s EXCEPT !.windows = ws]
    BY <1>2 DEF window_lower
  <2>5. Sound(t)
    BY LowerSound
  <2> HIDE DEF i, ws, t
  <2>6. t.windows = ws
    BY <2>1, <2>3, <2>4, OneField
  <2>7. \A j \in 1 .. n : p[j] \in 1 .. n /\ t.windows[j] = s.windows[p[j]]
    BY <2>1, <2>2, <2>3, <2>6
  <2>8. t.windows[1].id = id
    BY <2>1, <2>2, <2>3, <2>6
  <2>9. \A j, k \in 1 .. n : j # 1 /\ k # 1 => (j < k <=> p[j] < p[k])
    BY <2>1, <2>2
  <2> HIDE DEF p, n
  <2>10. Len(t.windows) = n
    BY <2>3, <2>6
  <2> QED
    BY <2>5, <2>7, <2>8, <2>9, <2>10, OrderedPositions DEF n, t
<1> QED
  BY <1>1, <1>2

\* window_focus raises its window or none.
LEMMA FocusKeepsOrder ==
  ASSUME NEW s, Sound(s), NEW id
  PROVE  KeepsOrder(s, window_focus(s, id), id)
<1>1. CASE ~Exists(s, id)
  BY <1>1 DEF window_focus, KeepsOrder
<1>2. CASE Exists(s, id)
  <2> DEFINE f == [s EXCEPT !.focus_id = id]
  <2>1. s \in Stack /\ id \in Nat
    BY <1>2, WindowIndexFinds DEF Sound
  <2>2. f \in Stack /\ f.windows = s.windows /\ f.focus_id = id /\ f.next_id = s.next_id
    BY <2>1, OneField
  <2>3. window_focus(s, id) \in {f, window_raise(f, id)}
    BY <1>2 DEF window_focus
  <2> HIDE DEF f
  <2>4. Sound(f)
    BY <1>2, <2>2 DEF Sound, UniqueIds, FocusLive, CountBounded, Exists
  <2>5. KeepsOrder(f, window_raise(f, id), id)
    BY <2>4, RaiseKeepsOrder
  <2>6. \A t : KeepsOrder(f, t, id) => KeepsOrder(s, t, id)
    <3>1. \A c : (Exists(f, c) <=> Exists(s, c)) /\ window_index(f, c) = window_index(s, c)
      BY <2>2 DEF Exists, window_index
    <3> QED
      BY <3>1 DEF KeepsOrder
  <2>7. KeepsOrder(f, f, id)
    BY DEF KeepsOrder
  <2> QED
    BY <2>3, <2>5, <2>6, <2>7
<1> QED
  BY <1>1, <1>2

\* window_destroy closes the gap.
LEMMA DestroyKeepsOrder ==
  ASSUME NEW s, Sound(s), NEW id
  PROVE  \A m : KeepsOrder(s, window_destroy(s, id), m)
<1> SUFFICES ASSUME NEW m
             PROVE  KeepsOrder(s, window_destroy(s, id), m)
  OBVIOUS
<1>1. CASE ~Exists(s, id)
  BY <1>1 DEF window_destroy, KeepsOrder
<1>2. CASE Exists(s, id)
  <2> DEFINE i  == window_index(s, id)
             n  == Len(s.windows)
             ws == RemoveAt(s.windows, i)
             t  == window_destroy(s, id)
             p  == [j \in 1 .. n - 1 |-> IF j < i THEN j ELSE j + 1]
  <2>1. s \in Stack /\ n \in Nat /\ s.windows \in Seq(Window)
    BY DEF Sound, Stack
  <2>2. i \in 1 .. n
    BY <1>2, <2>1, WindowIndexFinds
  <2>3. /\ ws \in Seq(Window) /\ Len(ws) = n - 1
        /\ \A j \in 1 .. n - 1 : ws[j] = IF j < i THEN s.windows[j] ELSE s.windows[j + 1]
    BY <2>1, <2>2, RemoveAtProperties
  <2>4. t.windows = ws
    BY <1>2 DEF window_destroy
  <2>5. Sound(t)
    BY DestroySound
  <2> HIDE DEF i, ws, t
  <2>6. \A j \in 1 .. n - 1 : p[j] \in 1 .. n /\ t.windows[j] = s.windows[p[j]]
    BY <2>1, <2>2, <2>3, <2>4
  <2>7. \A j, k \in 1 .. n - 1 : j < k <=> p[j] < p[k]
    BY <2>1, <2>2
  <2> HIDE DEF p, n
  <2>8. Len(t.windows) = n - 1
    BY <2>3, <2>4
  <2> QED
    BY <2>5, <2>6, <2>7, <2>8, OrderedPositions DEF n, t
<1> QED
  BY <1>1, <1>2

\* window_create puts its window on top.
LEMMA CreateKeepsOrder ==
  ASSUME NEW s, Sound(s), ~IsFull(s), NEW role \in Role, NEW r \in Rect
  PROVE  \A m : KeepsOrder(s, window_create(s, role, r), m)
<1> DEFINE t == window_create(s, role, r)
           n == Len(s.windows)
           p == [j \in 1 .. n |-> j]
<1> SUFFICES ASSUME NEW m
             PROVE  KeepsOrder(s, t, m)
  OBVIOUS
<1>1. n \in Nat /\ s.windows \in Seq(Window) /\ DOMAIN s.windows = 1 .. n /\ s.next_id \in Nat
  BY DEF Sound, Stack
<1>2. /\ Sound(t) /\ t.windows = Append(s.windows, NewWindow(s.next_id, role, r))
  BY CreateSound
<1>3. /\ Len(t.windows) = n + 1 /\ t.windows[n + 1].id = s.next_id
      /\ \A j \in 1 .. n : t.windows[j] = s.windows[j]
  BY <1>1, <1>2 DEF NewWindow
<1>4. ~Exists(s, s.next_id)
  BY <1>1 DEF Exists, Sound, UniqueIds
<1>5. \A j \in 1 .. n : p[j] = j
  OBVIOUS
<1> HIDE DEF t, p
<1>6. \A j \in 1 .. n + 1 : Exists(s, t.windows[j].id) => j \in 1 .. n
  BY <1>1, <1>3, <1>4
<1>7. \A j \in 1 .. Len(t.windows) :
        t.windows[j].id # m /\ Exists(s, t.windows[j].id) =>
          p[j] \in 1 .. Len(s.windows) /\ s.windows[p[j]].id = t.windows[j].id
  BY <1>3, <1>5, <1>6
<1>8. \A j, k \in 1 .. Len(t.windows) :
        /\ t.windows[j].id # m /\ Exists(s, t.windows[j].id)
        /\ t.windows[k].id # m /\ Exists(s, t.windows[k].id)
        => (j < k <=> p[j] < p[k])
  BY <1>3, <1>5, <1>6
<1> QED
  BY <1>2, <1>7, <1>8, OrderedPositions

\* Two operations one after the other, when the first takes no window away.
LEMMA KeepsOrderTwice ==
  ASSUME NEW s, NEW t, NEW u, NEW m, KeepsOrder(s, t, m), KeepsOrder(t, u, m),
         \A id \in Nat : Exists(s, id) => Exists(t, id)
  PROVE  KeepsOrder(s, u, m)
  BY DEF KeepsOrder

----------------------------------------------------------------------------
(* Alt-Tab, forwards.                                                      *)

\* The ids of the application windows.
Apps(s) == {w.id : w \in {v \in Contents(s) : v.role = "NORMAL"}}

LEMMA Wraps ==
  ASSUME NEW n \in Nat \ {0}, NEW a \in 0 .. n - 1
  PROVE  a % n = a /\ (a + n) % n = a
  OBVIOUS

\* An application is a window there is.
LEMMA AppsAreWindows ==
  ASSUME NEW s, Sound(s), NEW id \in Apps(s)
  PROVE  /\ Exists(s, id) /\ window_by_id(s, id).role = "NORMAL" /\ id \in Nat \ {0}
         /\ window_index(s, id) \in 1 .. Len(s.windows)
         /\ s.windows[window_index(s, id)].id = id
         /\ s.windows[window_index(s, id)].role = "NORMAL"
<1>1. PICK w \in Contents(s) : w.role = "NORMAL" /\ w.id = id
  BY DEF Apps
<1>2. Exists(s, id) /\ window_by_id(s, id) = w
  BY <1>1, ContentsDecide
<1> QED
  BY <1>1, <1>2, WindowIndexFinds DEF Sound

\* window_focus_cycle(s, 1) focuses an application, and the lowest one when the
\* search starts at the top.
LEMMA CycleForward ==
  ASSUME NEW s, Sound(s), Apps(s) # {}
  PROVE  \E id \in Apps(s) :
           /\ window_focus_cycle(s, 1) = window_focus(s, id)
           /\ Exists(s, s.focus_id) /\ window_index(s, s.focus_id) = Len(s.windows) =>
                \A a \in Apps(s) : window_index(s, id) <= window_index(s, a)
<1> DEFINE n == Len(s.windows)
           start == window_index(s, s.focus_id)
           probe(k) == ((start - 1 + 1 * k) % n) + 1
           hits == {k \in 1 .. n : s.windows[probe(k)].role = "NORMAL"}
<1>1. n \in Nat /\ DOMAIN s.windows = 1 .. n
  BY DEF Sound, Stack
<1>2. \A i \in 1 .. n : s.windows[i].role = "NORMAL" => s.windows[i].id \in Apps(s)
  BY <1>1 DEF Apps, Contents
<1>3. start \in 0 .. n
  <2>1. CASE Exists(s, s.focus_id)
    BY <2>1, WindowIndexFinds DEF Sound
  <2>2. CASE ~Exists(s, s.focus_id)
    BY <1>1, <2>2 DEF window_index, Exists
  <2> QED
    BY <2>1, <2>2
<1>4. PICK a0 \in Apps(s) : TRUE
  OBVIOUS
<1>5. n \in Nat \ {0}
  BY <1>1, <1>4, AppsAreWindows
<1>6. window_focus_cycle(s, 1) = IF hits = {} THEN s
                                 ELSE window_focus(s, s.windows[probe(Min(hits))].id)
  BY DEF window_focus_cycle
<1> HIDE DEF n, start
<1>7. \A k \in 1 .. n : probe(k) \in 1 .. n
  BY <1>3, <1>5
<1>8. ASSUME NEW i \in 1 .. n
      PROVE  \E k \in 1 .. n : probe(k) = i
  <2>1. i - 1 \in 0 .. n - 1 /\ (i - 1) % n = i - 1 /\ (i - 1 + n) % n = i - 1
    BY <1>5, Wraps
  <2>2. CASE i > start
    <3>1. i - start \in 1 .. n /\ start - 1 + 1 * (i - start) = i - 1
      BY <1>3, <1>5, <2>2
    <3>2. probe(i - start) = i
      BY <2>1, <3>1
    <3> QED
      BY <3>1, <3>2
  <2>3. CASE i <= start
    <3>1. i - start + n \in 1 .. n /\ start - 1 + 1 * (i - start + n) = i - 1 + n
      BY <1>3, <1>5, <2>3
    <3>2. probe(i - start + n) = i
      BY <2>1, <3>1
    <3> QED
      BY <3>1, <3>2
  <2> QED
    BY <1>3, <2>2, <2>3
<1>9. hits # {}
  <2>1. /\ window_index(s, a0) \in 1 .. n
        /\ s.windows[window_index(s, a0)].role = "NORMAL"
    BY <1>4, AppsAreWindows DEF n
  <2>2. PICK k \in 1 .. n : probe(k) = window_index(s, a0)
    BY <1>8, <2>1
  <2> HIDE DEF probe
  <2> QED
    BY <2>1, <2>2
<1> DEFINE k == Min(hits)
<1>10. k \in hits /\ \A y \in hits : k <= y
  <2>1. hits \subseteq Nat
    OBVIOUS
  <2> HIDE DEF hits
  <2> QED
    BY <1>9, <2>1, MinOfNats
<1>11. k \in 1 .. n /\ s.windows[probe(k)].role = "NORMAL" /\ probe(k) \in 1 .. n
  BY <1>7, <1>10
<1>12. window_focus_cycle(s, 1) = window_focus(s, s.windows[probe(k)].id)
  BY <1>6, <1>9
<1> DEFINE id == s.windows[probe(k)].id
<1>13. ASSUME Exists(s, s.focus_id), start = n, NEW a \in Apps(s)
       PROVE  window_index(s, id) <= window_index(s, a)
  <2>1. \A j \in 1 .. n : probe(j) = j
    <3>1. ASSUME NEW j \in 1 .. n PROVE probe(j) = j
      <4>1. j - 1 \in 0 .. n - 1 /\ start - 1 + 1 * j = j - 1 + n
        BY <1>5, <1>13
      <4>2. (j - 1 + n) % n = j - 1
        BY <1>5, <4>1, Wraps
      <4> QED
        BY <4>1, <4>2
    <3> QED
      BY <3>1
  <2>2. window_index(s, a) \in hits
    BY <2>1, AppsAreWindows DEF n
  <2> HIDE DEF k, hits
  <2>3. probe(k) = k /\ k <= window_index(s, a)
    BY <1>10, <1>11, <2>1, <2>2
  <2> HIDE DEF probe
  <2>4. window_index(s, id) = k
    <3>1. id \in Apps(s)
      BY <1>2, <1>11 DEF n
    <3>2. window_index(s, id) \in 1 .. n /\ s.windows[window_index(s, id)].id = id
      BY <3>1, AppsAreWindows DEF n
    <3> QED
      BY <1>1, <1>11, <2>3, <3>2 DEF Sound, UniqueIds
  <2> QED
    BY <2>3, <2>4
<1>14. id \in Apps(s)
  BY <1>2, <1>11 DEF n
<1> HIDE DEF id
<1> QED
  BY <1>12, <1>13, <1>14 DEF id, start, n

\* It goes to the top, over the other applications, which keep their order.
LEMMA FocusTops ==
  ASSUME NEW s, Sound(s), NEW id \in Apps(s)
  PROVE  LET t == window_focus(s, id)
         IN  /\ Sound(t) /\ Apps(t) = Apps(s) /\ t.focus_id = id
             /\ Exists(t, id) /\ window_index(t, id) = Len(t.windows)
             /\ \A a \in Apps(s) \ {id} : window_index(t, a) < window_index(t, id)
             /\ KeepsOrder(s, t, id)
<1> DEFINE t == window_focus(s, id)
<1>1. Exists(s, id) /\ window_by_id(s, id).role # "DESKTOP"
  BY AppsAreWindows
<1>2. Sound(t) /\ t.focus_id = id /\ Contents(t) = Contents(s) /\ KeepsOrder(s, t, id)
  BY <1>1, FocusSound, FocusContents, FocusKeepsOrder
<1>3. Apps(t) = Apps(s)
  BY <1>2 DEF Apps
<1>4. t.windows # << >> /\ t.windows[Len(t.windows)] = window_by_id(s, id)
      /\ window_by_id(s, id).id = id
  BY <1>1, FocusedOnTop, ContentsDecide
<1> HIDE DEF t
<1>5. /\ Exists(t, id) /\ window_index(t, id) \in 1 .. Len(t.windows)
      /\ t.windows[window_index(t, id)].id = id
  BY <1>2, <1>3, AppsAreWindows
<1>6. window_index(t, id) = Len(t.windows)
  BY <1>2, <1>4, <1>5 DEF Sound, UniqueIds, Stack
<1>7. ASSUME NEW a \in Apps(s) \ {id}
      PROVE  window_index(t, a) < window_index(t, id)
  <2>1. window_index(t, a) \in 1 .. Len(t.windows) /\ t.windows[window_index(t, a)].id = a
    BY <1>2, <1>3, AppsAreWindows
  <2> QED
    BY <1>4, <1>5, <1>6, <2>1
<1> QED
  BY <1>2, <1>3, <1>5, <1>6, <1>7 DEF t
=============================================================================
