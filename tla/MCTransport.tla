---------------------------- MODULE MCTransport ----------------------------
(***************************************************************************)
(* Small instances of Transport for TLC.                                   *)
(***************************************************************************)
EXTENDS Transport, TLC

Symmetry == Permutations(Conn) \cup Permutations(Wid)

\* Protocol versions of the sources, and the client versions that tell apart
\* each branch of the handshake.
V(v, m) == [version |-> v, min_version |-> m]
Current  == {V(2, 1)}
GoodAndBad == {V(1, 1), V(3, 3)}

Screen  == {[w |-> 4, h |-> 4]}
Screen2 == Screen \cup {[w |-> 3, h |-> 2]}

At1   == {[x |-> 1, y |-> 1, w |-> 2, h |-> 1]}
Unset == {[x |-> 0, y |-> 0, w |-> 0, h |-> 0]}

Form(n, f, ok) == [nfds |-> n, has_fence |-> f, ok |-> ok]
LegalForms == {Form(1, FALSE, TRUE), Form(2, TRUE, TRUE), Form(1, FALSE, FALSE), Form(0, FALSE, TRUE)}
NoForm     == {}

NoTokens == {0}
Token1   == {0, 1}
============================================================================
