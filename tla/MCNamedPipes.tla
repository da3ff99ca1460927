---------------------------- MODULE MCNamedPipes ----------------------------
(* Small instances of the event loop on Windows. *)
EXTENDS NamedPipes

CONSTANTS h1, h2, h3, c1, c2, t1

\* One endpoint is chattier than the other.
Writes == [c \in Conns |-> IF c = c1 THEN 2 ELSE 1]
=============================================================================
