------------------------------- MODULE MCJoin -------------------------------
(* Small instances of processes that join. *)
EXTENDS Join

CONSTANTS p1, p2, p3, p4

\* p3 has another version than the others and p2 a token that only it accepts.
Mixed ==
    [c \in Procs |-> [p \in Procs |->
        IF c = p THEN "ok"
        ELSE IF p = p3 THEN "unreadable"
        ELSE IF c = p3 THEN "version"
        ELSE IF p2 \in {c, p} THEN "token" ELSE "ok"]]

\* Nobody can read what p4 sends.
Alien == [c \in Procs |-> [p \in Procs |-> IF p = p4 THEN "unreadable" ELSE "ok"]]
=============================================================================
