----------------------------- MODULE Membership -----------------------------
(***************************************************************************)
(* What joining a bus promises: at every time there is at most one         *)
(* controller, and the members are the processes it has let in.  A         *)
(* controller is followed by another one only after it has died, and none  *)
(* of its members is taken over without having asked again.                *)
(***************************************************************************)
CONSTANTS
    Procs,              \* processes
    Affine,             \* those that may become the controller
    Compatible          \* pairs <<controller, process>> that go together

None == "none"

VARIABLES controller, members

vars == <<controller, members>>

Init == controller = None /\ members = {}

\* The first one to take the identifier.
Elect(p) ==
    /\ p \in Affine
    /\ controller = None
    /\ controller' = p
    /\ UNCHANGED members

\* Somebody else, of the same version and with the same token.
Admit(p) ==
    /\ controller # None /\ p # controller /\ p \notin members
    /\ <<controller, p>> \in Compatible
    /\ members' = members \cup {p}
    /\ UNCHANGED controller

Leave(p) ==
    /\ p \in members
    /\ members' = members \ {p}
    /\ UNCHANGED controller

\* Every member loses its connection with the controller.
Die ==
    /\ controller # None
    /\ controller' = None
    /\ members' = {}

Next ==
    \/ \E p \in Procs : Elect(p) \/ Admit(p) \/ Leave(p)
    \/ Die

Spec == Init /\ [][Next]_vars
=============================================================================
