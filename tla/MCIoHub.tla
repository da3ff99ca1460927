------------------------------ MODULE MCIoHub ------------------------------
(* Small instances of the controller's event loop. *)
EXTENDS IoHub

CONSTANTS c1, c2, t1

\* One endpoint can have a message behind one that cannot be read, and the thread
\* one behind another.
Sends == [s \in Conns \cup Own |-> IF s \in {c1, t1} THEN 2 ELSE 1]
=============================================================================
