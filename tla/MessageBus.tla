----------------------------- MODULE MessageBus -----------------------------
(***************************************************************************)
(* What the bus promises to the processes that use it, without sockets,    *)
(* buffers or a controller: a message that was sent waits until, in one    *)
(* step, it is either consumed by members that its selector accepts or     *)
(* given up.  A unicast is consumed by one member, a multicast by several  *)
(* members of the same moment; nothing is consumed twice or after it was   *)
(* given up.  BusController implements this specification.                 *)
(***************************************************************************)
CONSTANTS
    Users,      \* everybody who may consume messages
    Labels,     \* the labels they join with
    Message     \* messages, with the selector m.sel

VARIABLES
    members,    \* who can be routed to, a set of [who, label]
    waiting,    \* messages sent, with nothing decided yet
    consumed    \* the messages every user was given

vars == <<members, waiting, consumed>>

Member == [who : Users, label : Labels]

Init ==
    /\ members \subseteq Member
    /\ waiting = {}
    /\ consumed = [u \in Users |-> {}]

\* A message is never sent again once somebody consumed it.
Send ==
    /\ waiting \subseteq waiting' /\ waiting' \subseteq Message
    /\ \A m \in waiting' \ waiting : \A u \in Users : m \notin consumed[u]
    /\ UNCHANGED <<members, consumed>>

JoinOrLeave ==
    /\ members' \subseteq Member
    /\ UNCHANGED <<waiting, consumed>>

\* Members found gone while m is routed leave in the same step.
Consume(m, S) ==
    /\ m \in waiting
    /\ \A s \in S : s.label \in m.sel.accepts
    /\ m.sel.mode = "unicast" => \A s, t \in S : s = t
    /\ waiting' = waiting \ {m}
    /\ consumed' = [u \in Users |->
                      IF \E s \in S : s.who = u THEN consumed[u] \cup {m} ELSE consumed[u]]
    /\ members' \subseteq members

\* Several messages can be given up together.
GiveUp ==
    /\ waiting' \subseteq waiting
    /\ members' \subseteq members
    /\ UNCHANGED consumed

Next ==
    \/ Send
    \/ JoinOrLeave
    \/ GiveUp
    \/ \E m \in waiting : \E S \in (SUBSET members) \ {{}} : Consume(m, S)

Spec == Init /\ [][Next]_vars
=============================================================================
