---------------------------- MODULE PromiseQueue ----------------------------
(***************************************************************************)
(* What a receiver promises to a JavaScript program (README of ipmb-js):   *)
(* the k-th item that comes from the bus answers the k-th promise that is  *)
(* neither rejected nor answered by then.  Items and promises wait for     *)
(* each other in two queues.                                               *)
(***************************************************************************)
EXTENDS Naturals, Subsequences

CONSTANTS
    Promises,       \* calls of recv
    Timed           \* those with a timeout

VARIABLES
    given,          \* number of items that came; they are numbered
    items,          \* those no promise has got yet
    asked,          \* promises that wait
    answer, with,   \* how every promise was settled, and with which item
    open            \* recv is not refused

vars == <<given, items, asked, answer, with, open>>

Init ==
    /\ given = 0 /\ items = <<>>
    /\ asked = <<>> /\ answer = [p \in Promises |-> "none"]
    /\ with = [p \in Promises |-> 0]
    /\ open = TRUE

Settle(S, a, i) ==
    /\ answer' = [p \in Promises |-> IF p \in S THEN a ELSE answer[p]]
    /\ with' = [p \in Promises |-> IF p \in S THEN i ELSE with[p]]

Give ==
    /\ given' = given + 1 /\ items' = Append(items, given + 1)
    /\ UNCHANGED <<asked, answer, with, open>>

Ask(p) ==
    /\ open /\ answer[p] = "none"
    /\ asked' = Append(asked, p) /\ Settle({p}, "pending", 0)
    /\ UNCHANGED <<given, items, open>>

Serve ==
    /\ items # <<>> /\ asked # <<>>
    /\ Settle({Head(asked)}, "item", Head(items))
    /\ items' = Tail(items) /\ asked' = Tail(asked)
    /\ UNCHANGED <<given, open>>

\* A promise need not wait for what is there.
AskAndServe(p) ==
    /\ open /\ answer[p] = "none" /\ asked = <<>> /\ items # <<>>
    /\ Settle({p}, "item", Head(items)) /\ items' = Tail(items)
    /\ UNCHANGED <<given, asked, open>>

\* Only a promise with a timeout is rejected while the receiver is open.
TimeOut ==
    /\ \E S \in SUBSET (ToSet(asked) \cap Timed) :
          /\ Settle(S, "timeout", 0)
          /\ asked' = Filter(asked, Promises \ S)
    /\ UNCHANGED <<given, items, open>>

Shut == open' = FALSE /\ UNCHANGED <<given, items, asked, answer, with>>

RejectAll ==
    /\ open' = FALSE
    /\ Settle(ToSet(asked), "closed", 0) /\ asked' = <<>>
    /\ UNCHANGED <<given, items>>

Refuse(p) ==
    /\ ~open /\ answer[p] = "none" /\ Settle({p}, "refused", 0)
    /\ UNCHANGED <<given, items, asked, open>>

Next ==
    \/ Give \/ Serve \/ TimeOut \/ Shut \/ RejectAll
    \/ \E p \in Promises : Ask(p) \/ AskAndServe(p) \/ Refuse(p)

Spec == Init /\ [][Next]_vars
=============================================================================
