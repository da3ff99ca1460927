----------------------------- MODULE JsReceiver -----------------------------
(***************************************************************************)
(* The receiver of the JavaScript binding (ipmb-js/src/lib.rs).            *)
(*                                                                         *)
(* A thread polls the endpoint and hands what it gets to the one thread    *)
(* that runs JavaScript, through a threadsafe function, which is a queue   *)
(* of actions.  JavaScript asks with recv, which returns a promise.  What  *)
(* comes first, item or promise, waits in LocalBuffer.  close meets the    *)
(* polling thread twice over a channel without capacity.                   *)
(***************************************************************************)
EXTENDS Naturals, Subsequences

CONSTANTS
    Promises,       \* calls of recv
    Timed,          \* those with a timeout
    MaxItems,       \* bound: items the endpoint gives, after which it is silent
    MaxCleans       \* bound: CleanTimeout actions in the queue at one time

ASSUME TimedAssumption == Timed \subseteq Promises
ASSUME BoundsAssumption == MaxItems \in Nat /\ MaxCleans \in Nat \ {0}

VARIABLES
    closed, messages, deferred_list,    \* LocalBuffer
    outcome,        \* what every call of recv came to ...
    got,            \* ... and the item it got, or 0
    expired,        \* promises whose deadline is over
    js,             \* JavaScript: idle, or the send of close it is blocked in
    tsfn,           \* the actions on their way to delegate_receiver
    referenced,     \* the threadsafe function keeps the event loop running
    thread,         \* the polling thread
    received        \* number of items it got; they are numbered

localVars == <<closed, messages, deferred_list, outcome, got>>
vars == <<localVars, expired, js, tsfn, referenced, thread, received>>

Items == 1..MaxItems
Outcomes == {"none", "pending", "item", "refused", "timeout", "closed"}
ItemAction(i) == [action |-> "Recv", item |-> i]
CleanTimeout == [action |-> "CleanTimeout"]
CloseAction == [action |-> "Close"]
Actions == {ItemAction(i) : i \in Items} \cup {CleanTimeout, CloseAction}

TypeOK ==
    /\ closed \in BOOLEAN
    /\ messages \in Seq(Items) /\ deferred_list \in Seq(Promises)
    /\ outcome \in [Promises -> Outcomes]
    /\ got \in [Promises -> Items \cup {0}]
    /\ expired \subseteq Timed
    /\ js \in {"idle", "signal", "wait"}
    /\ tsfn \in Seq(Actions)
    /\ referenced \in BOOLEAN
    /\ thread \in {"poll", "timeout", "destroy", "drop", "ended"}
    /\ received \in 0..MaxItems

Init ==
    /\ closed = FALSE /\ messages = <<>> /\ deferred_list = <<>>
    /\ outcome = [p \in Promises |-> "none"] /\ got = [p \in Promises |-> 0]
    /\ expired = {}
    /\ js = "idle"
    /\ tsfn = <<>> /\ referenced = TRUE
    /\ thread = "poll" /\ received = 0

-----------------------------------------------------------------------------
(* JavaScript *)

Settle(S, o) ==
    /\ outcome' = [p \in Promises |-> IF p \in S THEN o ELSE outcome[p]]
    /\ UNCHANGED got

\* consume_deferred.
Consume(p, i) ==
    /\ outcome' = [outcome EXCEPT ![p] = "item"]
    /\ got' = [got EXCEPT ![p] = i]

\* Receiver::recv: refused ...
Refused(p) ==
    /\ closed
    /\ Settle({p}, "refused")
    /\ UNCHANGED <<messages, deferred_list>>

\* ... answered with what waits ...
Answered(p) ==
    /\ ~closed /\ messages # <<>>
    /\ Consume(p, Head(messages))
    /\ messages' = Tail(messages)
    /\ UNCHANGED deferred_list

\* Mutant: the promise waits whatever there is.
PutOffAlways(p) ==
    /\ ~closed
    /\ Settle({p}, "pending")
    /\ deferred_list' = Append(deferred_list, p)
    /\ UNCHANGED messages

\* ... or put off.
PutOff(p) ==
    /\ ~closed /\ messages = <<>>
    /\ Settle({p}, "pending")
    /\ deferred_list' = Append(deferred_list, p)
    /\ UNCHANGED messages

Recv(p) ==
    /\ js = "idle" /\ outcome[p] = "none"
    /\ Refused(p) \/ Answered(p) \/ PutOff(p)
    /\ UNCHANGED <<closed, expired, js, tsfn, referenced, thread, received>>

\* Receiver::close, which Drop calls too, up to its first send.
Close ==
    /\ js = "idle" /\ ~closed
    /\ closed' = TRUE
    /\ js' = "signal"
    /\ UNCHANGED <<messages, deferred_list, outcome, got>>
    /\ UNCHANGED <<expired, tsfn, referenced, thread, received>>

\* Either send fails when the thread has dropped the other end.
CloseReturns ==
    /\ js \in {"signal", "wait"} /\ thread = "ended"
    /\ js' = "idle"
    /\ UNCHANGED <<localVars, expired, tsfn, referenced, thread, received>>

Expire(p) ==
    /\ outcome[p] = "pending" /\ p \notin expired
    /\ expired' = expired \cup {p}
    /\ UNCHANGED <<localVars, js, tsfn, referenced, thread, received>>

\* LocalBuffer::clean_timeout.
Clean ==
    /\ IF deferred_list = <<>>
       THEN UNCHANGED <<deferred_list, outcome, got>>
       ELSE /\ Settle(expired \cap ToSet(deferred_list), "timeout")
            /\ deferred_list' = Filter(deferred_list, Promises \ expired)
    /\ UNCHANGED <<closed, messages, referenced>>

\* LocalBuffer::close.
CloseLocal ==
    /\ closed' = TRUE
    /\ Settle(ToSet(deferred_list), "closed")
    /\ deferred_list' = <<>>
    /\ referenced' = FALSE
    /\ UNCHANGED messages

\* Mutant: the youngest promise gets the item.
DeliverToLast(i) ==
    /\ IF deferred_list = <<>>
       THEN messages' = Append(messages, i) /\ UNCHANGED <<deferred_list, outcome, got>>
       ELSE /\ Consume(Last(deferred_list), i)
            /\ deferred_list' = Front(deferred_list)
            /\ UNCHANGED messages
    /\ UNCHANGED <<closed, referenced>>

Deliver(i) ==
    /\ IF deferred_list = <<>>
       THEN messages' = Append(messages, i) /\ UNCHANGED <<deferred_list, outcome, got>>
       ELSE /\ Consume(Head(deferred_list), i)
            /\ deferred_list' = Tail(deferred_list)
            /\ UNCHANGED messages
    /\ UNCHANGED <<closed, referenced>>

\* delegate_receiver.
Delegate ==
    /\ js = "idle" /\ tsfn # <<>>
    /\ \/ Head(tsfn) = CloseAction /\ CloseLocal
       \/ Head(tsfn) = CleanTimeout /\ Clean
       \/ \E i \in Items : Head(tsfn) = ItemAction(i) /\ Deliver(i)
    /\ tsfn' = Tail(tsfn)
    /\ UNCHANGED <<expired, js, thread, received>>

-----------------------------------------------------------------------------
(* The polling thread *)

\* receiver.recv returns a message or an error, after which it either goes on or,
\* when the error is fatal, destroys the threadsafe function.
Polled ==
    /\ thread = "poll" /\ received < MaxItems
    /\ received' = received + 1
    /\ tsfn' = Append(tsfn, ItemAction(received + 1))
    /\ thread' \in {"poll", "destroy"}
    /\ UNCHANGED <<localVars, expired, js, referenced>>

\* receiver.recv finds nothing for 200 ms.
PolledNothing ==
    /\ thread = "poll"
    /\ js = "signal" \/ Cardinality({k \in DOMAIN tsfn : tsfn[k] = CleanTimeout}) < MaxCleans
    /\ thread' = "timeout"
    /\ UNCHANGED <<localVars, expired, js, tsfn, referenced, received>>

\* Mutant: the thread polls on after it met close.
SignalledOnce ==
    /\ thread = "timeout" /\ js = "signal"
    /\ js' = "wait"
    /\ thread' = "poll"
    /\ UNCHANGED <<localVars, expired, tsfn, referenced, received>>

\* guard_receiver.try_recv meets the first send of close.  It never finds the
\* channel disconnected: a Receiver closes before it drops its end.
Signalled ==
    /\ thread = "timeout" /\ js = "signal"
    /\ js' = "wait"
    /\ thread' = "destroy"
    /\ UNCHANGED <<localVars, expired, tsfn, referenced, received>>

\* Mutant: nobody looks at the deadlines.
NotSignalledQuiet ==
    /\ thread = "timeout" /\ js # "signal"
    /\ thread' = "poll"
    /\ UNCHANGED <<localVars, expired, js, tsfn, referenced, received>>

NotSignalled ==
    /\ thread = "timeout" /\ js # "signal"
    /\ tsfn' = Append(tsfn, CleanTimeout)
    /\ thread' = "poll"
    /\ UNCHANGED <<localVars, expired, js, referenced, received>>

\* Mutant: the thread ends without a last word.
DestroySilent ==
    /\ thread = "destroy"
    /\ thread' = "drop"
    /\ UNCHANGED <<localVars, expired, js, tsfn, referenced, received>>

\* ThreadsafeFunction::destroy.
Destroy ==
    /\ thread = "destroy"
    /\ tsfn' = Append(tsfn, CloseAction)
    /\ thread' = "drop"
    /\ UNCHANGED <<localVars, expired, js, referenced, received>>

\* The closure's variables are dropped: the endpoint, then guard_receiver.
End ==
    /\ thread = "drop"
    /\ thread' = "ended"
    /\ UNCHANGED <<localVars, expired, js, tsfn, referenced, received>>

-----------------------------------------------------------------------------
Poll == Polled \/ PolledNothing \/ Signalled \/ NotSignalled \/ Destroy \/ End

Next ==
    \/ \E p \in Promises : Recv(p)
    \/ \E p \in Timed : Expire(p)
    \/ Close \/ CloseReturns \/ Delegate
    \/ Poll

Spec == Init /\ [][Next]_vars

\* Time passes, both threads run.  Nobody has to call recv or close.
FairSpec ==
    /\ Spec
    /\ \A p \in Timed : WF_vars(Expire(p))
    /\ WF_vars(CloseReturns) /\ WF_vars(Delegate)
    /\ WF_vars(Poll)

-----------------------------------------------------------------------------
(* Properties *)

\* "debug_assert!(local.deferred_list.is_empty() || local.messages.is_empty())"
\* (recv and delegate_receiver): no item waits while a promise does.
OneListEmpty == deferred_list = <<>> \/ messages = <<>>

\* No promise waits when nobody is left to settle it: as long as one does, the
\* thread polls or the Close that rejects what is left is still to come.
SomebodyAnswers ==
    deferred_list # <<>> =>
        thread \in {"poll", "timeout", "destroy"} \/ CloseAction \in ToSet(tsfn)

\* What has not been handed out is in messages or on its way to JavaScript.
ItemActions == Filter(tsfn, {ItemAction(i) : i \in Items})
NotHandedOut == messages \o [k \in DOMAIN ItemActions |-> ItemActions[k].item]

\* Items and promises meet as in the abstract queue.

Queue == INSTANCE PromiseQueue WITH
    given <- received,
    items <- NotHandedOut,
    asked <- deferred_list,
    answer <- outcome,
    with <- got,
    open <- ~closed

ImplementsPromiseQueue == Queue!Spec

\* A promise is settled in the end if it has a timeout, if it is the first when
\* an item is on its way, and when the receiver is closed.
Settled ==
    \A p \in Promises :
        /\ outcome[p] = "pending" /\ (p \in Timed \/ closed) ~> outcome[p] # "pending"
        /\ deferred_list # <<>> /\ Head(deferred_list) = p /\ ItemActions # <<>>
              ~> outcome[p] # "pending"

\* close returns, once the endpoint is silent for 200 ms (MaxItems), and what is
\* closed does not keep the event loop of Node running.
CloseEnds ==
    /\ js # "idle" ~> js = "idle"
    /\ closed ~> ~referenced
=============================================================================
