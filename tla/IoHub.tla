------------------------------- MODULE IoHub -------------------------------
(***************************************************************************)
(* How the bus controller's thread waits on Linux: IoHub::recv             *)
(* (ipmb/src/platform/linux.rs) over IoMultiplexing (linux/io_mul.rs).     *)
(*                                                                         *)
(* One epoll instance watches an eventfd, the waker; the listener; and the *)
(* sockets of the endpoints that were accepted.  Messages of the           *)
(* controller's own process come through a channel, bus_rx, which epoll    *)
(* does not see: whoever puts a message there writes to the waker.         *)
(***************************************************************************)
EXTENDS Naturals, FiniteSets, Subsequences

CONSTANTS
    Conns,          \* connections of other processes
    Own,            \* threads of the controller's process that send
    InBuffer,       \* capacity of in_buffer: 2
    QueueLen,       \* messages a socket has room for
    MaxSends        \* bound: messages of every sender, which then pauses

ASSUME SendersAssumption == Own \cap Conns = {}
ASSUME NumbersAssumption ==
    /\ InBuffer \in Nat \ {0} /\ QueueLen \in Nat \ {0}
    /\ MaxSends \in [Conns \cup Own -> Nat]
ASSUME NamesAssumption == {"waker", "listener"} \cap (Conns \cup Own) = {}

VARIABLES
    bus_rx,         \* the messages in the channel, each the thread it came from
    woken,          \* the eventfd is not zero
    waking,         \* threads between send and wake
    stage,          \* of every connection: off, pending (not accepted), local, gone
    queue,          \* what the socket holds; "bad" cannot be read as a message
    shut,           \* the other end is closed
    ready,          \* the list of ready descriptors epoll keeps
    in_buffer,      \* events that were taken from it
    pc,             \* where the controller's thread is
    said,           \* what every sender has sent
    heard           \* how many messages of every sender recv has returned

busVars == <<bus_rx, woken, waking>>
connVars == <<stage, queue, shut>>
hubVars == <<in_buffer, pc>>
vars == <<busVars, connVars, ready, hubVars, said, heard>>

Senders == Conns \cup Own
Descriptors == Conns \cup {"waker", "listener"}

Contents == {"msg", "bad"}

TypeOK ==
    /\ bus_rx \in Seq(Own)
    /\ woken \in BOOLEAN
    /\ waking \subseteq Own
    /\ stage \in [Conns -> {"off", "pending", "local", "gone"}]
    /\ queue \in [Conns -> Seq(Contents)]
    /\ shut \in [Conns -> BOOLEAN]
    /\ ready \in Seq(Descriptors) /\ in_buffer \in Seq(Descriptors)
    /\ pc \in {"idle", "try", "wait", "events"}
    /\ pc = "events" <=> in_buffer # <<>>
    /\ said \in [Senders -> Seq(Contents)] /\ heard \in [Senders -> Nat]

Init ==
    /\ bus_rx = <<>> /\ woken = FALSE /\ waking = {}
    /\ stage = [c \in Conns |-> "off"]
    /\ queue = [c \in Conns |-> <<>>]
    /\ shut = [c \in Conns |-> FALSE]
    /\ ready = <<>> /\ in_buffer = <<>>
    /\ pc = "idle"
    /\ said = [s \in Senders |-> <<>>] /\ heard = [s \in Senders |-> 0]

-----------------------------------------------------------------------------
(* epoll, level-triggered *)

Readable(c) == queue[c] # <<>> \/ shut[c]

IsReady(d) ==
    CASE d = "waker" -> woken
      [] d = "listener" -> \E c \in Conns : stage[c] = "pending"
      [] OTHER -> stage[d] = "local" /\ Readable(d)

\* A descriptor that becomes ready goes to the end of the list.
Raise(d) == ready' = IF d \in ToSet(ready) THEN ready ELSE Append(ready, d)

\* What concerns an endpoint that was not accepted yet is the listener's.
RaiseFor(c) ==
    IF stage[c] = "local" THEN Raise(c) ELSE UNCHANGED ready

-----------------------------------------------------------------------------
(* The others *)

Say(s, m) == Len(said[s]) < MaxSends[s] /\ said' = [said EXCEPT ![s] = Append(@, m)]

\* EndpointSender::send of the controller's own endpoint: first the channel ...
OwnSend(t) ==
    /\ t \notin waking /\ Len(bus_rx) < QueueLen
    /\ bus_rx' = Append(bus_rx, t)
    /\ waking' = waking \cup {t}
    /\ Say(t, "msg")
    /\ UNCHANGED <<woken, connVars, ready, hubVars, heard>>

\* ... then IoMultiplexing::wake.
Wake(t) ==
    /\ t \in waking
    /\ waking' = waking \ {t}
    /\ woken' = TRUE
    /\ Raise("waker")
    /\ UNCHANGED <<bus_rx, connVars, hubVars, said, heard>>

Connect(c) ==
    /\ stage[c] = "off"
    /\ stage' = [stage EXCEPT ![c] = "pending"]
    /\ Raise("listener")
    /\ UNCHANGED <<busVars, queue, shut, hubVars, said, heard>>

\* A message, or one from_local cannot make anything of: more descriptors than
\* there is room for, or another version.
PeerSend(c) ==
    /\ stage[c] \in {"pending", "local"} /\ ~shut[c]
    /\ Len(queue[c]) < QueueLen
    /\ \E m \in Contents : Say(c, m) /\ queue' = [queue EXCEPT ![c] = Append(@, m)]
    /\ RaiseFor(c)
    /\ UNCHANGED <<busVars, stage, shut, hubVars, heard>>

PeerClose(c) ==
    /\ stage[c] \in {"pending", "local"} /\ ~shut[c]
    /\ shut' = [shut EXCEPT ![c] = TRUE]
    /\ RaiseFor(c)
    /\ UNCHANGED <<busVars, stage, queue, hubVars, said, heard>>

-----------------------------------------------------------------------------
(* IoHub::recv *)

\* BusController::run calls it again and again.
Call ==
    /\ pc = "idle"
    /\ pc' = "try"
    /\ UNCHANGED <<busVars, connVars, ready, in_buffer, said, heard>>

\* recv returns a message of s.
Return(s) == pc' = "idle" /\ heard' = [heard EXCEPT ![s] = @ + 1]

TryRecv ==
    /\ pc = "try" /\ bus_rx # <<>>
    /\ bus_rx' = Tail(bus_rx)
    /\ Return(Head(bus_rx))
    /\ UNCHANGED <<woken, waking, connVars, ready, in_buffer, said>>

TryRecvEmpty ==
    /\ pc = "try" /\ bus_rx = <<>>
    /\ pc' = "wait"
    /\ UNCHANGED <<busVars, connVars, ready, in_buffer, said, heard>>

\* Mutant: edge-triggered, what was reported once is not reported again.
WaitOnce ==
    /\ pc = "wait"
    /\ LET live == Filter(ready, {d \in Descriptors : IsReady(d)})
           taken == SubSeq(live, 1, IF Len(live) < InBuffer THEN Len(live) ELSE InBuffer)
       IN  /\ live # <<>>
           /\ in_buffer' = taken
           /\ ready' = SubSeq(live, Len(taken) + 1, Len(live))
    /\ pc' = "events"
    /\ UNCHANGED <<busVars, connVars, said, heard>>

\* What is ready is taken from the front of the list, as much as in_buffer holds,
\* and goes to its end, for it is ready until somebody reads it.
Wait ==
    /\ pc = "wait"
    /\ LET live == Filter(ready, {d \in Descriptors : IsReady(d)})
           taken == SubSeq(live, 1, IF Len(live) < InBuffer THEN Len(live) ELSE InBuffer)
       IN  /\ live # <<>>
           /\ in_buffer' = taken
           /\ ready' = SubSeq(live, Len(taken) + 1, Len(live)) \o taken
    /\ pc' = "events"
    /\ UNCHANGED <<busVars, connVars, said, heard>>

\* Mutant: once the events are done, the thread sleeps again.
AfterEventsAsleep == "wait"

\* The loop starts over with bus_rx.
AfterEvents == "try"

NextEvent ==
    /\ in_buffer' = Tail(in_buffer)
    /\ pc' = IF Tail(in_buffer) = <<>> THEN AfterEvents ELSE "events"
    /\ UNCHANGED heard

ClearWaker ==
    /\ pc = "events" /\ Head(in_buffer) = "waker"
    /\ woken' = FALSE
    /\ NextEvent
    /\ UNCHANGED <<bus_rx, waking, connVars, ready, said>>

\* Mutant: epoll is not told of the connection.
AcceptUnwatched ==
    /\ pc = "events" /\ Head(in_buffer) = "listener"
    /\ \E c \in Conns :
          /\ stage[c] = "pending"
          /\ stage' = [stage EXCEPT ![c] = "local"]
    /\ NextEvent
    /\ UNCHANGED <<busVars, queue, shut, ready, said>>

\* accept; epoll watches the connection from now on.
Accept ==
    /\ pc = "events" /\ Head(in_buffer) = "listener"
    /\ \E c \in Conns :
          /\ stage[c] = "pending"
          /\ stage' = [stage EXCEPT ![c] = "local"]
          /\ IF Readable(c) THEN Raise(c) ELSE UNCHANGED ready
    /\ NextEvent
    /\ UNCHANGED <<busVars, queue, shut, said>>

\* Mutant: a connection that broke is read before what is still in it.
CanReadUnlessShut(c) == queue[c] # <<>> /\ Head(queue[c]) = "msg" /\ ~shut[c]

CanRead(c) == queue[c] # <<>> /\ Head(queue[c]) = "msg"

\* A message is returned at once: the rest of in_buffer is thrown away.
ReadMessage ==
    /\ pc = "events"
    /\ LET c == Head(in_buffer)
       IN  /\ c \in Conns /\ CanRead(c)
           /\ queue' = [queue EXCEPT ![c] = Tail(@)]
           /\ Return(c)
    /\ in_buffer' = <<>>
    /\ UNCHANGED <<busVars, stage, shut, ready, said>>

\* So is an error, and the connection is closed with all that is still in it.
ReadError ==
    /\ pc = "events"
    /\ LET c == Head(in_buffer)
       IN  /\ c \in Conns /\ ~CanRead(c)
           /\ stage' = [stage EXCEPT ![c] = "gone"]
           /\ queue' = [queue EXCEPT ![c] = <<>>]
    /\ in_buffer' = <<>> /\ pc' = "idle"
    /\ UNCHANGED <<busVars, shut, ready, said, heard>>

-----------------------------------------------------------------------------
Recv ==
    \/ Call \/ TryRecv \/ TryRecvEmpty \/ Wait
    \/ ClearWaker \/ Accept \/ ReadMessage \/ ReadError

Next ==
    \/ Recv
    \/ \E t \in Own : OwnSend(t) \/ Wake(t)
    \/ \E c \in Conns : Connect(c) \/ PeerSend(c) \/ PeerClose(c)

Spec == Init /\ [][Next]_vars

\* The controller's thread runs and a thread that sent goes on to wake.
FairSpec ==
    /\ Spec
    /\ WF_vars(Recv)
    /\ \A t \in Own : WF_vars(Wake(t))

-----------------------------------------------------------------------------
(* Properties *)

\* The thread never sleeps on a message of its own process: whenever it is about
\* to wait, the waker is set or will be.
NoLostWake == pc = "wait" /\ bus_rx # <<>> => woken \/ waking # {}

\* Whatever is thrown away of in_buffer, epoll goes on to report what can be read:
\* its list has every descriptor that is ready.
EventsKept == \A d \in Descriptors : IsReady(d) => d \in ToSet(ready)

\* recv returns every message of every sender, be it a thread of the controller's
\* process or an endpoint, one that closed or was not accepted yet too, up to the
\* first that cannot be read: an error takes nothing away but what is behind it.
\* It does once the others pause (MaxSends): who never pauses is read first.
Legible(s) == Cardinality({i \in DOMAIN said[s] : \A j \in 1..i : said[s][j] = "msg"})

Heard == \A s \in Senders : heard[s] < Legible(s) ~> heard[s] = Legible(s)
=============================================================================
