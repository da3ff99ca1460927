----------------------------- MODULE NamedPipes -----------------------------
(***************************************************************************)
(* How a thread waits on Windows: IoHub::recv over IoMultiplexing and      *)
(* NamedPipe (ipmb/src/platform/windows/mod.rs).                           *)
(*                                                                         *)
(* Every pipe has at most one overlapped operation, ConnectNamedPipe or    *)
(* ReadFile, whose end the kernel reports as a packet in one completion    *)
(* port.  A packet names its pipe by the value of the handle, which the    *)
(* kernel gives to another pipe when the handle was closed.  The hub of    *)
(* the bus controller has a listening pipe and a channel for its own       *)
(* process; the hub of an endpoint has one pipe to read.                   *)
(***************************************************************************)
EXTENDS Naturals, Subsequences

CONSTANTS
    Handles, First, \* handle values, and the one the first pipe gets
    Conns,          \* those who write into pipes
    Own,            \* threads of the controller's process that send
    Capacity,       \* bytes a new buffer has room for: 64
    Sizes,          \* sizes of messages
    QueueLen,       \* messages a pipe has room for
    MaxWrites,      \* bound: messages of every connection
    MaxSends,       \* bound: messages of one thread of Own
    Hubs,           \* whose hub is looked at: "controller", "endpoint"
    NoPipe, NoConn, Waker

ASSUME NumbersAssumption ==
    /\ Capacity \in Nat \ {0} /\ Sizes \subseteq Nat
    /\ QueueLen \in Nat /\ MaxSends \in Nat /\ MaxWrites \in [Conns -> Nat]
    /\ Hubs \subseteq {"controller", "endpoint"}
ASSUME NamesAssumption ==
    /\ First \in Handles
    /\ NoPipe \notin Handles /\ NoConn \notin Conns /\ Waker \notin Handles \cup {NoPipe}

VARIABLES
    pipes, listening,       \* the pipes of the hub
    status, size, buffer,   \* NamedPipe: status, message_size, buffer.capacity()
    bus_receiver,           \* the hub has the receiving end of the channel
    pc, at,                 \* where recv is, and at which of the pipes
    bus_rx, waking, sent,   \* the channel and its senders, some between send and wake
    own_open,               \* the controller's own endpoint was not dropped
    conn, shut,             \* who is connected to an instance; who has closed
    data,                   \* sizes of the messages in an instance, unread
    op,                     \* the operation the kernel has not ended: none, listen, read
    port,                   \* the packets of the completion port
    written, heard          \* per connection, the sizes written and returned by recv

hubVars == <<pipes, listening, status, size, buffer, bus_receiver, pc, at>>
ownVars == <<bus_rx, waking, sent, own_open>>
kernelVars == <<conn, data, op, port>>
vars == <<hubVars, ownVars, kernelVars, shut, written, heard>>

Statuses == {"Free", "Readable", "Pending", "Ready", "Offline"}
Packet(key, result, n) == [key |-> key, result |-> result, n |-> n]
Packets == [key : Handles \cup {Waker}, result : {"ok", "more", "error"}, n : Nat]

TypeOK ==
    /\ pipes \in Seq(Handles) /\ listening \in Handles \cup {NoPipe}
    /\ status \in [Handles -> Statuses]
    /\ size \in [Handles -> Nat] /\ buffer \in [Handles -> Nat \ {0}]
    /\ bus_receiver \in BOOLEAN /\ own_open \in BOOLEAN
    /\ pc \in {"listen", "try_recv", "read", "wait", "over"} /\ at \in Nat \ {0}
    /\ bus_rx \in Seq(Own) /\ waking \subseteq Own /\ sent \in [Own -> Nat]
    /\ conn \in [Handles -> Conns \cup {NoConn}] /\ shut \subseteq Conns
    /\ data \in [Handles -> Seq(Nat)]
    /\ op \in [Handles -> {"none", "listen", "read"}]
    /\ port \in Seq(Packets)
    /\ written \in [Conns -> Seq(Sizes)] /\ heard \in [Conns -> Seq(Nat)]

\* NamedPipe::new.
Init ==
    /\ size = [h \in Handles |-> 0] /\ buffer = [h \in Handles |-> Capacity]
    /\ pc = "listen" /\ at = 1
    /\ bus_rx = <<>> /\ waking = {} /\ sent = [t \in Own |-> 0]
    /\ shut = {}
    /\ data = [h \in Handles |-> <<>>] /\ op = [h \in Handles |-> "none"]
    /\ port = <<>>
    /\ written = [c \in Conns |-> <<>>] /\ heard = [c \in Conns |-> <<>>]
    /\ \E hub \in Hubs :
          IF hub = "controller"
          THEN /\ listening = First /\ pipes = <<>>
               /\ bus_receiver = TRUE /\ own_open = TRUE
               /\ status = [h \in Handles |-> "Free"]
               /\ conn = [h \in Handles |-> NoConn]
          ELSE /\ listening = NoPipe /\ pipes = <<First>>
               /\ bus_receiver = FALSE /\ own_open = FALSE
               /\ status = [h \in Handles |-> IF h = First THEN "Readable" ELSE "Free"]
               /\ \E c \in Conns : conn = [h \in Handles |-> IF h = First THEN c ELSE NoConn]

-----------------------------------------------------------------------------
(* The kernel *)

InUse == ToSet(pipes) \cup ({listening} \ {NoPipe})
Unused == Handles \ InUse

Post(packet) == port' = Append(port, packet)

\* The first message of the pipe goes into the buffer as far as there is room.
Transfer(h, messages) ==
    LET s == Head(messages) room == buffer[h] - size[h] IN
    IF s <= room
    THEN Post(Packet(h, "ok", s)) /\ data' = [data EXCEPT ![h] = Tail(messages)]
    ELSE Post(Packet(h, "more", room))
         /\ data' = [data EXCEPT ![h] = <<s - room>> \o Tail(messages)]

\* CreateFileW finds the instance nobody is connected to.
Connect(c) ==
    /\ listening # NoPipe /\ conn[listening] = NoConn
    /\ c \notin shut /\ \A h \in Handles : conn[h] # c
    /\ conn' = [conn EXCEPT ![listening] = c]
    /\ IF op[listening] = "listen"
       THEN Post(Packet(listening, "ok", 0)) /\ op' = [op EXCEPT ![listening] = "none"]
       ELSE UNCHANGED <<port, op>>
    /\ UNCHANGED <<hubVars, ownVars, data, shut, written, heard>>

\* WriteFile.  Only the controller asks whether somebody is there (is_dead), which
\* writes a message of size 0.
Write(c) ==
    \E h \in Handles, s \in Sizes :
        /\ conn[h] = c /\ c \notin shut
        /\ s = 0 => listening = NoPipe
        /\ Len(written[c]) < MaxWrites[c] /\ Len(data[h]) < QueueLen
        /\ written' = [written EXCEPT ![c] = Append(@, s)]
        /\ IF op[h] = "read"
           THEN Transfer(h, <<s>>) /\ op' = [op EXCEPT ![h] = "none"]
           ELSE data' = [data EXCEPT ![h] = Append(@, s)] /\ UNCHANGED <<port, op>>
        /\ UNCHANGED <<hubVars, ownVars, conn, shut, heard>>

Shut(c) ==
    \E h \in Handles :
        /\ conn[h] = c /\ c \notin shut
        /\ shut' = shut \cup {c}
        /\ IF op[h] = "read"
           THEN Post(Packet(h, "error", 0)) /\ op' = [op EXCEPT ![h] = "none"]
           ELSE UNCHANGED <<port, op>>
        /\ UNCHANGED <<hubVars, ownVars, conn, data, written, heard>>

-----------------------------------------------------------------------------
(* The controller's own endpoint *)

OwnSend(t) ==
    /\ own_open /\ t \notin waking /\ sent[t] < MaxSends
    /\ bus_rx' = Append(bus_rx, t)
    /\ waking' = waking \cup {t} /\ sent' = [sent EXCEPT ![t] = @ + 1]
    /\ UNCHANGED <<hubVars, own_open, kernelVars, shut, written, heard>>

OwnDrop ==
    /\ own_open /\ waking = {} /\ own_open' = FALSE
    /\ UNCHANGED <<hubVars, bus_rx, waking, sent, kernelVars, shut, written, heard>>

\* Mutant: whoever sends does not wake.
WakeSilent(t) ==
    /\ t \in waking /\ waking' = waking \ {t}
    /\ UNCHANGED <<hubVars, bus_rx, sent, own_open, kernelVars, shut, written, heard>>

\* IoMultiplexing::wake.
Wake(t) ==
    /\ t \in waking /\ waking' = waking \ {t}
    /\ Post(Packet(Waker, "ok", 0))
    /\ UNCHANGED <<hubVars, bus_rx, sent, own_open, conn, data, op, shut, written, heard>>

-----------------------------------------------------------------------------
(* The pipes of the hub.  Whoever called recv calls it again when it returns. *)

\* IoMultiplexing::create_instance, under any handle value that is not in use.
CreateInstance(unused) == \E h \in unused : listening' = h

\* The listening pipe becomes one to read and is replaced.
Accept ==
    /\ pipes' = Append(pipes, listening)
    /\ status' = [status EXCEPT ![listening] = "Readable"]
    /\ CreateInstance(Unused)

\* A handle is closed: the kernel forgets the instance, and the next one of that
\* value is as NamedPipe::new makes it.
Release(h) ==
    /\ status' = [status EXCEPT ![h] = "Free"]
    /\ size' = [size EXCEPT ![h] = 0] /\ buffer' = [buffer EXCEPT ![h] = Capacity]
    /\ conn' = [conn EXCEPT ![h] = NoConn]
    /\ data' = [data EXCEPT ![h] = <<>>]

\* IoHub::listen is done: there is nothing to listen to or the pipe is Pending.
Listened ==
    /\ pc = "listen"
    /\ listening # NoPipe => status[listening] = "Pending"
    /\ pc' = "try_recv"
    /\ UNCHANGED <<pipes, listening, status, size, buffer, bus_receiver, at>>
    /\ UNCHANGED <<ownVars, kernelVars, shut, written, heard>>

\* NamedPipe::listen: nobody is there yet ...
Listen ==
    /\ pc = "listen" /\ listening # NoPipe
    /\ status[listening] = "Free" /\ conn[listening] = NoConn
    /\ op' = [op EXCEPT ![listening] = "listen"]
    /\ status' = [status EXCEPT ![listening] = "Pending"]
    /\ pc' = "try_recv"
    /\ UNCHANGED <<pipes, listening, size, buffer, bus_receiver, at>>
    /\ UNCHANGED <<ownVars, conn, data, port, shut, written, heard>>

\* ... somebody connected before ...
ListenConnected ==
    /\ pc = "listen" /\ listening # NoPipe
    /\ status[listening] = "Free" /\ conn[listening] \in Conns \ shut
    /\ Accept
    /\ UNCHANGED <<size, buffer, bus_receiver, pc, at>>
    /\ UNCHANGED <<ownVars, kernelVars, shut, written, heard>>

\* ... and has gone already, with what he wrote.
ListenFailed ==
    /\ pc = "listen" /\ listening # NoPipe
    /\ status[listening] = "Free" /\ conn[listening] \in shut
    /\ Release(listening)
    /\ CreateInstance(Unused \cup {listening})
    /\ UNCHANGED <<pipes, bus_receiver, pc, at, ownVars, op, port, shut, written, heard>>

TryRecv ==
    /\ pc = "try_recv" /\ bus_receiver /\ bus_rx # <<>>
    /\ bus_rx' = Tail(bus_rx)
    /\ pc' = "listen"
    /\ UNCHANGED <<pipes, listening, status, size, buffer, bus_receiver, at>>
    /\ UNCHANGED <<waking, sent, own_open, kernelVars, shut, written, heard>>

\* The channel is empty; it is given up when there is no sender any more.
TryRecvEmpty ==
    /\ pc = "try_recv" /\ (bus_receiver => bus_rx = <<>>)
    /\ bus_receiver' = (bus_receiver /\ own_open)
    /\ pc' = "read"
    /\ UNCHANGED <<pipes, listening, status, size, buffer, at>>
    /\ UNCHANGED <<ownVars, kernelVars, shut, written, heard>>

\* NamedPipe::read hands out a message that is complete.
ReadReady ==
    /\ pc = "read" /\ at <= Len(pipes)
    /\ LET h == pipes[at] IN
       /\ status[h] = "Ready" /\ size[h] > 0
       /\ status' = [status EXCEPT ![h] = "Readable"]
       /\ size' = [size EXCEPT ![h] = 0] /\ buffer' = [buffer EXCEPT ![h] = Capacity]
       /\ heard' = [heard EXCEPT ![conn[h]] = Append(@, size[h])]
    /\ pc' = "listen" /\ at' = 1
    /\ UNCHANGED <<pipes, listening, bus_receiver>>
    /\ UNCHANGED <<ownVars, kernelVars, shut, written>>

\* NamedPipe::read may read: the pipe is Readable or what came was empty.
MayRead(h) == status[h] = "Readable" \/ (status[h] = "Ready" /\ size[h] = 0)

\* Mutant: what was read at once is not waited for.
ReadAtOnce ==
    /\ pc = "read" /\ at <= Len(pipes)
    /\ LET h == pipes[at] IN
       /\ MayRead(h) /\ (data[h] # <<>> \/ conn[h] \notin shut)
       /\ IF data[h] # <<>>
          THEN Transfer(h, data[h]) /\ UNCHANGED <<op, status>>
          ELSE /\ op' = [op EXCEPT ![h] = "read"] /\ UNCHANGED <<data, port>>
               /\ status' = [status EXCEPT ![h] = "Pending"]
    /\ at' = at + 1
    /\ UNCHANGED <<pipes, listening, size, buffer, bus_receiver, pc>>
    /\ UNCHANGED <<ownVars, conn, shut, written, heard>>

\* ReadFile, which ends at once if there is something to read.
Read ==
    /\ pc = "read" /\ at <= Len(pipes)
    /\ LET h == pipes[at] IN
       /\ MayRead(h) /\ (data[h] # <<>> \/ conn[h] \notin shut)
       /\ status' = [status EXCEPT ![h] = "Pending"]
       /\ IF data[h] # <<>>
          THEN Transfer(h, data[h]) /\ UNCHANGED op
          ELSE op' = [op EXCEPT ![h] = "read"] /\ UNCHANGED <<data, port>>
    /\ at' = at + 1
    /\ UNCHANGED <<pipes, listening, size, buffer, bus_receiver, pc>>
    /\ UNCHANGED <<ownVars, conn, shut, written, heard>>

ReadPending ==
    /\ pc = "read" /\ at <= Len(pipes) /\ status[pipes[at]] = "Pending"
    /\ at' = at + 1
    /\ UNCHANGED <<pipes, listening, status, size, buffer, bus_receiver, pc>>
    /\ UNCHANGED <<ownVars, kernelVars, shut, written, heard>>

SwapRemove(s, i) ==
    IF i = Len(s) THEN Front(s) ELSE [Front(s) EXCEPT ![i] = Last(s)]

\* Mutants: the pipe that takes the place of the removed one is skipped; a pipe
\* is given up with messages in it.
ReadOfflineSkips ==
    /\ pc = "read" /\ at <= Len(pipes)
    /\ LET h == pipes[at] IN
       /\ status[h] = "Offline" \/ (MayRead(h) /\ data[h] = <<>> /\ conn[h] \in shut)
       /\ Release(h)
    /\ pipes' = SwapRemove(pipes, at)
    /\ at' = at + 1
    /\ UNCHANGED <<listening, bus_receiver, pc>>
    /\ UNCHANGED <<ownVars, op, port, shut, written, heard>>

ReadOfflineUnread ==
    /\ pc = "read" /\ at <= Len(pipes)
    /\ LET h == pipes[at] IN
       /\ status[h] = "Offline" \/ (MayRead(h) /\ conn[h] \in shut)
       /\ Release(h)
    /\ pipes' = SwapRemove(pipes, at)
    /\ UNCHANGED <<listening, bus_receiver, pc, at>>
    /\ UNCHANGED <<ownVars, op, port, shut, written, heard>>

\* The pipe is Offline, or ReadFile finds that it is: its handle is closed.
ReadOffline ==
    /\ pc = "read" /\ at <= Len(pipes)
    /\ LET h == pipes[at] IN
       /\ status[h] = "Offline" \/ (MayRead(h) /\ data[h] = <<>> /\ conn[h] \in shut)
       /\ Release(h)
    /\ pipes' = SwapRemove(pipes, at)
    /\ UNCHANGED <<listening, bus_receiver, pc, at>>
    /\ UNCHANGED <<ownVars, op, port, shut, written, heard>>

AllRead ==
    /\ pc = "read" /\ at > Len(pipes)
    /\ pc' = IF ~bus_receiver /\ listening = NoPipe /\ pipes = <<>> THEN "over" ELSE "wait"
    /\ at' = 1
    /\ UNCHANGED <<pipes, listening, status, size, buffer, bus_receiver>>
    /\ UNCHANGED <<ownVars, kernelVars, shut, written, heard>>

-----------------------------------------------------------------------------
(* The packets *)

\* Only an endpoint has a timeout; the controller, which listens, waits for ever.
Timeout ==
    /\ pc = "wait" /\ port = <<>> /\ listening = NoPipe
    /\ pc' = "listen"
    /\ UNCHANGED <<pipes, listening, status, size, buffer, bus_receiver, at>>
    /\ UNCHANGED <<ownVars, kernelVars, shut, written, heard>>

\* IoMultiplexing::wait returns the first packet.  (One of a pipe the hub does not
\* have would be ignored: OneOutstanding says that there is none.)
Take(key) ==
    /\ pc = "wait" /\ port # <<>> /\ Head(port).key = key
    /\ port' = Tail(port)
    /\ pc' = "listen"
    /\ UNCHANGED <<bus_receiver, at, ownVars, conn, data, op, shut, written, heard>>

Woken == Take(Waker) /\ UNCHANGED <<pipes, listening, status, size, buffer>>

Connected ==
    listening # NoPipe /\ Take(listening) /\ Accept /\ UNCHANGED <<size, buffer>>

\* Mutants: the size of the last part counts alone; the buffer does not grow.
ReadEndsAnew(h) ==
    LET packet == Head(port) IN
    /\ h \in ToSet(pipes) \ {listening} /\ Take(h)
    /\ size' = [size EXCEPT ![h] = IF packet.result = "error" THEN @ ELSE packet.n]
    /\ buffer' = [buffer EXCEPT ![h] = IF packet.result = "more" THEN 2 * @ ELSE @]
    /\ status' = [status EXCEPT ![h] = CASE packet.result = "ok" -> "Ready"
                                         [] packet.result = "more" -> "Readable"
                                         [] packet.result = "error" -> "Offline"]
    /\ UNCHANGED <<pipes, listening>>

ReadEndsFull(h) ==
    LET packet == Head(port) IN
    /\ h \in ToSet(pipes) \ {listening} /\ Take(h)
    /\ size' = [size EXCEPT ![h] = IF packet.result = "error" THEN @ ELSE @ + packet.n]
    /\ status' = [status EXCEPT ![h] = CASE packet.result = "ok" -> "Ready"
                                         [] packet.result = "more" -> "Readable"
                                         [] packet.result = "error" -> "Offline"]
    /\ UNCHANGED <<pipes, listening, buffer>>

ReadEnds(h) ==
    LET packet == Head(port) IN
    /\ h \in ToSet(pipes) \ {listening} /\ Take(h)
    /\ size' = [size EXCEPT ![h] = IF packet.result = "error" THEN @ ELSE @ + packet.n]
    /\ buffer' = [buffer EXCEPT ![h] = IF packet.result = "more" THEN 2 * @ ELSE @]
    /\ status' = [status EXCEPT ![h] = CASE packet.result = "ok" -> "Ready"
                                         [] packet.result = "more" -> "Readable"
                                         [] packet.result = "error" -> "Offline"]
    /\ UNCHANGED <<pipes, listening>>

-----------------------------------------------------------------------------
Recv ==
    \/ Listened \/ Listen \/ ListenConnected \/ ListenFailed
    \/ TryRecv \/ TryRecvEmpty
    \/ ReadReady \/ Read \/ ReadPending \/ ReadOffline \/ AllRead
    \/ Woken \/ Connected
    \/ \E h \in Handles : ReadEnds(h)

Next ==
    \/ Recv \/ Timeout
    \/ \E c \in Conns : Connect(c) \/ Write(c) \/ Shut(c)
    \/ \E t \in Own : OwnSend(t) \/ Wake(t)
    \/ OwnDrop

Spec == Init /\ [][Next]_vars

\* The thread calls recv again and again; who sent goes on to wake.  No timeout
\* need ever come, so none rescues a hub that sleeps on a pipe it did not arm.
FairSpec == Spec /\ WF_vars(Recv) /\ \A t \in Own : WF_vars(Wake(t))

-----------------------------------------------------------------------------
(* Properties *)

\* A pipe has an operation or its packet outstanding exactly when its status says
\* so, and none when its handle is not in use: no packet is ever taken for that
\* of another pipe which got the same handle value.
PacketsOf(h) == {k \in DOMAIN port : port[k].key = h}

OneOutstanding ==
    \A h \in Handles :
        IF h \in InUse /\ status[h] = "Pending"
        THEN IF op[h] = "none" THEN \E k \in DOMAIN port : PacketsOf(h) = {k}
                               ELSE PacketsOf(h) = {}
        ELSE op[h] = "none" /\ PacketsOf(h) = {}

\* What was read of a message fits in the buffer of its pipe, and so does the part
\* a packet reports.
InBuffer ==
    \A h \in Handles :
        /\ size[h] <= buffer[h]
        /\ \A k \in PacketsOf(h) : size[h] + port[k].n <= buffer[h]

\* The thread waits only when something was asked of every pipe it has.
AllArmed == pc = "wait" => \A h \in InUse : status[h] = "Pending"

\* It never sleeps on a message of its own process.
NoLostWake ==
    pc = "wait" /\ bus_rx # <<>> =>
        waking # {} \/ \E k \in DOMAIN port : port[k].key = Waker

\* recv returns every message whole, once and in order, whatever its size and that
\* of the buffer; those of size 0 only show is_dead that somebody is there.
Spoken(c) == Filter(written[c], Sizes \ {0})

Whole == \A c \in Conns : IsPrefix(heard[c], Spoken(c))

\* A pipe that was accepted is closed only when everything in it was read.
NothingLost ==
    [][\A h \in ToSet(pipes) \ ToSet(pipes') : heard[conn[h]] = Spoken(conn[h])]_vars

\* Everything that is written is read in the end, unless the writer was gone
\* before he was accepted.
Heard ==
    \A c \in Conns :
        heard[c] # Spoken(c) ~>
            heard[c] = Spoken(c) \/ \A h \in Handles : conn[h] # c
=============================================================================
