--------------------------- MODULE BusController ---------------------------
(***************************************************************************)
(* The bus controller of ipmb (ipmb/src/bus_controller.rs): the thread of  *)
(* the process that won the election.  It takes one message at a time from *)
(* its IoHub, registers the endpoints that connect, routes every other     *)
(* message to the registered endpoints whose label the selector accepts,   *)
(* and keeps a message nobody accepts until its time to live is over.      *)
(*                                                                         *)
(* A peer is one successful or failed look_up: one connection to the       *)
(* controller and one private channel back, whose write end is the         *)
(* endpoint's Remote in the controller.  A process that rejoins is another *)
(* peer.  A LabelOp is the set of labels it accepts, a payload is the pair *)
(* of its sender and its number.                                           *)
(***************************************************************************)
EXTENDS Integers, Sequences

CONSTANTS
    Peers,          \* look_ups, each with its own Remote
    Own,            \* the process of the controller, as a sender
    Labels,         \* the labels endpoints join with
    OwnLabel,       \* the label of the controller's own endpoint
    Traffic,        \* the kinds of message that are sent
    Platform,       \* "linux", "macos" or "windows"
    Refusals,       \* the system may refuse a message although its reader is there
    DetectEvery,    \* period of detect_reachable (30 s in the code)
    Verdicts,       \* how the controller reads the ConnectMessages that are sent
    MaxSend,        \* bound: messages that are sent
    MaxClock        \* bound: the last instant of the clock

Verdict == {"ok", "version", "token", "garbled"}
Modes == {"unicast", "multicast"}

\* What routing looks at in a Selector; `bare`: no object, no memory region.
Selector == [accepts : SUBSET Labels, mode : Modes, ttl : Nat, bare : BOOLEAN]

ASSUME PeersAssumption == Own \notin Peers
ASSUME LabelAssumption == OwnLabel \in Labels
ASSUME TrafficAssumption == Traffic \subseteq Selector
ASSUME VerdictAssumption == Verdicts \subseteq Verdict
ASSUME PlatformAssumption == Platform \in {"linux", "macos", "windows"}
ASSUME RefusalAssumption == Refusals \in BOOLEAN
ASSUME BoundAssumption ==
    DetectEvery \in Nat /\ MaxSend \in Nat /\ MaxClock \in Nat

Senders == Peers \cup {Own}
Message == [src : Senders, seq : Nat, sel : Traffic]
Endpoint == [seat : Nat, label : Labels, remote : Peers]
Entry == [ticket : Nat, expire : Nat, msg : Message]
Ack == {"Ok", "ErrVersion", "ErrToken"}

\* The answer is on the channel; not sent; an Ok that was lost and reported as sent;
\* another that was lost, or one the system refused.
AckStates == Ack \cup {"none", "OkLost", "Unsent"}

VARIABLES
    endpoints,            \* Vec<Endpoint>; the seat is the place in the Vec
    message_buffer,       \* Vec<(Instant, EncodedMessage)>, ordered by ticket
    message_buffer_swap,  \* what a flush keeps
    draining,             \* the part of the taken buffer still to be drained
    last_detect_reachable,
    now,                  \* the instant this iteration of run works with
    pc,                   \* where run is: "recv", "flush" or "tidy"
    counter,              \* source of seats and tickets
    own_open,             \* the controller's own EndpointReceiver is alive
    own_log,              \* all messages passed to self.sender
    request,              \* the ConnectMessage of each peer, until received
    inbox,                \* messages sent to the controller, not received yet
    status,               \* state of the read end of each peer's channel
    ack,                  \* what came of the ConnectMessageAck of each channel
    log,                  \* all messages sent on each channel
    refused,              \* peers to whom a send failed although they read
    sent,                 \* how many messages have been sent
    clock                 \* Instant::now()

busVars == <<endpoints, message_buffer, message_buffer_swap, draining,
             last_detect_reachable, now, pc, counter>>
outVars == <<own_log, ack, log, refused>>
inVars == <<request, inbox>>
envVars == <<own_open, status, sent, clock>>
vars == <<busVars, outVars, inVars, envVars>>

NoRequest == [label |-> OwnLabel, verdict |-> "none"]
Request == [label : Labels, verdict : Verdict \cup {"none"}]

TypeOK ==
    /\ endpoints \subseteq Endpoint
    /\ message_buffer \subseteq Entry
    /\ message_buffer_swap \subseteq Entry
    /\ draining \subseteq Entry
    /\ last_detect_reachable \in Nat
    /\ now \in Nat
    /\ pc \in {"recv", "flush", "tidy"}
    /\ counter \in Nat
    /\ own_open \in BOOLEAN
    /\ own_log \in Seq(Message)
    /\ request \in [Peers -> Request]
    /\ inbox \in [Senders -> Seq(Message)]
    /\ status \in [Peers -> {"new", "open", "closed", "reset"}]
    /\ ack \in [Peers -> AckStates]
    /\ log \in [Peers -> Seq(Message)]
    /\ refused \subseteq Peers
    /\ sent \in Nat
    /\ clock \in Nat

Init ==
    /\ endpoints = {}
    /\ message_buffer = {}
    /\ message_buffer_swap = {}
    /\ draining = {}
    /\ last_detect_reachable = 0
    /\ now = 0
    /\ pc = "recv"
    /\ counter = 0
    /\ own_open = TRUE
    /\ own_log = <<>>
    /\ request = [p \in Peers |-> NoRequest]
    /\ inbox = [s \in Senders |-> <<>>]
    /\ status = [p \in Peers |-> "new"]
    /\ ack = [p \in Peers |-> "none"]
    /\ log = [p \in Peers |-> <<>>]
    /\ refused = {}
    /\ sent = 0
    /\ clock = 0

-----------------------------------------------------------------------------
(* The processes around the controller. *)

\* look_up sends a ConnectMessage with the write end of a new channel.
LookUp(p) ==
    /\ status[p] = "new"
    /\ \E l \in Labels, v \in Verdicts :
          request' = [request EXCEPT ![p] = [label |-> l, verdict |-> v]]
    /\ status' = [status EXCEPT ![p] = "open"]
    /\ UNCHANGED <<busVars, outVars, inbox, own_open, sent, clock>>

\* EndpointSender::send; a client has a sender once look_up saw the Ok.
Send(s) ==
    /\ s # Own => ack[s] = "Ok"
    /\ sent < MaxSend
    /\ \E sel \in Traffic :
          inbox' = [inbox EXCEPT ![s] =
                      Append(@, [src |-> s, seq |-> sent + 1, sel |-> sel])]
    /\ sent' = sent + 1
    /\ UNCHANGED <<busVars, outVars, request, own_open, status, clock>>

\* The read end goes away: the receiver is dropped, look_up gave up, or the
\* process died.  The kernel reports ECONNRESET on the other end only when
\* something was left unread.
CloseReader(p) ==
    /\ status[p] = "open"
    /\ \E unread \in BOOLEAN :
          /\ unread => ack[p] \in Ack \/ log[p] # <<>>
          /\ status' = [status EXCEPT ![p] = IF unread THEN "reset" ELSE "closed"]
    /\ UNCHANGED <<busVars, outVars, inVars, own_open, sent, clock>>

\* Drop of the EndpointReceiver in the controller's process.
CloseOwn ==
    /\ own_open
    /\ own_open' = FALSE
    /\ UNCHANGED <<busVars, outVars, inVars, status, sent, clock>>

Tick ==
    /\ clock < MaxClock
    /\ clock' = clock + 1
    /\ UNCHANGED <<busVars, outVars, inVars, own_open, status, sent>>

-----------------------------------------------------------------------------
(* Routing: handle_message for a message that is not a ConnectMessage. *)

Matching(m) == {e \in endpoints : e.label \in m.sel.accepts}

\* EncodedMessage::send to a remote whose reader is there.  Linux: whatever sendmsg
\* fails of (a message that is too large, no memory, a signal) is a Disconnect; and a
\* message without attachments that came through a socket is sent on with 32 bytes of
\* control data nobody has written, which sendmsg refuses unless they happen to look
\* like a control message.
LinuxSend(m) ==
    IF Refusals \/ (m.sel.bare /\ m.src # Own) THEN {"Ok", "Disconnect"} ELSE {"Ok"}

\* macOS: a failure on a port that is not dead is reported as Ok.
MacosSend(m) == {"Ok", "Lost"}

\* Windows: a handle that cannot be duplicated for the reader is a Disconnect, and so is
\* whatever WriteFile fails of.
WindowsSend(m) == IF Refusals THEN {"Ok", "Disconnect"} ELSE {"Ok"}

SendOutcomes(m, r) ==
    CASE status[r] # "open" -> {"Disconnect"}
      [] status[r] = "open" /\ Platform = "linux" -> LinuxSend(m)
      [] status[r] = "open" /\ Platform = "macos" -> MacosSend(m)
      [] OTHER -> WindowsSend(m)

\* One result of send for every endpoint the selector accepts.
Outcomes(m) ==
    {out \in [Matching(m) -> {"Ok", "Lost", "Disconnect"}] :
        \A e \in Matching(m) : out[e] \in SendOutcomes(m, e.remote)}

\* Mutants: retain stops at the first endpoint, or at none, whatever the mode.
TriedFirst(m, out) ==
    {e \in DOMAIN out :
        \A f \in DOMAIN out : f.seat < e.seat => out[f] = "Disconnect"}
TriedAll(m, out) == DOMAIN out

\* The endpoints retain sends to: a unicast stops at the first that took it.
Tried(m, out) ==
    {e \in DOMAIN out :
        m.sel.mode = "unicast" =>
            \A f \in DOMAIN out : f.seat < e.seat => out[f] = "Disconnect"}

\* Mutant: a failed send leaves the endpoint registered.
OfflineIgnored(m, out) == {}

\* Whoever cannot be reached is dropped from the table.
Offline(m, out) == {e \in Tried(m, out) : out[e] = "Disconnect"}

\* Mutant: the result of an earlier send is not looked at.
ReachedAll(m, out) == {e.remote : e \in {f \in DOMAIN out : out[f] = "Ok"}}

\* Whose channel the message is put on.
Reached(m, out) == {e.remote : e \in {f \in Tried(m, out) : out[f] = "Ok"}}

\* Some send succeeds: the first endpoint whose send does is always tried.
Routed(m, out) == \E e \in DOMAIN out : out[e] # "Disconnect"

\* The message is also, or only, for the controller's own endpoint.
ToSelf(m, out) ==
    /\ ~Routed(m, out) \/ m.sel.mode = "multicast"
    /\ OwnLabel \in m.sel.accepts

\* handle_message gives the message back.
Remain(m, out) == ~Routed(m, out) /\ ~(ToSelf(m, out) /\ own_open)

\* The state handle_message changes.
Deliver(m, out) ==
    /\ endpoints' = endpoints \ Offline(m, out)
    /\ log' = [r \in Peers |->
                 IF r \in Reached(m, out) THEN Append(log[r], m) ELSE log[r]]
    /\ refused' = refused \cup
                    {e.remote : e \in {f \in Offline(m, out) : status[f.remote] = "open"}}
    /\ own_log' = IF ToSelf(m, out) /\ own_open THEN Append(own_log, m) ELSE own_log

-----------------------------------------------------------------------------
(* One iteration of run: receive, maybe flush, tidy. *)

\* A message that is not routed is kept for its time to live.
ReceiveMessage(s) ==
    /\ pc = "recv"
    /\ inbox[s] # <<>>
    /\ inbox' = [inbox EXCEPT ![s] = Tail(@)]
    /\ now' = clock
    /\ LET m == Head(inbox[s]) IN
       \E out \in Outcomes(m) :
          /\ Deliver(m, out)
          /\ message_buffer' =
                IF Remain(m, out) /\ m.sel.ttl # 0
                THEN message_buffer \cup
                       {[ticket |-> counter, expire |-> clock + m.sel.ttl, msg |-> m]}
                ELSE message_buffer
    /\ counter' = counter + 1
    /\ pc' = "tidy"
    /\ UNCHANGED <<message_buffer_swap, draining, last_detect_reachable, request,
                   ack, envVars>>

\* The answer endpoint_connect sends.
AckFor(p) ==
    CASE request[p].verdict = "version" -> "ErrVersion"
      [] request[p].verdict = "token" -> "ErrToken"
      [] OTHER -> "Ok"

\* It goes the way of every message, but is never bare.
AckOutcomes(p) ==
    CASE status[p] # "open" -> {"Disconnect"}
      [] status[p] = "open" /\ Platform = "macos" -> {"Ok", "Lost"}
      [] OTHER -> IF Refusals THEN {"Ok", "Disconnect"} ELSE {"Ok"}

\* Mutant: a peer with the wrong token is dropped without an answer.
ReplySilent(p, out) ==
    CASE status[p] # "open" \/ request[p].verdict = "token" -> ack
      [] out = "Ok" -> [ack EXCEPT ![p] = AckFor(p)]
      [] OTHER -> [ack EXCEPT ![p] = "Unsent"]

Reply(p, out) ==
    CASE status[p] # "open" -> ack
      [] status[p] = "open" /\ out = "Ok" -> [ack EXCEPT ![p] = AckFor(p)]
      [] status[p] = "open" /\ out = "Lost" /\ AckFor(p) = "Ok" -> [ack EXCEPT ![p] = "OkLost"]
      [] OTHER -> [ack EXCEPT ![p] = "Unsent"]

\* Mutant: the result of sending the Ok is not looked at.
AcceptedUnanswered(p, out) ==
    /\ request[p].verdict = "ok"
    /\ ~\E e \in endpoints : e.label = request[p].label /\ e.remote = p

\* The send of the Ok succeeded, or so it seems, and the pair of label and remote is
\* not registered yet.
Accepted(p, out) ==
    /\ request[p].verdict = "ok"
    /\ out # "Disconnect"
    /\ ~\E e \in endpoints : e.label = request[p].label /\ e.remote = p

\* A ConnectMessage; a new endpoint makes run drain the buffer.
ReceiveConnect(p) ==
    /\ pc = "recv"
    /\ request[p].verdict \in {"ok", "version", "token"}
    /\ request' = [request EXCEPT ![p] = NoRequest]
    /\ now' = clock
    /\ counter' = counter + 1
    /\ \E out \in AckOutcomes(p) :
          /\ ack' = Reply(p, out)
          /\ endpoints' =
                IF Accepted(p, out)
                THEN endpoints \cup
                       {[seat |-> counter, label |-> request[p].label, remote |-> p]}
                ELSE endpoints
          /\ IF Accepted(p, out) /\ message_buffer # {}
             THEN pc' = "flush" /\ draining' = message_buffer /\ message_buffer' = {}
             ELSE pc' = "tidy" /\ UNCHANGED <<draining, message_buffer>>
    /\ UNCHANGED <<message_buffer_swap, last_detect_reachable, own_log, log, refused,
                   inbox, envVars>>

\* IoHub::recv cannot parse what it read: run starts over, nothing is tidied.
ReceiveError(p) ==
    /\ pc = "recv"
    /\ request[p].verdict = "garbled"
    /\ request' = [request EXCEPT ![p] = NoRequest]
    /\ UNCHANGED <<busVars, outVars, inbox, envVars>>

\* Mutant: the buffer is taken apart in any order.
NextToDrain(d) == d \in draining

\* drain(..) goes from the oldest entry to the newest.
FirstToDrain(d) == \A other \in draining : d.ticket <= other.ticket

\* Mutant: the comparison the wrong way round.
KeptExpired(d, out) == Remain(d.msg, out) /\ d.expire <= now

\* An entry goes to the swap buffer when nobody took it and it is not too old.
Kept(d, out) == Remain(d.msg, out) /\ d.expire > now

\* The next message of the taken buffer; its age is looked at only when nobody
\* took it.
FlushOne ==
    /\ pc = "flush"
    /\ \E d \in draining :
          /\ FirstToDrain(d)
          /\ draining' = draining \ {d}
          /\ \E out \in Outcomes(d.msg) :
                /\ Deliver(d.msg, out)
                /\ message_buffer_swap' =
                      IF Kept(d, out)
                      THEN message_buffer_swap \cup {d}
                      ELSE message_buffer_swap
    /\ UNCHANGED <<message_buffer, last_detect_reachable, now, pc, counter, ack,
                   inVars, envVars>>

\* The two buffers change places.
FlushDone ==
    /\ pc = "flush"
    /\ draining = {}
    /\ message_buffer' = message_buffer_swap
    /\ message_buffer_swap' = {}
    /\ pc' = "tidy"
    /\ UNCHANGED <<endpoints, draining, last_detect_reachable, now, counter,
                   outVars, inVars, envVars>>

\* Remote::is_dead.  Linux: SO_ERROR, so a reader that left nothing unread is not
\* noticed.  macOS: the port is a dead name.  Windows: an empty write fails.
LinuxDead(r) == status[r] = "reset"
MacosDead(r) == status[r] # "open"
WindowsDead(r) == status[r] # "open"

\* Mutant: retain keeps the dead.
IsDeadNegated(r) == status[r] = "open"

IsDead(r) ==
    CASE Platform = "linux" -> LinuxDead(r)
      [] Platform = "macos" -> MacosDead(r)
      [] OTHER -> WindowsDead(r)

\* detect_reachable, then maintain.
Tidy ==
    /\ pc = "tidy"
    /\ LET due == now - last_detect_reachable > DetectEvery IN
       /\ endpoints' = IF due THEN {e \in endpoints : ~IsDead(e.remote)} ELSE endpoints
       /\ last_detect_reachable' = IF due THEN now ELSE last_detect_reachable
    /\ message_buffer' = {b \in message_buffer : b.expire > now}
    /\ pc' = "recv"
    /\ UNCHANGED <<message_buffer_swap, draining, now, counter, outVars, inVars,
                   envVars>>

Run ==
    \/ \E s \in Senders : ReceiveMessage(s)
    \/ \E p \in Peers : ReceiveConnect(p) \/ ReceiveError(p)
    \/ FlushOne
    \/ FlushDone
    \/ Tidy

Environment ==
    \/ \E p \in Peers : LookUp(p) \/ CloseReader(p)
    \/ \E s \in Senders : Send(s)
    \/ CloseOwn
    \/ Tick

Next == Run \/ Environment

Spec == Init /\ [][Next]_vars

\* The controller's thread never stops and is never blocked for ever; nobody
\* else has to do anything.
FairSpec == Spec /\ WF_vars(Run)

-----------------------------------------------------------------------------
(* Properties *)

Held == message_buffer \cup message_buffer_swap \cup draining
MessagesIn(q) == {q[i] : i \in DOMAIN q}

\* No message waits in the buffer while somebody who accepts it is there: no
\* registered endpoint matches its selector, and neither does the controller's
\* own endpoint while its receiver is alive (the drain in run, and what
\* handle_message gives back).
BufferedUnmatched ==
    \A b \in message_buffer \cup message_buffer_swap :
        /\ \A e \in endpoints : e.label \notin b.msg.sel.accepts
        /\ own_open => OwnLabel \notin b.msg.sel.accepts

\* A unicast message is consumed once: it is in one place at most of all the
\* channels, the controller's own channel and the buffers
\* ("The message can only be consumed by one endpoint", SelectorMode).
UnicastAtMostOnce ==
    \A p \in Peers : \A m \in MessagesIn(log[p]) :
        m.sel.mode = "unicast" =>
            /\ \A q \in Peers \ {p} : m \notin MessagesIn(log[q])
            /\ m \notin MessagesIn(own_log)
            /\ \A b \in Held : b.msg # m

InOrder(q) ==
    \A i, j \in DOMAIN q : i < j /\ q[i].src = q[j].src => q[i].seq < q[j].seq

\* Messages of one sender reach every receiver in the order they were sent and
\* without duplicates, although some of them waited in the buffer and others
\* did not.
SourceOrder == InOrder(own_log) /\ \A p \in Peers : InOrder(log[p])

\* What look_up relies on when it takes the first message of a new channel for
\* the answer: nothing is routed to a channel before its Ok, and nothing at all
\* to a peer that was refused.  On macOS the Ok can be lost without the controller
\* noticing, and what it drains then comes first.
AckFirst ==
    \A p \in Peers :
        log[p] # <<>> \/ (\E e \in endpoints : e.remote = p) =>
            ack[p] = "Ok" \/ (Platform = "macos" /\ ack[p] = "OkLost")

\* An endpoint that was told Ok and still reads is in the table of the controller,
\* unless the system refused a message for it, which the controller takes for its end.
AckedIsRegistered ==
    \A p \in Peers :
        ack[p] = "Ok" /\ status[p] = "open" =>
            p \in refused \/ \E e \in endpoints : e.remote = p

\* The controller implements the bus: what waits is in an inbox or a buffer, and
\* the members are the registered endpoints and, while its receiver is alive, the
\* controller's own process.
Bus == INSTANCE MessageBus WITH
    Users <- Senders,
    members <- {[who |-> e.remote, label |-> e.label] : e \in endpoints}
                 \cup (IF own_open THEN {[who |-> Own, label |-> OwnLabel]} ELSE {}),
    waiting <- (UNION {MessagesIn(inbox[s]) : s \in Senders}) \cup {b.msg : b \in Held},
    consumed <- [u \in Senders |->
                   MessagesIn(IF u = Own THEN own_log ELSE log[u])]

ImplementsBus == Bus!Spec

\* A message leaves the buffers only into some channel, or because it expired.
HeldUntilRoutedOrExpired ==
    [][\A b \in Held :
          \/ b \in Held'
          \/ b.expire <= now'
          \/ b.msg \in MessagesIn(own_log')
          \/ \E p \in Peers : b.msg \in MessagesIn(log'[p])]_vars

\* When run takes a multicast out of an inbox, every registered endpoint that matches
\* and still reads gets it, or the system refuses it to this very endpoint, which then
\* is registered no more.
MulticastReachesAll ==
    [][\A s \in Senders :
          inbox[s] # <<>> /\ inbox'[s] = Tail(inbox[s]) =>
             LET m == Head(inbox[s]) IN
             m.sel.mode = "multicast" =>
                \A e \in Matching(m) :
                    status[e.remote] = "open" =>
                       \/ m \in MessagesIn(log'[e.remote])
                       \/ e.remote \in refused' \ refused /\ e \notin endpoints']_vars

\* "All endpoints can consume this message" (README, Multicast): none that is there,
\* matches and reads is left out.
MulticastReachesEverybody ==
    [][\A s \in Senders :
          inbox[s] # <<>> /\ inbox'[s] = Tail(inbox[s]) =>
             LET m == Head(inbox[s]) IN
             m.sel.mode = "multicast" =>
                \A e \in Matching(m) :
                    status[e.remote] = "open" => m \in MessagesIn(log'[e.remote])]_vars

\* A peer whose connect the controller can parse is sent an answer, whatever the
\* controller has buffered, unless it stops reading: the one thing that can keep the
\* answer from it is the send (OkLost, Unsent).
ConnectAnswered ==
    \A p \in Peers :
        request[p].verdict \in {"ok", "version", "token"}
            ~> (ack[p] # "none" \/ status[p] # "open")
=============================================================================
