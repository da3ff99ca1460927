------------------------ MODULE BusControllerProofs ------------------------
(***************************************************************************)
(* The bus controller for every set of peers, every traffic, every         *)
(* platform and every bound: the types, what is kept in buffer, who is     *)
(* registered; then where a message is, from which follow that a unicast   *)
(* is handed out once, that messages of one sender stay in order, that the *)
(* abstract bus is implemented, and that nothing is lost on the way.       *)
(***************************************************************************)
EXTENDS BusController, WellFoundedInduction, TLAPS

\* What handle_message leaves behind is well typed, whatever the sends return.
LEMMA DeliverType ==
    ASSUME TypeOK, NEW m \in Message, NEW out \in Outcomes(m), Deliver(m, out)
    PROVE  /\ endpoints' \subseteq endpoints
           /\ log' \in [Peers -> Seq(Message)]
           /\ own_log' \in Seq(Message)
           /\ refused' \subseteq Peers
<1>1. Offline(m, out) \subseteq endpoints
    BY DEF Offline, Tried, Outcomes, Matching
<1>2. refused' \subseteq Peers
    BY <1>1 DEF TypeOK, Deliver, Endpoint
<1> QED BY <1>2 DEF TypeOK, Deliver

LEMMA InitType == Init => TypeOK
BY LabelAssumption DEF Init, TypeOK, NoRequest, Request, Senders, AckStates

\* Every variable keeps its type.
LEMMA StepType == TypeOK /\ [Next]_vars => TypeOK'
<1> SUFFICES ASSUME TypeOK, [Next]_vars PROVE TypeOK'
    OBVIOUS
<1> USE LabelAssumption, TrafficAssumption, VerdictAssumption, BoundAssumption
<1>1. ASSUME NEW p \in Peers, LookUp(p) PROVE TypeOK'
    <2>1. request' \in [Peers -> Request]
        BY <1>1 DEF LookUp, TypeOK, Request
    <2>2. status' \in [Peers -> {"new", "open", "closed", "reset"}]
        BY <1>1 DEF LookUp, TypeOK
    <2> QED BY <1>1, <2>1, <2>2
            DEF LookUp, TypeOK, busVars, outVars, inVars, envVars
<1>2. ASSUME NEW s \in Senders, Send(s) PROVE TypeOK'
    <2>1. PICK sel \in Traffic :
              inbox' = [inbox EXCEPT ![s] =
                          Append(@, [src |-> s, seq |-> sent + 1, sel |-> sel])]
        BY <1>2 DEF Send
    <2>2. [src |-> s, seq |-> sent + 1, sel |-> sel] \in Message
        BY DEF Message, TypeOK
    <2>3. inbox' \in [Senders -> Seq(Message)]
        BY <2>1, <2>2 DEF TypeOK
    <2>4. sent' \in Nat
        BY <1>2 DEF Send, TypeOK
    <2> QED BY <1>2, <2>3, <2>4 DEF Send, TypeOK, busVars, outVars
<1>3. ASSUME NEW p \in Peers, CloseReader(p) PROVE TypeOK'
    BY <1>3 DEF CloseReader, TypeOK, busVars, outVars, inVars
<1>4. CASE CloseOwn
    BY <1>4 DEF CloseOwn, TypeOK, busVars, outVars, inVars
<1>5. CASE Tick
    BY <1>5 DEF Tick, TypeOK, busVars, outVars, inVars
<1>6. ASSUME NEW s \in Senders, ReceiveMessage(s) PROVE TypeOK'
    <2> DEFINE m == Head(inbox[s])
    <2>1. m \in Message
        <3>1. inbox[s] \in Seq(Message) /\ inbox[s] # <<>>
            BY <1>6 DEF ReceiveMessage, TypeOK
        <3> QED BY <3>1
    <2>2a. m.sel.ttl \in Nat
        BY <2>1 DEF Message, Selector
    <2>2. PICK out \in Outcomes(m) :
              /\ Deliver(m, out)
              /\ message_buffer' =
                    IF Remain(m, out) /\ m.sel.ttl # 0
                    THEN message_buffer \cup
                           {[ticket |-> counter, expire |-> clock + m.sel.ttl, msg |-> m]}
                    ELSE message_buffer
        BY <1>6 DEF ReceiveMessage
    <2>3. [ticket |-> counter, expire |-> clock + m.sel.ttl, msg |-> m] \in Entry
        BY <2>1, <2>2a DEF Entry, TypeOK
    <2>4. message_buffer' \subseteq Entry
        BY <2>2, <2>3 DEF TypeOK
    <2>5. inbox' \in [Senders -> Seq(Message)]
        BY <1>6 DEF ReceiveMessage, TypeOK
    <2>6. /\ endpoints' \subseteq endpoints
          /\ log' \in [Peers -> Seq(Message)]
          /\ own_log' \in Seq(Message) /\ refused' \subseteq Peers
        BY <2>1, <2>2, DeliverType
    <2> QED BY <1>6, <2>4, <2>5, <2>6 DEF ReceiveMessage, TypeOK, envVars
<1>7. ASSUME NEW p \in Peers, ReceiveConnect(p) PROVE TypeOK'
    <2>1. AckFor(p) \in Ack /\ Ack \subseteq AckStates
        BY DEF AckFor, Ack, AckStates
    <2>2. request' \in [Peers -> Request]
        BY <1>7 DEF ReceiveConnect, TypeOK, NoRequest, Request
    <2>3. [seat |-> counter, label |-> request[p].label, remote |-> p] \in Endpoint
        BY DEF TypeOK, Request, Endpoint
    <2>4. PICK out \in AckOutcomes(p) :
              /\ ack' = Reply(p, out)
              /\ endpoints' =
                    IF Accepted(p, out)
                    THEN endpoints \cup
                           {[seat |-> counter, label |-> request[p].label, remote |-> p]}
                    ELSE endpoints
              /\ IF Accepted(p, out) /\ message_buffer # {}
                 THEN pc' = "flush" /\ draining' = message_buffer /\ message_buffer' = {}
                 ELSE pc' = "tidy" /\ UNCHANGED <<draining, message_buffer>>
        BY <1>7 DEF ReceiveConnect
    <2>5. Reply(p, out) \in [Peers -> AckStates]
        BY <2>1 DEF Reply, TypeOK, AckStates
    <2>6. endpoints' \subseteq Endpoint
        BY <2>3, <2>4 DEF TypeOK
    <2>7. /\ message_buffer' \subseteq Entry /\ draining' \subseteq Entry
          /\ pc' \in {"flush", "tidy"}
        BY <2>4 DEF TypeOK
    <2> QED BY <1>7, <2>2, <2>4, <2>5, <2>6, <2>7 DEF ReceiveConnect, TypeOK, envVars
<1>8. ASSUME NEW p \in Peers, ReceiveError(p) PROVE TypeOK'
    BY <1>8 DEF ReceiveError, TypeOK, NoRequest, Request, busVars, outVars, envVars
<1>9. CASE FlushOne
    <2>1. PICK d \in draining :
              /\ draining' = draining \ {d}
              /\ \E out \in Outcomes(d.msg) :
                    /\ Deliver(d.msg, out)
                    /\ message_buffer_swap' =
                          IF Kept(d, out)
                          THEN message_buffer_swap \cup {d}
                          ELSE message_buffer_swap
        BY <1>9 DEF FlushOne
    <2>2. d \in Entry /\ d.msg \in Message
        BY DEF TypeOK, Entry
    <2>3. /\ endpoints' \subseteq endpoints
          /\ log' \in [Peers -> Seq(Message)]
          /\ own_log' \in Seq(Message) /\ refused' \subseteq Peers
        BY <2>1, <2>2, DeliverType
    <2>4. message_buffer_swap' \subseteq Entry /\ draining' \subseteq Entry
        BY <2>1, <2>2 DEF TypeOK
    <2> QED BY <1>9, <2>3, <2>4 DEF FlushOne, TypeOK, inVars, envVars
<1>10. CASE FlushDone
    BY <1>10 DEF FlushDone, TypeOK, outVars, inVars, envVars
<1>11. CASE Tidy
    BY <1>11 DEF Tidy, TypeOK, outVars, inVars, envVars
<1>12. CASE UNCHANGED vars
    BY <1>12 DEF TypeOK, vars, busVars, outVars, inVars, envVars
<1> QED BY <1>1, <1>2, <1>3, <1>4, <1>5, <1>6, <1>7, <1>8, <1>9, <1>10, <1>11, <1>12
        DEF Next, Run, Environment

THEOREM TypeCorrect == Spec => []TypeOK
BY InitType, StepType, PTL DEF Spec
-----------------------------------------------------------------------------
\* While run is not draining, nothing is left of a drain; while it is, new
\* messages cannot have been buffered.
BuffersByPhase ==
    /\ pc # "flush" => draining = {} /\ message_buffer_swap = {}
    /\ pc = "flush" => message_buffer = {}

\* A message handle_message gives back has been refused by every endpoint that
\* matches, and all of these have been removed.
LEMMA RemainUnmatched ==
    ASSUME NEW m, NEW out \in Outcomes(m), Deliver(m, out), Remain(m, out)
    PROVE  /\ \A e \in endpoints' : e.label \notin m.sel.accepts
           /\ own_open => OwnLabel \notin m.sel.accepts
<1>1. DOMAIN out = Matching(m)
    BY DEF Outcomes
<1>2. \A e \in Matching(m) : out[e] = "Disconnect"
    BY <1>1 DEF Remain, Routed
<1>3. Offline(m, out) = Matching(m)
    BY <1>1, <1>2 DEF Offline, Tried
<1>4. \A e \in endpoints' : e.label \notin m.sel.accepts
    BY <1>3 DEF Deliver, Matching
<1>5. own_open => OwnLabel \notin m.sel.accepts
    BY DEF Remain, ToSelf
<1> QED BY <1>4, <1>5

\* Endpoints only leave and the own receiver only closes, so a message that was
\* unmatched stays so; the only step that adds an endpoint empties the buffer.
LEMMA StepUnmatched ==
    TypeOK /\ BuffersByPhase /\ BufferedUnmatched /\ [Next]_vars
        => BuffersByPhase' /\ BufferedUnmatched'
<1> SUFFICES ASSUME TypeOK, BuffersByPhase, BufferedUnmatched, [Next]_vars
             PROVE  BuffersByPhase' /\ BufferedUnmatched'
    OBVIOUS
<1> USE DEF BuffersByPhase, BufferedUnmatched
<1>1. ASSUME NEW s \in Senders, ReceiveMessage(s)
      PROVE  BuffersByPhase' /\ BufferedUnmatched'
    <2> DEFINE m == Head(inbox[s])
               entry == [ticket |-> counter, expire |-> clock + m.sel.ttl, msg |-> m]
    <2>1. PICK out \in Outcomes(m) :
              /\ Deliver(m, out)
              /\ message_buffer' = IF Remain(m, out) /\ m.sel.ttl # 0
                                   THEN message_buffer \cup {entry}
                                   ELSE message_buffer
        BY <1>1 DEF ReceiveMessage
    <2>2. endpoints' \subseteq endpoints /\ own_open' = own_open
        BY <1>1, <2>1 DEF ReceiveMessage, Deliver, envVars
    <2>3. message_buffer_swap' = message_buffer_swap /\ draining' = draining
          /\ pc = "recv" /\ pc' = "tidy"
        BY <1>1 DEF ReceiveMessage
    <2>4. CASE Remain(m, out)
        <3>1. /\ \A e \in endpoints' : e.label \notin m.sel.accepts
              /\ own_open => OwnLabel \notin m.sel.accepts
            BY <2>1, <2>4, RemainUnmatched
        <3>2. entry.msg = m
            OBVIOUS
        <3>3. message_buffer' \subseteq message_buffer \cup {entry}
            BY <2>1
        <3> HIDE DEF entry, m
        <3> QED BY <2>2, <2>3, <3>1, <3>2, <3>3
    <2>5. CASE ~Remain(m, out)
        <3>1. message_buffer' = message_buffer
            BY <2>1, <2>5
        <3> QED BY <2>2, <2>3, <3>1
    <2> QED BY <2>4, <2>5
<1>2. ASSUME NEW p \in Peers, ReceiveConnect(p)
      PROVE  BuffersByPhase' /\ BufferedUnmatched'
    BY <1>2 DEF ReceiveConnect, envVars
<1>3. CASE FlushOne
    <2>1. PICK d \in draining : \E out \in Outcomes(d.msg) :
              /\ Deliver(d.msg, out)
              /\ message_buffer_swap' = IF Kept(d, out)
                                        THEN message_buffer_swap \cup {d}
                                        ELSE message_buffer_swap
        BY <1>3 DEF FlushOne
    <2>2. PICK out \in Outcomes(d.msg) :
              /\ Deliver(d.msg, out)
              /\ message_buffer_swap' = IF Kept(d, out)
                                        THEN message_buffer_swap \cup {d}
                                        ELSE message_buffer_swap
        BY <2>1
    <2>3. /\ endpoints' \subseteq endpoints /\ own_open' = own_open
          /\ message_buffer' = message_buffer /\ pc = "flush" /\ pc' = pc
        BY <1>3, <2>2 DEF FlushOne, Deliver, envVars
    <2>4. CASE Remain(d.msg, out)
        <3>1. /\ \A e \in endpoints' : e.label \notin d.msg.sel.accepts
              /\ own_open => OwnLabel \notin d.msg.sel.accepts
            BY <2>2, <2>4, RemainUnmatched
        <3> QED BY <2>2, <2>3, <3>1
    <2>5. CASE ~Remain(d.msg, out)
        BY <2>2, <2>3, <2>5 DEF Kept
    <2> QED BY <2>4, <2>5
<1>4. CASE FlushDone
    BY <1>4 DEF FlushDone, envVars
<1>5. CASE Tidy
    BY <1>5 DEF Tidy, envVars
<1>6. CASE CloseOwn
    BY <1>6 DEF CloseOwn, busVars
<1>7. ASSUME NEW p \in Peers, LookUp(p) \/ CloseReader(p) \/ ReceiveError(p)
      PROVE  BuffersByPhase' /\ BufferedUnmatched'
    BY <1>7 DEF LookUp, CloseReader, ReceiveError, busVars, envVars
<1>8. ASSUME NEW s \in Senders, Send(s)
      PROVE  BuffersByPhase' /\ BufferedUnmatched'
    BY <1>8 DEF Send, busVars
<1>9. CASE Tick \/ UNCHANGED vars
    BY <1>9 DEF Tick, vars, busVars, envVars
<1> QED BY <1>1, <1>2, <1>3, <1>4, <1>5, <1>6, <1>7, <1>8, <1>9
        DEF Next, Run, Environment

\* No message waits in the buffer while a registered endpoint or the
\* controller's own live endpoint accepts it.
THEOREM BufferedUnmatchedAlways == Spec => []BufferedUnmatched
<1>1. Init => BuffersByPhase /\ BufferedUnmatched
    BY DEF Init, BuffersByPhase, BufferedUnmatched
<1> QED BY <1>1, InitType, StepType, StepUnmatched, PTL DEF Spec
-----------------------------------------------------------------------------
\* A peer asks once, so its channel is answered once.
AskedOnce ==
    \A p \in Peers :
        /\ status[p] = "new" => request[p].verdict = "none" /\ ack[p] = "none"
        /\ request[p].verdict # "none" => ack[p] = "none"

\* Whoever is sent a message is a registered endpoint.
LEMMA ReachedRegistered ==
    ASSUME TypeOK, NEW m \in Message, NEW out \in Outcomes(m), Deliver(m, out)
    PROVE  \A p \in Peers : \/ log'[p] = log[p]
                            \/ \E e \in endpoints : e.remote = p
<1>1. DOMAIN out \subseteq endpoints
    BY DEF Outcomes, Matching
<1>2. Reached(m, out) \subseteq {e.remote : e \in endpoints}
    BY <1>1 DEF Reached, Tried
<1> QED BY <1>2 DEF Deliver

\* Whoever is registered was sent the Ok; only macOS takes a lost one for sent.
LEMMA AnsweredOk ==
    ASSUME NEW p \in Peers, ack \in [Peers -> AckStates], NEW out \in AckOutcomes(p),
           Accepted(p, out)
    PROVE  Reply(p, out)[p] = "Ok" \/ (Platform = "macos" /\ Reply(p, out)[p] = "OkLost")
<1>1. AckFor(p) = "Ok" /\ out # "Disconnect"
    BY DEF Accepted, AckFor
<1>2. status[p] = "open"
    BY <1>1 DEF AckOutcomes
<1>3. out = "Ok" \/ (Platform = "macos" /\ out = "Lost")
    BY <1>1, <1>2 DEF AckOutcomes
<1> QED BY <1>1, <1>2, <1>3 DEF Reply

LEMMA StepAck ==
    TypeOK /\ AskedOnce /\ AckFirst /\ [Next]_vars => AskedOnce' /\ AckFirst'
<1> SUFFICES ASSUME TypeOK, AskedOnce, AckFirst, [Next]_vars
             PROVE  AskedOnce' /\ AckFirst'
    OBVIOUS
<1> USE DEF AskedOnce, AckFirst
<1>1. ASSUME NEW s \in Senders, ReceiveMessage(s) PROVE AskedOnce' /\ AckFirst'
    <2> DEFINE m == Head(inbox[s])
    <2>1. PICK out \in Outcomes(m) : Deliver(m, out)
        BY <1>1 DEF ReceiveMessage
    <2>2. m \in Message
        <3>1. inbox[s] \in Seq(Message) /\ inbox[s] # <<>>
            BY <1>1 DEF ReceiveMessage, TypeOK
        <3> QED BY <3>1
    <2>3. \A p \in Peers : \/ log'[p] = log[p]
                           \/ \E e \in endpoints : e.remote = p
        BY <2>1, <2>2, ReachedRegistered
    <2>4. endpoints' \subseteq endpoints
        BY <2>1 DEF Deliver
    <2> QED BY <1>1, <2>3, <2>4 DEF ReceiveMessage, envVars
<1>2. ASSUME NEW p \in Peers, ReceiveConnect(p) PROVE AskedOnce' /\ AckFirst'
    <2>1. ack[p] = "none" /\ status[p] # "new"
        BY <1>2 DEF ReceiveConnect
    <2>2. log[p] = <<>> /\ ~\E e \in endpoints : e.remote = p
        BY <2>1
    <2>3. /\ \A q \in Peers \ {p} : ack'[q] = ack[q] /\ request'[q] = request[q]
          /\ request'[p].verdict = "none"
          /\ status' = status /\ log' = log
        BY <1>2 DEF ReceiveConnect, Reply, TypeOK, envVars, NoRequest
    <2>4. PICK out \in AckOutcomes(p) :
              /\ ack' = Reply(p, out)
              /\ endpoints' =
                    IF Accepted(p, out)
                    THEN endpoints \cup
                           {[seat |-> counter, label |-> request[p].label, remote |-> p]}
                    ELSE endpoints
        BY <1>2 DEF ReceiveConnect
    <2>5. CASE Accepted(p, out)
        <3>1. ack'[p] = "Ok" \/ (Platform = "macos" /\ ack'[p] = "OkLost")
            BY <2>4, <2>5, AnsweredOk DEF TypeOK
        <3>2. \A e \in endpoints' : e \in endpoints \/ e.remote = p
            BY <2>4
        <3> QED BY <2>1, <2>2, <2>3, <3>1, <3>2
    <2>6. CASE ~Accepted(p, out)
        <3>1. endpoints' = endpoints
            BY <2>4, <2>6
        <3> QED BY <2>1, <2>2, <2>3, <3>1
    <2> QED BY <2>5, <2>6
<1>3. CASE FlushOne
    <2>1. PICK d \in draining : \E out \in Outcomes(d.msg) : Deliver(d.msg, out)
        BY <1>3 DEF FlushOne
    <2>2. PICK out \in Outcomes(d.msg) : Deliver(d.msg, out)
        BY <2>1
    <2>3. d.msg \in Message
        BY DEF TypeOK, Entry
    <2>4. \A p \in Peers : \/ log'[p] = log[p]
                           \/ \E e \in endpoints : e.remote = p
        BY <2>2, <2>3, ReachedRegistered
    <2>5. endpoints' \subseteq endpoints
        BY <2>2 DEF Deliver
    <2> QED BY <1>3, <2>4, <2>5 DEF FlushOne, envVars, inVars
<1>4. CASE FlushDone \/ Tidy
    BY <1>4 DEF FlushDone, Tidy, outVars, inVars, envVars
<1>5. ASSUME NEW p \in Peers, LookUp(p) PROVE AskedOnce' /\ AckFirst'
    BY <1>5 DEF LookUp, TypeOK, busVars, outVars
<1>6. ASSUME NEW p \in Peers, CloseReader(p) PROVE AskedOnce' /\ AckFirst'
    BY <1>6 DEF CloseReader, TypeOK, busVars, outVars, inVars
<1>7. ASSUME NEW p \in Peers, ReceiveError(p) PROVE AskedOnce' /\ AckFirst'
    BY <1>7 DEF ReceiveError, NoRequest, TypeOK, busVars, outVars, envVars
<1>8. ASSUME NEW s \in Senders, Send(s) PROVE AskedOnce' /\ AckFirst'
    BY <1>8 DEF Send, busVars, outVars
<1>9. CASE CloseOwn \/ Tick \/ UNCHANGED vars
    BY <1>9 DEF CloseOwn, Tick, vars, busVars, outVars, inVars, envVars
<1> QED BY <1>1, <1>2, <1>3, <1>4, <1>5, <1>6, <1>7, <1>8, <1>9
        DEF Next, Run, Environment

\* Nothing reaches a channel before its Ok, and only peers that were told Ok are
\* registered; on macOS, also those whose Ok was lost and counted as sent.
THEOREM AckFirstAlways == Spec => []AckFirst
<1>1. Init => AskedOnce /\ AckFirst
    BY DEF Init, AskedOnce, AckFirst, NoRequest
<1> QED BY <1>1, InitType, StepType, StepAck, PTL DEF Spec

-----------------------------------------------------------------------------
\* Who leaves the table although its reader is there was refused a message.
LEMMA OpenKept ==
    ASSUME NEW m, NEW out \in Outcomes(m), Deliver(m, out)
    PROVE  /\ \A e \in endpoints :
                 status[e.remote] = "open" => e \in endpoints' \/ e.remote \in refused'
           /\ refused \subseteq refused'
BY DEF Deliver

Reachable(p) == p \in refused \/ \E e \in endpoints : e.remote = p

LEMMA StepRegistered ==
    TypeOK /\ AskedOnce /\ AckedIsRegistered /\ [Next]_vars
        => AckedIsRegistered'
<1> SUFFICES ASSUME TypeOK, AskedOnce, AckedIsRegistered, [Next]_vars,
                    NEW p \in Peers, ack'[p] = "Ok", status'[p] = "open"
             PROVE  Reachable(p)'
    BY DEF AckedIsRegistered, Reachable
<1>0. \A q \in Peers : ack[q] = "Ok" /\ status[q] = "open" => Reachable(q)
    BY DEF AckedIsRegistered, Reachable
<1>1. ASSUME NEW s \in Senders, ReceiveMessage(s) PROVE Reachable(p)'
    <2>1. PICK out \in Outcomes(Head(inbox[s])) : Deliver(Head(inbox[s]), out)
        BY <1>1 DEF ReceiveMessage
    <2>2. ack' = ack /\ status' = status
        BY <1>1 DEF ReceiveMessage, envVars
    <2> QED BY <1>0, <2>1, <2>2, OpenKept DEF Reachable
<1>2. ASSUME NEW q \in Peers, ReceiveConnect(q) PROVE Reachable(p)'
    <2>1. PICK out \in AckOutcomes(q) :
              /\ ack' = Reply(q, out)
              /\ endpoints' =
                    IF Accepted(q, out)
                    THEN endpoints \cup
                           {[seat |-> counter, label |-> request[q].label, remote |-> q]}
                    ELSE endpoints
        BY <1>2 DEF ReceiveConnect
    <2>2. /\ endpoints \subseteq endpoints' /\ UNCHANGED <<status, refused>>
          /\ ack[q] = "none" /\ request[q].verdict \in {"ok", "version", "token"}
        BY <1>2, <2>1 DEF ReceiveConnect, AskedOnce, envVars
    <2>3. CASE p # q
        <3>1. ack'[p] = ack[p]
            BY <2>1, <2>3 DEF Reply, TypeOK
        <3> QED BY <1>0, <2>2, <3>1 DEF Reachable
    <2>4. CASE p = q
        <3>1. request[p].verdict = "ok" /\ out = "Ok"
            BY <2>1, <2>2, <2>4 DEF Reply, AckFor, TypeOK
        <3>2. CASE Accepted(p, out)
            <4>1. [seat |-> counter, label |-> request[p].label, remote |-> p] \in endpoints'
                BY <2>1, <2>4, <3>2
            <4>2. [seat |-> counter, label |-> request[p].label, remote |-> p].remote = p
                OBVIOUS
            <4> QED BY <4>1, <4>2 DEF Reachable
        <3>3. CASE ~Accepted(p, out)
            BY <2>2, <3>1, <3>3 DEF Accepted, Reachable
        <3> QED BY <3>2, <3>3
    <2> QED BY <2>3, <2>4
<1>3. CASE FlushOne
    <2>1. PICK d \in draining : \E out \in Outcomes(d.msg) : Deliver(d.msg, out)
        BY <1>3 DEF FlushOne
    <2>2. PICK out \in Outcomes(d.msg) : Deliver(d.msg, out)
        BY <2>1
    <2>3. ack' = ack /\ status' = status
        BY <1>3 DEF FlushOne, envVars
    <2> QED BY <1>0, <2>2, <2>3, OpenKept DEF Reachable
<1>4. CASE FlushDone
    BY <1>0, <1>4 DEF FlushDone, outVars, envVars, Reachable
<1>5. CASE Tidy
    <2>1. \A e \in endpoints : status[e.remote] = "open" => e \in endpoints'
        BY <1>5 DEF Tidy, IsDead, LinuxDead, MacosDead, WindowsDead
    <2> QED BY <1>0, <1>5, <2>1 DEF Tidy, outVars, envVars, Reachable
<1>6. ASSUME NEW q \in Peers, LookUp(q) PROVE Reachable(p)'
    BY <1>0, <1>6 DEF LookUp, TypeOK, AskedOnce, busVars, outVars, Reachable
<1>7. ASSUME NEW q \in Peers, CloseReader(q) PROVE Reachable(p)'
    BY <1>0, <1>7 DEF CloseReader, TypeOK, busVars, outVars, inVars, Reachable
<1>8. ASSUME NEW q \in Peers, ReceiveError(q) PROVE Reachable(p)'
    BY <1>0, <1>8 DEF ReceiveError, busVars, outVars, envVars, Reachable
<1>9. ASSUME NEW s \in Senders, Send(s) PROVE Reachable(p)'
    BY <1>0, <1>9 DEF Send, busVars, outVars, Reachable
<1>10. CASE CloseOwn \/ Tick \/ UNCHANGED vars
    BY <1>0, <1>10
       DEF CloseOwn, Tick, vars, busVars, outVars, inVars, envVars, Reachable
<1> QED BY <1>1, <1>2, <1>3, <1>4, <1>5, <1>6, <1>7, <1>8, <1>9, <1>10
        DEF Next, Run, Environment

\* An endpoint that was told Ok and still reads stays registered, unless the system
\* refused a message for it.
THEOREM AckedIsRegisteredAlways == Spec => []AckedIsRegistered
<1>1. Init => AskedOnce /\ AckFirst /\ AckedIsRegistered
    BY DEF Init, AskedOnce, AckFirst, AckedIsRegistered, NoRequest
<1>2. TypeOK /\ AskedOnce /\ AckFirst /\ AckedIsRegistered /\ [Next]_vars
        => AskedOnce' /\ AckFirst' /\ AckedIsRegistered'
    BY StepAck, StepRegistered
<1> QED BY <1>1, <1>2, InitType, StepType, PTL DEF Spec

-----------------------------------------------------------------------------
(* Where a message is *)

\* Messages that were put on some channel, and those that left their inbox.
Delivered == MessagesIn(own_log) \cup UNION {MessagesIn(log[p]) : p \in Peers}
Departed == Delivered \cup {b.msg : b \in Held}

-----------------------------------------------------------------------------
(* Channels *)

LEMMA AppendIn ==
    ASSUME NEW q \in Seq(Message), NEW m \in Message
    PROVE  MessagesIn(Append(q, m)) = MessagesIn(q) \cup {m}
<1>1. /\ DOMAIN Append(q, m) = 1 .. Len(q) + 1 /\ DOMAIN q = 1 .. Len(q)
      /\ \A i \in 1 .. Len(q) : Append(q, m)[i] = q[i]
      /\ Append(q, m)[Len(q) + 1] = m /\ Len(q) \in Nat
    OBVIOUS
<1> QED BY <1>1 DEF MessagesIn

LEMMA AppendInOrder ==
    ASSUME NEW q \in Seq(Message), NEW m \in Message, InOrder(q),
           \A n \in MessagesIn(q) : n.src = m.src => n.seq < m.seq
    PROVE  InOrder(Append(q, m))
<1>1. /\ DOMAIN Append(q, m) = 1 .. Len(q) + 1 /\ DOMAIN q = 1 .. Len(q)
      /\ \A i \in 1 .. Len(q) : Append(q, m)[i] = q[i]
      /\ Append(q, m)[Len(q) + 1] = m /\ Len(q) \in Nat
    OBVIOUS
<1>2. \A i \in DOMAIN q : q[i].src = m.src => q[i].seq < m.seq
    BY DEF MessagesIn
<1> DEFINE r == Append(q, m)
<1> SUFFICES ASSUME NEW i \in DOMAIN r, NEW j \in DOMAIN r, i < j, r[i].src = r[j].src
             PROVE  r[i].seq < r[j].seq
    BY DEF InOrder
<1>3. i \in 1 .. Len(q)
    BY <1>1
<1>4. CASE j = Len(q) + 1
    BY <1>1, <1>2, <1>3, <1>4
<1>5. CASE j \in 1 .. Len(q)
    BY <1>1, <1>3, <1>5 DEF InOrder
<1> QED BY <1>1, <1>4, <1>5

\* handle_message puts m on the channels of those it reached and on no other.
LEMMA DeliverPuts ==
    ASSUME TypeOK, NEW m \in Message, NEW out \in Outcomes(m), Deliver(m, out)
    PROVE  /\ \A p \in Peers : \A n :
                 n \in MessagesIn(log'[p]) <=>
                    n \in MessagesIn(log[p]) \/ (n = m /\ p \in Reached(m, out))
           /\ \A n : n \in MessagesIn(own_log') <=>
                       n \in MessagesIn(own_log) \/ (n = m /\ ToSelf(m, out) /\ own_open)
<1>1. own_log \in Seq(Message) /\ \A p \in Peers : log[p] \in Seq(Message)
    BY DEF TypeOK
<1>2. \A p \in Peers : log'[p] = IF p \in Reached(m, out) THEN Append(log[p], m) ELSE log[p]
    BY DEF Deliver
<1>3. own_log' = IF ToSelf(m, out) /\ own_open THEN Append(own_log, m) ELSE own_log
    BY DEF Deliver
<1> QED BY <1>1, <1>2, <1>3, AppendIn

\* Whoever is reached is registered and matches; nobody is when m is given back.
LEMMA ReachedMatch ==
    ASSUME NEW m, NEW out \in Outcomes(m)
    PROVE  /\ \A p \in Reached(m, out) :
                 \E e \in endpoints : e.remote = p /\ e.label \in m.sel.accepts
           /\ Reached(m, out) # {} => Routed(m, out)
           /\ Remain(m, out) => Reached(m, out) = {} /\ ~(ToSelf(m, out) /\ own_open)
<1>1. DOMAIN out = Matching(m)
    BY DEF Outcomes
<1>2. Reached(m, out) # {} => Routed(m, out)
    BY DEF Reached, Tried, Routed
<1>3. Remain(m, out) => ~Routed(m, out) /\ ~(ToSelf(m, out) /\ own_open)
    BY DEF Remain
<1>4. \A p \in Reached(m, out) :
          \E e \in endpoints : e.remote = p /\ e.label \in m.sel.accepts
    BY <1>1 DEF Reached, Tried, Matching
<1> QED BY <1>2, <1>3, <1>4

-----------------------------------------------------------------------------
(* Steps that only move or forget what waits *)

\* No channel changes, and the buffers hold nothing new.
Quiet ==
    /\ UNCHANGED <<inbox, own_log, log, sent>>
    /\ Held' \subseteq Held
    /\ draining' \cap message_buffer_swap' = {}
    /\ counter' = counter \/ counter' = counter + 1

\* Nobody comes, and nothing is taken to be drained.
Calm ==
    /\ endpoints' \subseteq endpoints /\ draining' \subseteq draining
    /\ own_open' => own_open

LEMMA Kinds ==
    ASSUME BuffersByPhase, draining \cap message_buffer_swap = {}, [Next]_vars
    PROVE  \/ Quiet /\ (Calm \/ \E p \in Peers : ReceiveConnect(p))
           \/ \E s \in Senders : Send(s) \/ ReceiveMessage(s)
           \/ FlushOne
<1> USE DEF Quiet, Calm, Held
<1>1. ASSUME NEW p \in Peers, LookUp(p) PROVE Quiet /\ Calm
    BY <1>1 DEF LookUp, busVars, outVars
<1>2. ASSUME NEW p \in Peers, CloseReader(p) PROVE Quiet /\ Calm
    BY <1>2 DEF CloseReader, busVars, outVars, inVars
<1>3. CASE CloseOwn \/ Tick \/ UNCHANGED vars
    BY <1>3 DEF CloseOwn, Tick, vars, busVars, outVars, inVars, envVars
<1>4. ASSUME NEW p \in Peers, ReceiveConnect(p) PROVE Quiet
    BY <1>4 DEF ReceiveConnect, BuffersByPhase, envVars
<1>5. ASSUME NEW p \in Peers, ReceiveError(p) PROVE Quiet /\ Calm
    BY <1>5 DEF ReceiveError, busVars, outVars, envVars
<1>6. CASE FlushDone
    BY <1>6 DEF FlushDone, BuffersByPhase, outVars, inVars, envVars
<1>7. CASE Tidy
    BY <1>7 DEF Tidy, outVars, inVars, envVars
<1> HIDE DEF Quiet, Calm, Held
<1> QED BY <1>1, <1>2, <1>3, <1>4, <1>5, <1>6, <1>7 DEF Next, Run, Environment

\* What FlushOne does to the buffers.
LEMMA FlushMoves ==
    ASSUME TypeOK, BuffersByPhase, draining \cap message_buffer_swap = {}, FlushOne
    PROVE  \E d \in draining : \E out \in Outcomes(d.msg) :
              /\ FirstToDrain(d) /\ Deliver(d.msg, out)
              /\ d.msg \in Message
              /\ Held' = IF Kept(d, out) THEN Held ELSE Held \ {d}
              /\ draining' = draining \ {d}
              /\ draining' \cap message_buffer_swap' = {}
              /\ UNCHANGED <<inbox, sent, own_open, counter>>
<1>1. PICK d \in draining : /\ FirstToDrain(d) /\ draining' = draining \ {d}
                            /\ \E out \in Outcomes(d.msg) :
                                  /\ Deliver(d.msg, out)
                                  /\ message_buffer_swap' =
                                        IF Kept(d, out)
                                        THEN message_buffer_swap \cup {d}
                                        ELSE message_buffer_swap
    BY DEF FlushOne
<1>2. PICK out \in Outcomes(d.msg) :
          /\ Deliver(d.msg, out)
          /\ message_buffer_swap' = IF Kept(d, out)
                                    THEN message_buffer_swap \cup {d}
                                    ELSE message_buffer_swap
    BY <1>1
<1>3. message_buffer = {} /\ message_buffer' = {}
    BY DEF FlushOne, BuffersByPhase
<1>4. Held' = IF Kept(d, out) THEN Held ELSE Held \ {d}
    BY <1>1, <1>2, <1>3 DEF Held
<1>5. draining' \cap message_buffer_swap' = {}
    BY <1>1, <1>2
<1>6. UNCHANGED <<inbox, sent, own_open, counter>>
    BY DEF FlushOne, inVars, envVars
<1>7. d.msg \in Message
    BY DEF TypeOK, Entry
<1> QED BY <1>1, <1>2, <1>4, <1>5, <1>6, <1>7

\* What ReceiveMessage does to the inbox and the buffers.
LEMMA ReceiveMoves ==
    ASSUME TypeOK, NEW s \in Senders, ReceiveMessage(s)
    PROVE  \E out \in Outcomes(Head(inbox[s])) :
              /\ inbox[s] # <<>> /\ inbox[s] \in Seq(Message)
              /\ Head(inbox[s]) \in Message
              /\ Deliver(Head(inbox[s]), out)
              /\ inbox' = [inbox EXCEPT ![s] = Tail(@)]
              /\ \/ Held' = Held
                 \/ /\ Remain(Head(inbox[s]), out)
                    /\ \E b \in Entry : /\ Held' = Held \cup {b}
                                        /\ b.ticket = counter /\ b.msg = Head(inbox[s])
              /\ counter' = counter + 1 /\ pc = "recv"
              /\ UNCHANGED <<draining, message_buffer_swap, sent, own_open>>
<1> DEFINE m == Head(inbox[s])
<1> DEFINE entry == [ticket |-> counter, expire |-> clock + m.sel.ttl, msg |-> m]
<1>1. inbox[s] # <<>> /\ inbox[s] \in Seq(Message)
    BY DEF ReceiveMessage, TypeOK
<1>2. m \in Message
    BY <1>1
<1>3. m.sel.ttl \in Nat
    BY <1>2, TrafficAssumption DEF Message, Selector
<1>4. entry \in Entry /\ entry.ticket = counter /\ entry.msg = m
    BY <1>2, <1>3 DEF Entry, TypeOK
<1>5. PICK out \in Outcomes(m) :
          /\ Deliver(m, out)
          /\ message_buffer' = IF Remain(m, out) /\ m.sel.ttl # 0
                               THEN message_buffer \cup {entry}
                               ELSE message_buffer
    BY DEF ReceiveMessage
<1>6. /\ inbox' = [inbox EXCEPT ![s] = Tail(@)] /\ counter' = counter + 1 /\ pc = "recv"
      /\ UNCHANGED <<draining, message_buffer_swap, sent, own_open>>
    BY DEF ReceiveMessage, envVars
<1> HIDE DEF m, entry
<1>7. \/ Held' = Held
      \/ Remain(m, out) /\ Held' = Held \cup {entry}
    BY <1>5, <1>6 DEF Held
<1> QED BY <1>1, <1>2, <1>4, <1>5, <1>6, <1>7 DEF m

-----------------------------------------------------------------------------
(* The table *)

\* Every endpoint has a seat of its own in the Vec.
Seats ==
    /\ \A e \in endpoints : e.seat < counter
    /\ \A e, f \in endpoints : e.seat = f.seat => e = f

LEMMA StepSeats == TypeOK /\ Seats /\ [Next]_vars => Seats'
<1> SUFFICES ASSUME TypeOK, Seats, [Next]_vars PROVE Seats'
    OBVIOUS
<1>1. counter \in Nat /\ \A e \in endpoints : e.seat \in Nat
    BY DEF TypeOK, Endpoint
<1>2. CASE endpoints' \subseteq endpoints /\ (counter' = counter \/ counter' = counter + 1)
    BY <1>1, <1>2 DEF Seats
<1>3. ASSUME NEW p \in Peers, ReceiveConnect(p) PROVE Seats'
    <2> DEFINE new == [seat |-> counter, label |-> request[p].label, remote |-> p]
    <2>1. endpoints' \subseteq endpoints \cup {new} /\ counter' = counter + 1
        BY <1>3 DEF ReceiveConnect
    <2>2. new.seat = counter
        OBVIOUS
    <2> HIDE DEF new
    <2> QED BY <1>1, <2>1, <2>2 DEF Seats
<1>4. ASSUME NEW s \in Senders, ReceiveMessage(s) PROVE Seats'
    BY <1>2, <1>4, ReceiveMoves DEF Deliver
<1>5. CASE FlushOne
    <2>1. endpoints' \subseteq endpoints /\ counter' = counter
        BY <1>5 DEF FlushOne, Deliver
    <2> QED BY <1>2, <2>1
<1>6. CASE FlushDone \/ Tidy
    BY <1>2, <1>6 DEF FlushDone, Tidy
<1>7. ASSUME NEW p \in Peers, LookUp(p) \/ CloseReader(p) \/ ReceiveError(p) PROVE Seats'
    BY <1>2, <1>7 DEF LookUp, CloseReader, ReceiveError, busVars
<1>8. ASSUME NEW s \in Senders, Send(s) PROVE Seats'
    BY <1>2, <1>8 DEF Send, busVars
<1>9. CASE CloseOwn \/ Tick \/ UNCHANGED vars
    BY <1>2, <1>9 DEF CloseOwn, Tick, vars, busVars
<1> QED BY <1>3, <1>4, <1>5, <1>6, <1>7, <1>8, <1>9 DEF Next, Run, Environment

\* A unicast reaches one channel, and none when it is for the controller's own
\* endpoint.
LEMMA UnicastReach ==
    ASSUME TypeOK, Seats, NEW m \in Message, NEW out \in Outcomes(m),
           m.sel.mode = "unicast"
    PROVE  /\ \A p, q \in Reached(m, out) : p = q
           /\ ToSelf(m, out) => Reached(m, out) = {}
<1>1. DOMAIN out = Matching(m) /\ Matching(m) \subseteq endpoints
    BY DEF Outcomes, Matching
<1>2. \A e, f \in Tried(m, out) : out[e] = "Ok" /\ out[f] = "Ok" => e = f
    <2> SUFFICES ASSUME NEW e \in Tried(m, out), NEW f \in Tried(m, out),
                        out[e] = "Ok", out[f] = "Ok"
                 PROVE  e.seat = f.seat
        BY <1>1 DEF Seats, Tried
    <2>1. e.seat \in Nat /\ f.seat \in Nat
        BY <1>1 DEF Tried, TypeOK, Endpoint
    <2>2. ~(e.seat < f.seat) /\ ~(f.seat < e.seat)
        BY DEF Tried
    <2> QED BY <2>1, <2>2
<1>3. \A p, q \in Reached(m, out) : p = q
    BY <1>2 DEF Reached
<1>4. ToSelf(m, out) => Reached(m, out) = {}
    BY ReachedMatch DEF ToSelf
<1> QED BY <1>3, <1>4

-----------------------------------------------------------------------------
(* A message is in one place *)

\* Every sender's messages are numbered in the order of its inbox, ...
Numbered ==
    \A s \in Senders :
        /\ \A m \in MessagesIn(inbox[s]) : m.src = s /\ m.seq <= sent
        /\ \A i, j \in DOMAIN inbox[s] : i < j => inbox[s][i].seq < inbox[s][j].seq

\* ... and those that left it are older than those still in it.
Past ==
    \A m \in Departed :
        m.seq <= sent /\ \A n \in MessagesIn(inbox[m.src]) : m.seq < n.seq

\* What waits was not put on any channel, and a unicast is on one at most.
Placed ==
    /\ \A b \in Held : b.msg \notin Delivered
    /\ \A m \in MessagesIn(own_log) : m.sel.mode = "unicast" =>
          \A p \in Peers : m \notin MessagesIn(log[p])
    /\ \A p, q \in Peers : \A m \in MessagesIn(log[p]) \cap MessagesIn(log[q]) :
          m.sel.mode = "unicast" => p = q

\* The buffers keep the order of the inboxes.
Ticketed ==
    /\ draining \cap message_buffer_swap = {}
    /\ \A b \in Held : b.ticket < counter
    /\ \A b, c \in Held : b # c /\ b.msg.src = c.msg.src =>
          \/ b.ticket < c.ticket /\ b.msg.seq < c.msg.seq
          \/ c.ticket < b.ticket /\ c.msg.seq < b.msg.seq

LEMMA DepartedType ==
    ASSUME TypeOK
    PROVE  /\ Departed \subseteq Message /\ Delivered \subseteq Departed
           /\ Held \subseteq Entry /\ \A b \in Held : b.msg \in Departed
<1>1. \A q \in Seq(Message) : MessagesIn(q) \subseteq Message
    BY DEF MessagesIn
<1>2. Delivered \subseteq Message
    BY <1>1 DEF Delivered, TypeOK
<1>3. Held \subseteq Entry
    BY DEF Held, TypeOK
<1>4. \A b \in Entry : b.msg \in Message
    BY DEF Entry
<1> QED BY <1>2, <1>3, <1>4 DEF Departed

\* What is received leaves only younger messages of its sender behind.
LEMMA HeadFirst ==
    ASSUME TypeOK, Numbered, NEW s \in Senders, inbox[s] # <<>>
    PROVE  /\ Head(inbox[s]) \in Message /\ Head(inbox[s]).src = s
           /\ Head(inbox[s]).seq <= sent /\ Head(inbox[s]) \in MessagesIn(inbox[s])
           /\ MessagesIn(Tail(inbox[s])) \subseteq MessagesIn(inbox[s])
           /\ \A n \in MessagesIn(Tail(inbox[s])) : Head(inbox[s]).seq < n.seq
           /\ \A i, j \in DOMAIN Tail(inbox[s]) :
                 i < j => Tail(inbox[s])[i].seq < Tail(inbox[s])[j].seq
           /\ MessagesIn(inbox[s]) = {Head(inbox[s])} \cup MessagesIn(Tail(inbox[s]))
<1> DEFINE q == inbox[s]
<1>1. q \in Seq(Message)
    BY DEF TypeOK
<1>2. /\ Len(q) \in Nat /\ Len(q) >= 1 /\ DOMAIN q = 1 .. Len(q) /\ Head(q) = q[1]
      /\ DOMAIN Tail(q) = 1 .. Len(q) - 1
      /\ \A i \in 1 .. Len(q) - 1 : Tail(q)[i] = q[i + 1]
    BY <1>1
<1>3. \A i \in DOMAIN Tail(q) : i + 1 \in DOMAIN q /\ Tail(q)[i] = q[i + 1]
    BY <1>2
<1>4. 1 \in DOMAIN q /\ Head(q) \in Message
    BY <1>1, <1>2
<1>5. \A i, j \in DOMAIN q : i < j => q[i].seq < q[j].seq
    BY DEF Numbered
<1>6. \A m \in MessagesIn(q) : m.src = s /\ m.seq <= sent
    BY DEF Numbered
<1>7. \A i \in DOMAIN q : i = 1 \/ (i - 1 \in DOMAIN Tail(q) /\ q[i] = Tail(q)[i - 1])
    BY <1>2
<1> HIDE DEF q
<1>8. Head(q) \in MessagesIn(q) /\ MessagesIn(Tail(q)) \subseteq MessagesIn(q)
    BY <1>2, <1>3, <1>4 DEF MessagesIn
<1>9. MessagesIn(q) = {Head(q)} \cup MessagesIn(Tail(q))
    <2>1. MessagesIn(q) \subseteq {Head(q)} \cup MessagesIn(Tail(q))
        BY <1>2, <1>7 DEF MessagesIn
    <2> QED BY <1>8, <2>1
<1>10. \A n \in MessagesIn(Tail(q)) : Head(q).seq < n.seq
    BY <1>2, <1>3, <1>4, <1>5 DEF MessagesIn
<1>11. \A i, j \in DOMAIN Tail(q) : i < j => Tail(q)[i].seq < Tail(q)[j].seq
    BY <1>2, <1>3, <1>5
<1> QED BY <1>4, <1>6, <1>8, <1>9, <1>10, <1>11 DEF q

LEMMA StepNumbered == TypeOK /\ Ticketed /\ BuffersByPhase /\ Numbered /\ [Next]_vars => Numbered'
<1> SUFFICES ASSUME TypeOK, Ticketed, BuffersByPhase, Numbered, [Next]_vars PROVE Numbered'
    OBVIOUS
<1>1. CASE UNCHANGED <<inbox, sent>>
    BY <1>1 DEF Numbered
<1>2. ASSUME NEW s \in Senders, Send(s) PROVE Numbered'
    <2>1. PICK m \in Message : /\ m.src = s /\ m.seq = sent + 1
                               /\ inbox' = [inbox EXCEPT ![s] = Append(@, m)]
        <3>1. PICK sel \in Traffic :
                  inbox' = [inbox EXCEPT ![s] =
                              Append(@, [src |-> s, seq |-> sent + 1, sel |-> sel])]
            BY <1>2 DEF Send
        <3>2. [src |-> s, seq |-> sent + 1, sel |-> sel] \in Message
            BY DEF Message, TypeOK
        <3> QED BY <3>1, <3>2
    <2>2. sent \in Nat /\ sent' = sent + 1 /\ inbox[s] \in Seq(Message)
        BY <1>2 DEF Send, TypeOK
    <2>3. inbox'[s] = Append(inbox[s], m) /\ \A t \in Senders \ {s} : inbox'[t] = inbox[t]
        BY <2>1 DEF TypeOK
    <2>4. MessagesIn(inbox'[s]) = MessagesIn(inbox[s]) \cup {m}
        BY <2>2, <2>3, AppendIn
    <2>5. \A t \in Senders : \A n \in MessagesIn(inbox'[t]) : n.src = t /\ n.seq <= sent'
        <3>1. \A t \in Senders : \A n \in MessagesIn(inbox[t]) :
                  n.src = t /\ n.seq <= sent /\ n.seq \in Nat
            <4>1. \A t \in Senders : inbox[t] \in Seq(Message)
                BY DEF TypeOK
            <4>2. \A t \in Senders : MessagesIn(inbox[t]) \subseteq Message
                BY <4>1 DEF MessagesIn
            <4>3. \A n \in Message : n.seq \in Nat
                BY DEF Message
            <4> QED BY <4>2, <4>3 DEF Numbered
        <3> QED BY <2>1, <2>2, <2>3, <2>4, <3>1
    <2>6. \A i, j \in DOMAIN inbox'[s] : i < j => inbox'[s][i].seq < inbox'[s][j].seq
        <3>1. InOrder(inbox[s])
            BY DEF InOrder, Numbered
        <3>2. \A n \in MessagesIn(inbox[s]) : n.src = m.src => n.seq < m.seq
            <4>1. MessagesIn(inbox[s]) \subseteq Message
                BY <2>2 DEF MessagesIn
            <4>2. \A n \in MessagesIn(inbox[s]) : n.seq \in Nat /\ n.seq <= sent
                BY <4>1 DEF Numbered, Message
            <4> QED BY <2>1, <2>2, <4>2
        <3>3. InOrder(inbox'[s])
            BY <2>2, <2>3, <3>1, <3>2, AppendInOrder
        <3>4. \A i \in DOMAIN inbox'[s] : inbox'[s][i].src = s
            BY <2>5 DEF MessagesIn
        <3> QED BY <3>3, <3>4 DEF InOrder
    <2> QED BY <2>3, <2>5, <2>6 DEF Numbered
<1>3. ASSUME NEW s \in Senders, ReceiveMessage(s) PROVE Numbered'
    <2>1. /\ inbox[s] # <<>> /\ sent' = sent
          /\ inbox' = [inbox EXCEPT ![s] = Tail(@)]
        BY <1>3, ReceiveMoves
    <2>2. inbox'[s] = Tail(inbox[s]) /\ \A t \in Senders \ {s} : inbox'[t] = inbox[t]
        BY <2>1 DEF TypeOK
    <2> QED BY <2>1, <2>2, HeadFirst DEF Numbered
<1>4. CASE FlushOne
    BY <1>1, <1>4 DEF FlushOne, inVars, envVars
<1>5. CASE Quiet
    BY <1>1, <1>5 DEF Quiet
<1> QED BY <1>2, <1>3, <1>4, <1>5, Kinds DEF Ticketed

\* Channels only grow, by the message that is handled, which nobody had before.
LEMMA DeliverOnce ==
    ASSUME TypeOK, Seats, NEW m \in Message, NEW out \in Outcomes(m), Deliver(m, out)
    PROVE  /\ Delivered \subseteq Delivered' /\ Delivered' \subseteq Delivered \cup {m}
           /\ Remain(m, out) => Delivered' = Delivered
<1>1. Reached(m, out) \subseteq Peers
    BY ReachedMatch DEF TypeOK, Endpoint
<1>2. /\ \A p \in Peers : \A n :
            n \in MessagesIn(log'[p]) <=>
               n \in MessagesIn(log[p]) \/ (n = m /\ p \in Reached(m, out))
      /\ \A n : n \in MessagesIn(own_log') <=>
                  n \in MessagesIn(own_log) \/ (n = m /\ ToSelf(m, out) /\ own_open)
    BY DeliverPuts
<1>3. \A n : n \in Delivered <=>
                 n \in MessagesIn(own_log) \/ \E p \in Peers : n \in MessagesIn(log[p])
    BY DEF Delivered
<1>4. \A n : n \in Delivered' <=>
                 n \in MessagesIn(own_log') \/ \E p \in Peers : n \in MessagesIn(log'[p])
    BY DEF Delivered
<1>5. ASSUME NEW n \in Delivered PROVE n \in Delivered'
    <2>1. CASE n \in MessagesIn(own_log)
        BY <1>2, <1>4, <2>1
    <2>2. ASSUME NEW p \in Peers, n \in MessagesIn(log[p]) PROVE n \in Delivered'
        BY <1>2, <1>4, <2>2
    <2> QED BY <1>3, <1>5, <2>1, <2>2
<1>6. ASSUME NEW n \in Delivered', n \notin Delivered
      PROVE  n = m /\ ~Remain(m, out)
    <2>1. CASE n \in MessagesIn(own_log')
        BY <1>2, <1>3, <1>6, <2>1, ReachedMatch
    <2>2. ASSUME NEW p \in Peers, n \in MessagesIn(log'[p])
          PROVE  n = m /\ ~Remain(m, out)
        BY <1>2, <1>3, <1>6, <2>2, ReachedMatch
    <2> QED BY <1>4, <1>6, <2>1, <2>2
<1> QED BY <1>5, <1>6

\* Handling a message nobody was given keeps every unicast on one channel.
LEMMA DeliverPlaced ==
    ASSUME TypeOK, Seats, Placed, NEW m \in Message, NEW out \in Outcomes(m),
           Deliver(m, out), m \notin Delivered
    PROVE  /\ \A n \in MessagesIn(own_log') : n.sel.mode = "unicast" =>
                 \A p \in Peers : n \notin MessagesIn(log'[p])
           /\ \A p, q \in Peers : \A n \in MessagesIn(log'[p]) \cap MessagesIn(log'[q]) :
                 n.sel.mode = "unicast" => p = q
<1>1. /\ \A p \in Peers : \A n :
            n \in MessagesIn(log'[p]) <=>
               n \in MessagesIn(log[p]) \/ (n = m /\ p \in Reached(m, out))
      /\ \A n : n \in MessagesIn(own_log') <=>
                  n \in MessagesIn(own_log) \/ (n = m /\ ToSelf(m, out) /\ own_open)
    BY DeliverPuts
<1>2. m \notin MessagesIn(own_log) /\ \A p \in Peers : m \notin MessagesIn(log[p])
    BY DEF Delivered
<1>3. m.sel.mode = "unicast" => /\ \A p, q \in Reached(m, out) : p = q
                                /\ ToSelf(m, out) => Reached(m, out) = {}
    BY UnicastReach
<1>4. ASSUME NEW n \in MessagesIn(own_log'), n.sel.mode = "unicast", NEW p \in Peers
      PROVE  n \notin MessagesIn(log'[p])
    <2>1. CASE n = m
        <3>1. ToSelf(m, out) /\ own_open
            BY <1>1, <1>2, <1>4, <2>1
        <3> QED BY <1>1, <1>2, <1>3, <1>4, <2>1, <3>1
    <2>2. CASE n # m
        BY <1>1, <1>4, <2>2 DEF Placed
    <2> QED BY <2>1, <2>2
<1>5. ASSUME NEW p \in Peers, NEW q \in Peers,
             NEW n \in MessagesIn(log'[p]) \cap MessagesIn(log'[q]), n.sel.mode = "unicast"
      PROVE  p = q
    <2>1. CASE n = m
        BY <1>1, <1>2, <1>3, <1>5, <2>1
    <2>2. CASE n # m
        <3>1. n \in MessagesIn(log[p]) \cap MessagesIn(log[q])
            BY <1>1, <1>5, <2>2
        <3>2. \A x \in MessagesIn(log[p]) \cap MessagesIn(log[q]) :
                  x.sel.mode = "unicast" => p = q
            BY DEF Placed
        <3> QED BY <1>5, <3>1, <3>2
    <2> QED BY <2>1, <2>2
<1> QED BY <1>4, <1>5

\* A message in an inbox is younger than all that left it, and so is none of them.
LEMMA HeadIsNew ==
    ASSUME TypeOK, Numbered, Past, NEW s \in Senders, inbox[s] # <<>>
    PROVE  /\ Head(inbox[s]) \notin Departed
           /\ \A n \in Departed : n.src = s => n.seq < Head(inbox[s]).seq
<1> DEFINE m == Head(inbox[s])
<1>1. m \in Message /\ m.src = s /\ m \in MessagesIn(inbox[s])
    BY HeadFirst
<1> HIDE DEF m
<1>2. \A n \in Departed : n.src = s => n.seq < m.seq
    BY <1>1 DEF Past
<1>3. m.seq \in Nat
    BY <1>1 DEF Message
<1>4. m \notin Departed
    BY <1>1, <1>2, <1>3
<1> QED BY <1>2, <1>4 DEF m

Invariants == TypeOK /\ BuffersByPhase /\ Seats /\ Numbered /\ Past /\ Placed /\ Ticketed

\* What one ReceiveMessage comes to.
LEMMA ReceiveSums ==
    ASSUME Invariants, NEW s \in Senders, ReceiveMessage(s)
    PROVE  \E m \in Message : \E out \in Outcomes(m) :
              /\ m \notin Departed /\ m.src = s /\ m.seq <= sent
              /\ \A n \in Departed : n.src = s => n.seq < m.seq
              /\ Deliver(m, out)
              /\ Delivered \subseteq Delivered' /\ Delivered' \subseteq Delivered \cup {m}
              /\ \/ Held' = Held
                 \/ /\ Remain(m, out) /\ Delivered' = Delivered
                    /\ \E b \in Entry : /\ Held' = Held \cup {b}
                                        /\ b.ticket = counter /\ b.msg = m
              /\ MessagesIn(inbox[s]) = {m} \cup MessagesIn(inbox'[s])
              /\ \A n \in MessagesIn(inbox'[s]) : m.seq < n.seq
              /\ \A t \in Senders \ {s} : inbox'[t] = inbox[t]
              /\ counter' = counter + 1 /\ pc = "recv"
              /\ UNCHANGED <<draining, message_buffer_swap, sent, own_open>>
<1> USE DEF Invariants
<1> DEFINE m == Head(inbox[s])
<1>1. PICK out \in Outcomes(m) :
          /\ inbox[s] # <<>> /\ m \in Message /\ Deliver(m, out)
          /\ inbox' = [inbox EXCEPT ![s] = Tail(@)]
          /\ \/ Held' = Held
             \/ /\ Remain(m, out)
                /\ \E b \in Entry : /\ Held' = Held \cup {b}
                                    /\ b.ticket = counter /\ b.msg = m
          /\ counter' = counter + 1 /\ pc = "recv"
          /\ UNCHANGED <<draining, message_buffer_swap, sent, own_open>>
    BY ReceiveMoves
<1>2. inbox'[s] = Tail(inbox[s]) /\ \A t \in Senders \ {s} : inbox'[t] = inbox[t]
    BY <1>1 DEF TypeOK
<1>3. /\ m.src = s /\ m.seq <= sent
      /\ MessagesIn(inbox[s]) = {m} \cup MessagesIn(inbox'[s])
      /\ \A n \in MessagesIn(inbox'[s]) : m.seq < n.seq
    BY <1>1, <1>2, HeadFirst
<1>4. m \notin Departed /\ \A n \in Departed : n.src = s => n.seq < m.seq
    BY <1>1, HeadIsNew
<1> HIDE DEF m
<1>5. /\ Delivered \subseteq Delivered' /\ Delivered' \subseteq Delivered \cup {m}
      /\ Remain(m, out) => Delivered' = Delivered
    BY <1>1, DeliverOnce
<1> QED BY <1>1, <1>2, <1>3, <1>4, <1>5

\* And one FlushOne.
LEMMA FlushSums ==
    ASSUME Invariants, FlushOne
    PROVE  \E d \in draining : \E out \in Outcomes(d.msg) :
              /\ FirstToDrain(d) /\ Deliver(d.msg, out) /\ d \in Held
              /\ d.msg \in Message /\ d.msg \notin Delivered
              /\ Delivered \subseteq Delivered' /\ Delivered' \subseteq Delivered \cup {d.msg}
              /\ \/ Kept(d, out) /\ Held' = Held /\ Delivered' = Delivered
                 \/ ~Kept(d, out) /\ Held' = Held \ {d}
              /\ draining' = draining \ {d}
              /\ draining' \cap message_buffer_swap' = {}
              /\ UNCHANGED <<inbox, sent, own_open, counter>>
<1> USE DEF Invariants
<1>1. draining \cap message_buffer_swap = {}
    BY DEF Ticketed
<1>2. PICK d \in draining : \E out \in Outcomes(d.msg) :
          /\ FirstToDrain(d) /\ Deliver(d.msg, out)
          /\ d.msg \in Message
          /\ Held' = IF Kept(d, out) THEN Held ELSE Held \ {d}
          /\ draining' = draining \ {d}
          /\ draining' \cap message_buffer_swap' = {}
          /\ UNCHANGED <<inbox, sent, own_open, counter>>
    BY <1>1, FlushMoves
<1>3. PICK out \in Outcomes(d.msg) :
          /\ FirstToDrain(d) /\ Deliver(d.msg, out)
          /\ d.msg \in Message
          /\ Held' = IF Kept(d, out) THEN Held ELSE Held \ {d}
          /\ draining' = draining \ {d}
          /\ draining' \cap message_buffer_swap' = {}
          /\ UNCHANGED <<inbox, sent, own_open, counter>>
    BY <1>2
<1>4. d \in Held
    BY DEF Held
<1>5. d.msg \notin Delivered
    BY <1>4 DEF Placed
<1>6. /\ Delivered \subseteq Delivered' /\ Delivered' \subseteq Delivered \cup {d.msg}
      /\ Remain(d.msg, out) => Delivered' = Delivered
    BY <1>3, DeliverOnce
<1> QED BY <1>3, <1>4, <1>5, <1>6 DEF Kept

LEMMA StepPast == Invariants /\ [Next]_vars => Past'
<1> SUFFICES ASSUME Invariants, [Next]_vars PROVE Past'
    OBVIOUS
<1> USE DEF Invariants
<1>1. CASE Quiet
    <2>1. Departed' \subseteq Departed /\ inbox' = inbox /\ sent' = sent
        BY <1>1 DEF Quiet, Departed, Delivered
    <2> QED BY <2>1 DEF Past
<1>2. ASSUME NEW s \in Senders, Send(s) PROVE Past'
    <2>1. Departed' = Departed /\ sent' = sent + 1
        BY <1>2 DEF Send, Departed, Delivered, Held, busVars, outVars
    <2>2. PICK m \in Message : /\ m.seq = sent + 1
                               /\ inbox' = [inbox EXCEPT ![s] = Append(@, m)]
        <3>1. PICK sel \in Traffic :
                  inbox' = [inbox EXCEPT ![s] =
                              Append(@, [src |-> s, seq |-> sent + 1, sel |-> sel])]
            BY <1>2 DEF Send
        <3>2. [src |-> s, seq |-> sent + 1, sel |-> sel] \in Message
            BY DEF Message, TypeOK
        <3> QED BY <3>1, <3>2
    <2>3. \A t \in Senders : MessagesIn(inbox'[t]) \subseteq MessagesIn(inbox[t]) \cup {m}
        <3>1. MessagesIn(inbox'[s]) = MessagesIn(inbox[s]) \cup {m}
            BY <2>2, AppendIn DEF TypeOK
        <3>2. \A t \in Senders \ {s} : inbox'[t] = inbox[t]
            BY <2>2 DEF TypeOK
        <3> QED BY <3>1, <3>2
    <2>4. \A n \in Departed : n.seq \in Nat /\ n.src \in Senders
        BY DepartedType DEF Message
    <2>5. sent \in Nat
        BY DEF TypeOK
    <2> QED BY <2>1, <2>2, <2>3, <2>4, <2>5 DEF Past
<1>3. ASSUME NEW s \in Senders, ReceiveMessage(s) PROVE Past'
    <2>1. PICK m \in Message : \E out \in Outcomes(m) :
              /\ m.src = s /\ m.seq <= sent
              /\ Delivered' \subseteq Delivered \cup {m}
              /\ \/ Held' = Held
                 \/ \E b \in Entry : Held' = Held \cup {b} /\ b.msg = m
              /\ MessagesIn(inbox[s]) = {m} \cup MessagesIn(inbox'[s])
              /\ \A n \in MessagesIn(inbox'[s]) : m.seq < n.seq
              /\ \A t \in Senders \ {s} : inbox'[t] = inbox[t]
              /\ sent' = sent
        BY <1>3, ReceiveSums
    <2>2. Departed' \subseteq Departed \cup {m}
        BY <2>1 DEF Departed
    <2>3. \A n \in Departed : n.src \in Senders
        BY DepartedType DEF Message
    <2> QED BY <2>1, <2>2, <2>3 DEF Past
<1>4. CASE FlushOne
    <2>1. PICK d \in draining : \E out \in Outcomes(d.msg) :
              /\ d \in Held
              /\ Delivered' \subseteq Delivered \cup {d.msg}
              /\ Held' = Held \/ Held' = Held \ {d}
              /\ inbox' = inbox /\ sent' = sent
        BY <1>4, FlushSums
    <2>2. Departed' \subseteq Departed /\ inbox' = inbox /\ sent' = sent
        BY <2>1 DEF Departed
    <2> QED BY <2>2 DEF Past
<1> QED BY <1>1, <1>2, <1>3, <1>4, Kinds DEF Ticketed

LEMMA StepPlaced == Invariants /\ [Next]_vars => Placed'
<1> SUFFICES ASSUME Invariants, [Next]_vars PROVE Placed'
    OBVIOUS
<1> USE DEF Invariants
<1>1. CASE Quiet
    <2>1. Delivered' = Delivered
        BY <1>1 DEF Quiet, Delivered
    <2> QED BY <1>1, <2>1 DEF Quiet, Placed
<1>2. ASSUME NEW s \in Senders, Send(s) PROVE Placed'
    <2>1. UNCHANGED <<own_log, log>> /\ Held' = Held /\ Delivered' = Delivered
        BY <1>2 DEF Send, Delivered, Held, busVars, outVars
    <2> QED BY <2>1 DEF Placed
<1>3. ASSUME NEW s \in Senders, ReceiveMessage(s) PROVE Placed'
    <2>1. PICK m \in Message : \E out \in Outcomes(m) :
              /\ m \notin Departed
              /\ Deliver(m, out)
              /\ Delivered' \subseteq Delivered \cup {m}
              /\ \/ Held' = Held
                 \/ /\ Delivered' = Delivered
                    /\ \E b \in Entry : Held' = Held \cup {b} /\ b.msg = m
        BY <1>3, ReceiveSums
    <2>2. PICK out \in Outcomes(m) :
              /\ Deliver(m, out)
              /\ Delivered' \subseteq Delivered \cup {m}
              /\ \/ Held' = Held
                 \/ /\ Delivered' = Delivered
                    /\ \E b \in Entry : Held' = Held \cup {b} /\ b.msg = m
        BY <2>1
    <2>3. m \notin Delivered /\ \A b \in Held : b.msg # m
        BY <2>1 DEF Departed
    <2>4. \A b \in Held' : b.msg \notin Delivered'
        BY <2>2, <2>3 DEF Placed
    <2> QED BY <2>2, <2>3, <2>4, DeliverPlaced DEF Placed
<1>4. CASE FlushOne
    <2>1. PICK d \in draining : \E out \in Outcomes(d.msg) :
              /\ Deliver(d.msg, out) /\ d \in Held
              /\ d.msg \in Message /\ d.msg \notin Delivered
              /\ Delivered' \subseteq Delivered \cup {d.msg}
              /\ \/ Held' = Held /\ Delivered' = Delivered
                 \/ Held' = Held \ {d}
        BY <1>4, FlushSums
    <2>2. PICK out \in Outcomes(d.msg) :
              /\ Deliver(d.msg, out) /\ d \in Held
              /\ d.msg \in Message /\ d.msg \notin Delivered
              /\ Delivered' \subseteq Delivered \cup {d.msg}
              /\ \/ Held' = Held /\ Delivered' = Delivered
                 \/ Held' = Held \ {d}
        BY <2>1
    <2>3. \A b \in Held \ {d} : b.msg # d.msg
        <3> SUFFICES ASSUME NEW b \in Held, b # d, b.msg = d.msg PROVE FALSE
            OBVIOUS
        <3>1. b.msg.seq \in Nat
            BY <2>2, DepartedType DEF Message
        <3> QED BY <2>2, <3>1 DEF Ticketed
    <2>4. \A b \in Held' : b.msg \notin Delivered'
        BY <2>2, <2>3 DEF Placed
    <2> QED BY <2>2, <2>4, DeliverPlaced DEF Placed
<1> QED BY <1>1, <1>2, <1>3, <1>4, Kinds DEF Ticketed

LEMMA StepTicketed == Invariants /\ [Next]_vars => Ticketed'
<1> SUFFICES ASSUME Invariants, [Next]_vars PROVE Ticketed'
    OBVIOUS
<1> USE DEF Invariants
<1>t. counter \in Nat /\ \A b \in Held : b.ticket \in Nat /\ b.msg.seq \in Nat
    <2>1. \A b \in Entry : b.ticket \in Nat /\ b.msg.seq \in Nat
        BY DEF Entry, Message
    <2> QED BY <2>1, DepartedType DEF TypeOK
<1>1. CASE Quiet
    <2>1. /\ draining' \cap message_buffer_swap' = {} /\ Held' \subseteq Held
          /\ counter' = counter \/ counter' = counter + 1
        BY <1>1 DEF Quiet
    <2>2. \A b \in Held' : b.ticket < counter'
        BY <1>t, <2>1 DEF Ticketed
    <2> QED BY <2>1, <2>2 DEF Ticketed
<1>2. ASSUME NEW s \in Senders, Send(s) PROVE Ticketed'
    <2>1. UNCHANGED <<draining, message_buffer_swap, counter>> /\ Held' = Held
        BY <1>2 DEF Send, Held, busVars
    <2> QED BY <2>1 DEF Ticketed
<1>3. ASSUME NEW s \in Senders, ReceiveMessage(s) PROVE Ticketed'
    <2>1. PICK m \in Message :
              /\ m.src = s
              /\ \A n \in Departed : n.src = s => n.seq < m.seq
              /\ \/ Held' = Held
                 \/ \E b \in Entry : /\ Held' = Held \cup {b}
                                     /\ b.ticket = counter /\ b.msg = m
              /\ counter' = counter + 1
              /\ UNCHANGED <<draining, message_buffer_swap>>
        BY <1>3, ReceiveSums
    <2>2. \A c \in Held : /\ c.ticket < counter
                          /\ c.msg.src = s => c.msg.seq < m.seq
        BY <2>1, DepartedType DEF Ticketed
    <2>3. CASE Held' = Held
        BY <1>t, <2>1, <2>3 DEF Ticketed
    <2>4. ASSUME NEW b \in Entry, Held' = Held \cup {b}, b.ticket = counter, b.msg = m
          PROVE  Ticketed'
        <3>1. \A c \in Held' : c.ticket < counter'
            BY <1>t, <2>1, <2>2, <2>4
        <3>2. \A c, e \in Held' : c # e /\ c.msg.src = e.msg.src =>
                  \/ c.ticket < e.ticket /\ c.msg.seq < e.msg.seq
                  \/ e.ticket < c.ticket /\ e.msg.seq < c.msg.seq
            BY <2>1, <2>2, <2>4 DEF Ticketed
        <3> QED BY <2>1, <3>1, <3>2 DEF Ticketed
    <2> QED BY <2>1, <2>3, <2>4
<1>4. CASE FlushOne
    <2>1. /\ Held' \subseteq Held /\ counter' = counter
          /\ draining' \cap message_buffer_swap' = {}
        BY <1>4, FlushSums
    <2> QED BY <2>1 DEF Ticketed
<1> QED BY <1>1, <1>2, <1>3, <1>4, Kinds DEF Ticketed

LEMMA InitInvariants == Init => Invariants /\ BufferedUnmatched
<1> SUFFICES ASSUME Init PROVE Invariants /\ BufferedUnmatched
    OBVIOUS
<1>1. MessagesIn(<<>>) = {}
    BY DEF MessagesIn
<1>2. Held = {} /\ Delivered = {} /\ Departed = {}
    BY <1>1 DEF Init, Held, Delivered, Departed
<1>3. Numbered
    BY <1>1 DEF Init, Numbered
<1>4. Seats /\ Past /\ Placed /\ Ticketed
    BY <1>1, <1>2 DEF Init, Seats, Past, Placed, Ticketed
<1>5. BuffersByPhase /\ BufferedUnmatched
    BY DEF Init, BuffersByPhase, BufferedUnmatched
<1> QED BY <1>3, <1>4, <1>5, InitType DEF Invariants

\* Where a message is, for all that is proved below.
LEMMA StepInvariants ==
    Invariants /\ BufferedUnmatched /\ [Next]_vars => Invariants' /\ BufferedUnmatched'
<1> SUFFICES ASSUME Invariants, BufferedUnmatched, [Next]_vars
             PROVE  Invariants' /\ BufferedUnmatched'
    OBVIOUS
<1>1. TypeOK' /\ BuffersByPhase' /\ BufferedUnmatched'
    BY StepType, StepUnmatched DEF Invariants
<1>2. Seats' /\ Numbered'
    BY StepSeats, StepNumbered DEF Invariants
<1>3. Past' /\ Placed' /\ Ticketed'
    BY StepPast, StepPlaced, StepTicketed
<1> QED BY <1>1, <1>2, <1>3 DEF Invariants

LEMMA SpecInvariants == Spec => [](Invariants /\ BufferedUnmatched)
BY InitInvariants, StepInvariants, PTL DEF Spec

\* A unicast is on one channel at most, and not in the buffers once it is there.
THEOREM UnicastAtMostOnceAlways == Spec => []UnicastAtMostOnce
<1>1. Invariants => UnicastAtMostOnce
    <2> SUFFICES ASSUME Invariants, NEW p \in Peers, NEW m \in MessagesIn(log[p]),
                        m.sel.mode = "unicast"
                 PROVE  /\ \A q \in Peers \ {p} : m \notin MessagesIn(log[q])
                        /\ m \notin MessagesIn(own_log)
                        /\ \A b \in Held : b.msg # m
        BY DEF UnicastAtMostOnce
    <2>1. m \in Delivered
        BY DEF Delivered
    <2> QED BY <2>1 DEF Invariants, Placed
<1> QED BY <1>1, SpecInvariants, PTL

-----------------------------------------------------------------------------
(* The order of the messages of one sender *)

\* While the buffer is drained, whoever accepts a message that is still in it has
\* only older ones of the same sender: only the endpoint that has just come does.
Overtaken ==
    /\ \A b \in draining, e \in endpoints : e.label \in b.msg.sel.accepts =>
          \A m \in MessagesIn(log[e.remote]) :
              m.src = b.msg.src => m.seq < b.msg.seq
    /\ own_open => \A b \in draining : OwnLabel \notin b.msg.sel.accepts

\* A message that is younger than those of its sender on the channels it goes to
\* keeps them in order.
LEMMA DeliverInOrder ==
    ASSUME TypeOK, SourceOrder, NEW m \in Message, NEW out \in Outcomes(m),
           Deliver(m, out),
           \A p \in Reached(m, out) : \A n \in MessagesIn(log[p]) :
              n.src = m.src => n.seq < m.seq,
           ToSelf(m, out) /\ own_open => \A n \in MessagesIn(own_log) :
              n.src = m.src => n.seq < m.seq
    PROVE  SourceOrder'
<1>1. own_log \in Seq(Message) /\ \A p \in Peers : log[p] \in Seq(Message)
    BY DEF TypeOK
<1>2. \A p \in Peers : log'[p] = IF p \in Reached(m, out) THEN Append(log[p], m) ELSE log[p]
    BY DEF Deliver
<1>3. own_log' = IF ToSelf(m, out) /\ own_open THEN Append(own_log, m) ELSE own_log
    BY DEF Deliver
<1>4. InOrder(own_log) /\ \A p \in Peers : InOrder(log[p])
    BY DEF SourceOrder
<1>5. InOrder(own_log')
    BY <1>1, <1>3, <1>4, AppendInOrder
<1>6. ASSUME NEW p \in Peers PROVE InOrder(log'[p])
    <2>1. CASE p \in Reached(m, out)
        BY <1>1, <1>2, <1>4, <2>1, AppendInOrder
    <2>2. CASE p \notin Reached(m, out)
        BY <1>2, <1>4, <2>2
    <2> QED BY <2>1, <2>2
<1>7. InOrder(own_log)' /\ \A p \in Peers : InOrder(log[p])'
    BY <1>5, <1>6 DEF InOrder
<1> QED BY <1>7 DEF SourceOrder

Ordered == SourceOrder /\ Overtaken

LEMMA StepOrdered ==
    /\ Invariants /\ BufferedUnmatched /\ AskedOnce /\ AckFirst /\ Ordered
    /\ [Next]_vars
    => Ordered'
<1> SUFFICES ASSUME Invariants, BufferedUnmatched, AskedOnce, AckFirst,
                    SourceOrder, Overtaken, [Next]_vars
             PROVE  SourceOrder' /\ Overtaken'
    BY DEF Ordered
<1> USE DEF Invariants
<1>o. ASSUME UNCHANGED <<own_log, log>> PROVE SourceOrder'
    BY <1>o DEF SourceOrder, InOrder
<1>1. CASE Quiet /\ Calm
    BY <1>o, <1>1 DEF Quiet, Calm, Overtaken
<1>2. ASSUME Quiet, NEW p \in Peers, ReceiveConnect(p) PROVE SourceOrder' /\ Overtaken'
    <2> DEFINE new == [seat |-> counter, label |-> request[p].label, remote |-> p]
    <2>1. /\ log' = log /\ own_open' = own_open
          /\ endpoints' \subseteq endpoints \cup {new}
          /\ draining' = message_buffer \/ draining' = draining
          /\ pc = "recv"
        BY <1>2 DEF ReceiveConnect, envVars
    <2>2. draining = {} /\ new.remote = p
        BY <2>1 DEF BuffersByPhase
    <2>3. log[p] = <<>>
        <3>1. ack[p] = "none"
            BY <1>2 DEF ReceiveConnect, AskedOnce
        <3> QED BY <3>1 DEF AckFirst
    <2>4. MessagesIn(log[p]) = {}
        BY <2>3 DEF MessagesIn
    <2> HIDE DEF new
    <2>5. Overtaken'
        BY <2>1, <2>2, <2>4 DEF Overtaken, BufferedUnmatched
    <2> QED BY <1>o, <1>2, <2>5 DEF Quiet
<1>3. ASSUME NEW s \in Senders, Send(s) PROVE SourceOrder' /\ Overtaken'
    <2>1. UNCHANGED <<endpoints, draining, own_open, own_log, log>>
        BY <1>3 DEF Send, busVars, outVars
    <2> QED BY <1>o, <2>1 DEF Overtaken
<1>4. ASSUME NEW s \in Senders, ReceiveMessage(s) PROVE SourceOrder' /\ Overtaken'
    <2>1. PICK m \in Message : \E out \in Outcomes(m) :
              /\ m.src = s
              /\ \A n \in Departed : n.src = s => n.seq < m.seq
              /\ Deliver(m, out)
              /\ pc = "recv" /\ draining' = draining
        BY <1>4, ReceiveSums
    <2>2. PICK out \in Outcomes(m) : Deliver(m, out)
        BY <2>1
    <2>3. /\ \A p \in Reached(m, out) : \A n \in MessagesIn(log[p]) : n \in Departed
          /\ \A n \in MessagesIn(own_log) : n \in Departed
        <3>1. Reached(m, out) \subseteq Peers
            BY ReachedMatch DEF TypeOK, Endpoint
        <3> QED BY <3>1 DEF Departed, Delivered
    <2>4. SourceOrder'
        BY <2>1, <2>2, <2>3, DeliverInOrder
    <2>5. draining' = {}
        BY <2>1 DEF BuffersByPhase
    <2> QED BY <2>4, <2>5 DEF Overtaken
<1>5. CASE FlushOne
    <2>1. PICK d \in draining : \E out \in Outcomes(d.msg) :
              /\ FirstToDrain(d) /\ Deliver(d.msg, out) /\ d \in Held
              /\ d.msg \in Message
              /\ draining' = draining \ {d} /\ own_open' = own_open
        BY <1>5, FlushSums
    <2>2. PICK out \in Outcomes(d.msg) : Deliver(d.msg, out)
        BY <2>1
    <2>3. \A p \in Reached(d.msg, out) : \A n \in MessagesIn(log[p]) :
              n.src = d.msg.src => n.seq < d.msg.seq
        BY ReachedMatch DEF Overtaken
    <2>4. ~(ToSelf(d.msg, out) /\ own_open)
        BY DEF ToSelf, Overtaken
    <2>5. SourceOrder'
        BY <2>1, <2>2, <2>3, <2>4, DeliverInOrder
    <2>6. endpoints' \subseteq endpoints
        BY <2>2 DEF Deliver
    <2>7. ASSUME NEW b \in draining', NEW e \in endpoints', e.label \in b.msg.sel.accepts,
                 NEW m \in MessagesIn(log'[e.remote]), m.src = b.msg.src
          PROVE  m.seq < b.msg.seq
        <3>1. b \in draining /\ b # d /\ e \in endpoints
            BY <2>1, <2>6
        <3>2. e.remote \in Peers
            BY <3>1 DEF TypeOK, Endpoint
        <3>3. m \in MessagesIn(log[e.remote]) \/ m = d.msg
            BY <2>1, <2>2, <3>2, DeliverPuts
        <3>4. CASE m \in MessagesIn(log[e.remote])
            BY <2>7, <3>1, <3>4 DEF Overtaken
        <3>5. CASE m = d.msg
            <4>1. b \in Held
                BY <3>1 DEF Held
            <4>2. d.ticket <= b.ticket
                BY <2>1, <3>1 DEF FirstToDrain
            <4>3. d.ticket \in Nat /\ b.ticket \in Nat
                BY <3>1 DEF TypeOK, Entry
            <4> QED BY <2>1, <2>7, <3>1, <3>5, <4>1, <4>2, <4>3 DEF Ticketed
        <3> QED BY <3>3, <3>4, <3>5
    <2>8. own_open' => \A b \in draining' : OwnLabel \notin b.msg.sel.accepts
        BY <2>1 DEF Overtaken
    <2> QED BY <2>5, <2>7, <2>8 DEF Overtaken
<1> QED BY <1>1, <1>2, <1>3, <1>4, <1>5, Kinds DEF Ticketed

\* Messages of one sender are put on every channel in the order they were sent and
\* once, although some of them wait in the buffer and others do not.
THEOREM SourceOrderAlways == Spec => []SourceOrder
<1>1. Init => AskedOnce /\ AckFirst /\ Ordered
    BY DEF Init, AskedOnce, AckFirst, NoRequest, Ordered, SourceOrder, InOrder, Overtaken
<1>2. /\ Invariants /\ BufferedUnmatched /\ AskedOnce /\ AckFirst /\ Ordered
      /\ [Next]_vars
      => AskedOnce' /\ AckFirst' /\ Ordered'
    BY StepAck, StepOrdered DEF Invariants
<1>3. Ordered => SourceOrder
    BY DEF Ordered
<1> QED BY <1>1, <1>2, <1>3, InitInvariants, StepInvariants, PTL DEF Spec

-----------------------------------------------------------------------------
(* The refinement *)

\* What MessageBus sees of the controller.
Seated ==
    {[who |-> e.remote, label |-> e.label] : e \in endpoints}
       \cup (IF own_open THEN {[who |-> Own, label |-> OwnLabel]} ELSE {})
Waiting == (UNION {MessagesIn(inbox[s]) : s \in Senders}) \cup {b.msg : b \in Held}
Given == [u \in Senders |-> MessagesIn(IF u = Own THEN own_log ELSE log[u])]

\* The members a message that was handled with these results was given to.
Takers(m, out) ==
    {[who |-> e.remote, label |-> e.label] : e \in {f \in Tried(m, out) : out[f] = "Ok"}}
       \cup (IF ToSelf(m, out) /\ own_open THEN {[who |-> Own, label |-> OwnLabel]} ELSE {})

LEMMA GiveUpBus ==
    ASSUME Waiting' \subseteq Waiting, Seated' \subseteq Seated, Given' = Given
    PROVE  Bus!Next
<1>1. Bus!GiveUp
    BY DEF Bus!GiveUp, Seated, Waiting, Given
<1> QED BY <1>1 DEF Bus!Next

LEMMA MoveBus ==
    ASSUME Waiting' = Waiting, Seated' \subseteq [who : Senders, label : Labels],
           Given' = Given
    PROVE  Bus!Next
<1>1. Bus!JoinOrLeave
    BY DEF Bus!JoinOrLeave, Bus!Member, Seated, Waiting, Given
<1> QED BY <1>1 DEF Bus!Next

LEMMA SendBus ==
    ASSUME NEW m \in Message, Waiting' = Waiting \cup {m}, Waiting' \subseteq Message,
           \A u \in Senders : m \notin Given[u], Seated' = Seated, Given' = Given
    PROVE  Bus!Next
<1>1. Bus!Send
    BY DEF Bus!Send, Seated, Waiting, Given
<1> QED BY <1>1 DEF Bus!Next

LEMMA ConsumeBus ==
    ASSUME NEW m \in Waiting, NEW S \in SUBSET Seated, S # {},
           \A s \in S : s.label \in m.sel.accepts,
           m.sel.mode = "unicast" => \A s, t \in S : s = t,
           Waiting' = Waiting \ {m}, Seated' \subseteq Seated,
           Given' = [u \in Senders |-> IF \E s \in S : s.who = u
                                       THEN Given[u] \cup {m} ELSE Given[u]]
    PROVE  Bus!Next
<1>1. Bus!Consume(m, S)
    BY DEF Bus!Consume, Seated, Waiting, Given
<1> QED BY <1>1 DEF Bus!Next, Seated, Waiting

\* They are members its selector accepts, one if it is a unicast, and each of them
\* is given the message.
LEMMA TakersTake ==
    ASSUME TypeOK, Seats, NEW m \in Message, NEW out \in Outcomes(m), Deliver(m, out)
    PROVE  /\ Takers(m, out) \subseteq Seated
           /\ \A s \in Takers(m, out) : s.label \in m.sel.accepts
           /\ m.sel.mode = "unicast" => \A s, t \in Takers(m, out) : s = t
           /\ Given' = [u \in Senders |-> IF \E s \in Takers(m, out) : s.who = u
                                          THEN Given[u] \cup {m} ELSE Given[u]]
           /\ Remain(m, out) => Takers(m, out) = {}
<1> DEFINE took == {f \in Tried(m, out) : out[f] = "Ok"}
           self == [who |-> Own, label |-> OwnLabel]
           place(e) == [who |-> e.remote, label |-> e.label]
<1>1. DOMAIN out = Matching(m) /\ took \subseteq Matching(m)
    BY DEF Outcomes, Tried
<1>2. \A e \in took : e \in endpoints /\ e.label \in m.sel.accepts /\ e.remote \in Peers
    BY <1>1 DEF Matching, TypeOK, Endpoint
<1>3. Reached(m, out) = {e.remote : e \in took}
    BY DEF Reached
<1>4. \A s : s \in Takers(m, out) <=>
                \/ \E e \in took : s = place(e)
                \/ ToSelf(m, out) /\ own_open /\ s = self
    BY DEF Takers
<1>5. \A s : s \in Seated <=> \/ \E e \in endpoints : s = place(e)
                              \/ own_open /\ s = self
    BY DEF Seated
<1>6. \A e \in took : place(e).who = e.remote /\ place(e).label = e.label
    OBVIOUS
<1>7. self.who = Own /\ self.label = OwnLabel
    OBVIOUS
<1>8. m.sel.mode = "unicast" =>
          /\ \A e, f \in took : e = f
          /\ ToSelf(m, out) => took = {}
    <2> SUFFICES ASSUME m.sel.mode = "unicast"
                 PROVE  /\ \A e, f \in took : e = f
                        /\ ToSelf(m, out) => took = {}
        OBVIOUS
    <2>1. \A e, f \in took : ~(e.seat < f.seat)
        BY <1>1 DEF Tried
    <2>2. \A e \in took : e.seat \in Nat
        BY <1>2 DEF TypeOK, Endpoint
    <2>3. \A e, f \in took : e.seat = f.seat
        BY <2>1, <2>2
    <2>4. \A e, f \in took : e = f
        BY <1>2, <2>3 DEF Seats
    <2>5. ToSelf(m, out) => took = {}
        BY <1>3, UnicastReach
    <2> QED BY <2>4, <2>5
<1>9. Remain(m, out) => took = {} /\ ~(ToSelf(m, out) /\ own_open)
    BY <1>3, ReachedMatch
<1>10. ToSelf(m, out) => OwnLabel \in m.sel.accepts
    BY DEF ToSelf
<1> HIDE DEF took, self, place
<1>11. Takers(m, out) \subseteq Seated
    BY <1>2, <1>4, <1>5
<1>12. \A s \in Takers(m, out) : s.label \in m.sel.accepts
    BY <1>2, <1>4, <1>6, <1>7, <1>10
<1>13. m.sel.mode = "unicast" => \A s, t \in Takers(m, out) : s = t
    BY <1>4, <1>8
<1>14. Remain(m, out) => Takers(m, out) = {}
    BY <1>4, <1>9
<1>15. \A u \in Senders : (\E s \in Takers(m, out) : s.who = u) <=>
           \/ u \in Peers /\ u \in Reached(m, out)
           \/ u = Own /\ ToSelf(m, out) /\ own_open
    BY <1>2, <1>3, <1>4, <1>6, <1>7, PeersAssumption DEF Senders
<1>16. ASSUME NEW u \in Senders
       PROVE  Given'[u] = IF \E s \in Takers(m, out) : s.who = u
                          THEN Given[u] \cup {m} ELSE Given[u]
    <2>1. CASE u = Own
        <3>1. Given'[u] = MessagesIn(own_log') /\ Given[u] = MessagesIn(own_log)
            BY <2>1 DEF Given, MessagesIn
        <3>2. \A n : n \in MessagesIn(own_log') <=>
                        n \in MessagesIn(own_log) \/ (n = m /\ ToSelf(m, out) /\ own_open)
            BY DeliverPuts
        <3>3. u \notin Peers
            BY <2>1, PeersAssumption
        <3>4. (\E s \in Takers(m, out) : s.who = u) <=> ToSelf(m, out) /\ own_open
            BY <1>15, <2>1, <3>3
        <3>5. MessagesIn(own_log') = IF ToSelf(m, out) /\ own_open
                                     THEN MessagesIn(own_log) \cup {m} ELSE MessagesIn(own_log)
            BY <3>2
        <3> QED BY <3>1, <3>4, <3>5
    <2>2. CASE u # Own
        <3>1. u \in Peers
            BY <2>2 DEF Senders
        <3>2. Given'[u] = MessagesIn(log'[u]) /\ Given[u] = MessagesIn(log[u])
            BY <2>2 DEF Given, MessagesIn
        <3>3. \A n : n \in MessagesIn(log'[u]) <=>
                        n \in MessagesIn(log[u]) \/ (n = m /\ u \in Reached(m, out))
            BY <3>1, DeliverPuts
        <3>4. (\E s \in Takers(m, out) : s.who = u) <=> u \in Reached(m, out)
            BY <1>15, <2>2, <3>1
        <3>5. MessagesIn(log'[u]) = IF u \in Reached(m, out)
                                    THEN MessagesIn(log[u]) \cup {m} ELSE MessagesIn(log[u])
            BY <3>3
        <3> QED BY <3>2, <3>4, <3>5
    <2> QED BY <2>1, <2>2
<1>17. Given' = [u \in Senders |-> IF \E s \in Takers(m, out) : s.who = u
                                   THEN Given[u] \cup {m} ELSE Given[u]]
    BY <1>16 DEF Given
<1> QED BY <1>11, <1>12, <1>13, <1>14, <1>17

\* Handling a message that waited is to consume it or to give it up.
LEMMA HandleBus ==
    ASSUME TypeOK, Seats, NEW m \in Message, NEW out \in Outcomes(m), Deliver(m, out),
           own_open' = own_open, m \in Waiting,
           Waiting' \subseteq Waiting, Remain(m, out) \/ Waiting' = Waiting \ {m}
    PROVE  Bus!Next
<1>1. endpoints' \subseteq endpoints
    BY DEF Deliver
<1>2. Seated' \subseteq Seated
    BY <1>1 DEF Seated
<1>3. CASE Takers(m, out) = {}
    <2>1. Given' = [u \in Senders |-> Given[u]]
        BY <1>3, TakersTake
    <2>2. Given' = Given
        BY <2>1 DEF Given
    <2> QED BY <1>2, <2>2, GiveUpBus
<1>4. CASE Takers(m, out) # {}
    BY <1>2, <1>4, TakersTake, ConsumeBus
<1> QED BY <1>3, <1>4

\* What waits is an inbox's or a buffer's, and each message once.
LEMMA WaitingIs ==
    \A n : n \in Waiting <=> \/ \E s \in Senders : n \in MessagesIn(inbox[s])
                             \/ \E b \in Held : n = b.msg
BY DEF Waiting

LEMMA StepBus == Invariants /\ [Next]_vars => [Bus!Next]_(Bus!vars)
<1> SUFFICES ASSUME Invariants, [Next]_vars PROVE Bus!Next
    OBVIOUS
<1> USE DEF Invariants
<1>0. \A n : n \in Waiting' <=> \/ \E s \in Senders : n \in MessagesIn(inbox'[s])
                                \/ \E b \in Held' : n = b.msg
    BY DEF Waiting, MessagesIn
<1>1. CASE Quiet /\ Calm
    <2>1. Given' = Given /\ Waiting' \subseteq Waiting
        BY <1>1 DEF Quiet, Given, Waiting
    <2>2. Seated' \subseteq Seated
        BY <1>1 DEF Calm, Seated
    <2> QED BY <2>1, <2>2, GiveUpBus
<1>2. ASSUME Quiet, NEW p \in Peers, ReceiveConnect(p) PROVE Bus!Next
    <2>1. Given' = Given
        BY <1>2 DEF Quiet, Given
    <2>2. Held' = Held
        BY <1>2 DEF ReceiveConnect, Held, BuffersByPhase
    <2>3. Waiting' = Waiting
        BY <1>2, <2>2 DEF Quiet, Waiting
    <2>4. TypeOK'
        BY StepType
    <2>5. \A e \in endpoints' : e.remote \in Senders /\ e.label \in Labels
        BY <2>4 DEF TypeOK, Endpoint, Senders
    <2>6. Seated' \subseteq [who : Senders, label : Labels]
        BY <2>5, LabelAssumption DEF Seated, Senders
    <2> QED BY <2>1, <2>3, <2>6, MoveBus
<1>3. ASSUME NEW s \in Senders, Send(s) PROVE Bus!Next
    <2>1. PICK m \in Message : /\ m.src = s /\ m.seq = sent + 1
                               /\ inbox' = [inbox EXCEPT ![s] = Append(@, m)]
        <3>1. PICK sel \in Traffic :
                  inbox' = [inbox EXCEPT ![s] =
                              Append(@, [src |-> s, seq |-> sent + 1, sel |-> sel])]
            BY <1>3 DEF Send
        <3>2. [src |-> s, seq |-> sent + 1, sel |-> sel] \in Message
            BY DEF Message, TypeOK
        <3> QED BY <3>1, <3>2
    <2>2. Given' = Given /\ Seated' = Seated /\ Held' = Held
        BY <1>3 DEF Send, Given, Seated, Held, busVars, outVars
    <2>3. MessagesIn(inbox'[s]) = MessagesIn(inbox[s]) \cup {m}
        BY <2>1, AppendIn DEF TypeOK
    <2>4. \A t \in Senders \ {s} : inbox'[t] = inbox[t]
        BY <2>1 DEF TypeOK
    <2>5. Waiting' = Waiting \cup {m}
        BY <1>0, <2>2, <2>3, <2>4, WaitingIs
    <2>6. Waiting \subseteq Message
        <3>1. \A t \in Senders : MessagesIn(inbox[t]) \subseteq Message
            <4>1. \A q \in Seq(Message) : MessagesIn(q) \subseteq Message
                BY DEF MessagesIn
            <4> QED BY <4>1 DEF TypeOK
        <3> QED BY <3>1, WaitingIs, DepartedType
    <2>7. m \notin Delivered
        <3>1. sent \in Nat /\ \A n \in Departed : n.seq \in Nat /\ n.seq <= sent
            BY DepartedType DEF Past, Message, TypeOK
        <3> QED BY <2>1, <3>1, DepartedType
    <2>8. \A u \in Senders : m \notin Given[u]
        BY <2>7 DEF Delivered, Given, Senders
    <2> QED BY <2>2, <2>5, <2>6, <2>8, SendBus
<1>4. ASSUME NEW s \in Senders, ReceiveMessage(s) PROVE Bus!Next
    <2>1. PICK m \in Message : \E out \in Outcomes(m) :
              /\ m \notin Departed /\ m.src = s
              /\ Deliver(m, out)
              /\ \/ Held' = Held
                 \/ /\ Remain(m, out)
                    /\ \E b \in Entry : Held' = Held \cup {b} /\ b.msg = m
              /\ MessagesIn(inbox[s]) = {m} \cup MessagesIn(inbox'[s])
              /\ \A n \in MessagesIn(inbox'[s]) : m.seq < n.seq
              /\ \A t \in Senders \ {s} : inbox'[t] = inbox[t]
              /\ own_open' = own_open
        BY <1>4, ReceiveSums
    <2>2. PICK out \in Outcomes(m) :
              /\ Deliver(m, out)
              /\ \/ Held' = Held
                 \/ /\ Remain(m, out)
                    /\ \E b \in Entry : Held' = Held \cup {b} /\ b.msg = m
        BY <2>1
    <2>3. m \in Waiting
        BY <2>1, WaitingIs
    <2>4. Waiting' \subseteq Waiting
        BY <1>0, <2>1, <2>2, <2>3, WaitingIs
    <2>5. CASE Held' = Held
        <3>1. m \notin {b.msg : b \in Held}
            BY <2>1 DEF Departed
        <3>2. m \notin MessagesIn(inbox'[s])
            BY <2>1 DEF Message
        <3>3. \A t \in Senders \ {s} : m \notin MessagesIn(inbox'[t])
            BY <2>1 DEF Numbered
        <3>4. m \notin Waiting'
            BY <1>0, <2>5, <3>1, <3>2, <3>3
        <3>5. ASSUME NEW n \in Waiting, n # m PROVE n \in Waiting'
            BY <1>0, <2>1, <2>5, <3>5, WaitingIs
        <3>6. Waiting' = Waiting \ {m}
            BY <2>4, <3>4, <3>5
        <3> QED BY <2>1, <2>2, <2>3, <2>4, <3>6, HandleBus
    <2>6. CASE Remain(m, out)
        BY <2>1, <2>2, <2>3, <2>4, <2>6, HandleBus
    <2> QED BY <2>2, <2>5, <2>6
<1>5. CASE FlushOne
    <2>1. PICK d \in draining : \E out \in Outcomes(d.msg) :
              /\ Deliver(d.msg, out) /\ d \in Held /\ d.msg \in Message
              /\ \/ Kept(d, out) /\ Held' = Held
                 \/ Held' = Held \ {d}
              /\ inbox' = inbox /\ own_open' = own_open
        BY <1>5, FlushSums
    <2>2. PICK out \in Outcomes(d.msg) :
              /\ Deliver(d.msg, out)
              /\ \/ Kept(d, out) /\ Held' = Held
                 \/ Held' = Held \ {d}
        BY <2>1
    <2>3. d.msg \in Waiting /\ Waiting' \subseteq Waiting
        BY <1>0, <2>1, <2>2, WaitingIs
    <2>4. CASE Kept(d, out)
        BY <2>1, <2>2, <2>3, <2>4, HandleBus DEF Kept
    <2>5. CASE Held' = Held \ {d}
        <3>1. \A b \in Held \ {d} : b.msg # d.msg
            <4> SUFFICES ASSUME NEW b \in Held, b # d, b.msg = d.msg PROVE FALSE
                OBVIOUS
            <4>1. b.msg.seq \in Nat
                BY <2>1, DepartedType DEF Message
            <4> QED BY <2>1, <4>1 DEF Ticketed
        <3>2. d.msg \in Departed /\ d.msg.seq \in Nat
            BY <2>1, DepartedType DEF Message
        <3>3. \A t \in Senders : d.msg \notin MessagesIn(inbox[t])
            <4> SUFFICES ASSUME NEW t \in Senders, d.msg \in MessagesIn(inbox[t]) PROVE FALSE
                OBVIOUS
            <4>1. d.msg.src = t
                BY DEF Numbered
            <4> QED BY <3>2, <4>1 DEF Past
        <3>4. Waiting' = Waiting \ {d.msg}
            BY <1>0, <2>1, <2>5, <3>1, <3>3, WaitingIs
        <3> QED BY <2>1, <2>2, <2>3, <3>4, HandleBus
    <2> QED BY <2>2, <2>4, <2>5
<1> QED BY <1>1, <1>3, <1>4, <1>5, <1>2, Kinds DEF Ticketed

LEMMA InitBus == Init => Bus!Init
<1> SUFFICES ASSUME Init PROVE Bus!Init
    OBVIOUS
<1>1. MessagesIn(<<>>) = {}
    BY DEF MessagesIn
<1>2. Seated = {[who |-> Own, label |-> OwnLabel]} /\ Waiting = {}
    BY <1>1 DEF Init, Seated, Waiting, Held
<1>3. Given = [u \in Senders |-> {}]
    BY <1>1 DEF Init, Given, Senders
<1>4. Seated \subseteq [who : Senders, label : Labels]
    BY <1>2, LabelAssumption DEF Senders
<1> QED BY <1>2, <1>3, <1>4 DEF Bus!Init, Bus!Member, Seated, Waiting, Given

\* The controller implements the bus, on every platform.
THEOREM ImplementsBusAlways == Spec => ImplementsBus
<1>1. Invariants /\ [Next]_vars => [Bus!Next]_(Bus!vars)
    BY StepBus
<1> QED BY <1>1, InitBus, SpecInvariants, PTL DEF Spec, ImplementsBus, Bus!Spec

-----------------------------------------------------------------------------
(* Nothing is lost on the way *)

LEMMA Least ==
    ASSUME NEW T \in SUBSET Nat, T # {}
    PROVE  \E x \in T : \A y \in T : x <= y
<1>1. IsWellFoundedOn(OpToRel(<, Nat), Nat)
    BY NatLessThanWellFounded
<1>2. PICK x \in T : \A y \in T : <<y, x>> \notin OpToRel(<, Nat)
    BY <1>1, WFMin
<1>3. \A y \in T : ~(y < x)
    BY <1>2 DEF OpToRel
<1> QED BY <1>3

\* A send to the channel of a matching endpoint has one of three results, and
\* only macOS has the one that hides a failure.
LEMMA OutcomesAre ==
    ASSUME NEW m \in Message, NEW out \in Outcomes(m), NEW e \in Matching(m)
    PROVE  /\ out[e] \in {"Ok", "Lost", "Disconnect"}
           /\ Platform # "macos" => out[e] # "Lost"
<1>1. out[e] \in {"Ok", "Lost", "Disconnect"} /\ out[e] \in SendOutcomes(m, e.remote)
    BY DEF Outcomes
<1>2. LinuxSend(m) \subseteq {"Ok", "Disconnect"}
    BY DEF LinuxSend
<1>5. CASE status[e.remote] # "open"
    BY <1>1, <1>5 DEF SendOutcomes
<1>6. CASE status[e.remote] = "open" /\ Platform = "linux"
    <2>1. out[e] \in LinuxSend(m)
        BY <1>1, <1>6 DEF SendOutcomes
    <2> QED BY <1>2, <1>6, <2>1
<1>7. CASE status[e.remote] = "open" /\ Platform # "linux"
    <2>1. Platform # "macos" => out[e] \in WindowsSend(m)
        BY <1>1, <1>7, PlatformAssumption DEF SendOutcomes
    <2> QED BY <1>1, <2>1 DEF WindowsSend
<1> QED BY <1>5, <1>6, <1>7

\* Where no failure is hidden, a message that is routed is on some channel: of the
\* endpoints that can be sent to, the first one is tried.
LEMMA RoutedReaches ==
    ASSUME Platform # "macos", TypeOK, NEW m \in Message, NEW out \in Outcomes(m),
           Routed(m, out)
    PROVE  \E p \in Peers : p \in Reached(m, out)
<1>1. DOMAIN out = Matching(m) /\ Matching(m) \subseteq endpoints
    BY DEF Outcomes, Matching
<1>2. \A e \in DOMAIN out : e.seat \in Nat /\ e.remote \in Peers
    BY <1>1 DEF TypeOK, Endpoint
<1> DEFINE alive == {e \in DOMAIN out : out[e] # "Disconnect"}
           seats == {e.seat : e \in alive}
<1>3. seats \in SUBSET Nat /\ seats # {}
    BY <1>2 DEF Routed
<1>4. PICK x \in seats : \A y \in seats : x <= y
    BY <1>3, Least
<1>5. PICK e \in alive : e.seat = x
    BY <1>4
<1>6. \A f \in alive : ~(f.seat < e.seat)
    BY <1>2, <1>4, <1>5
<1>7. e \in Tried(m, out)
    BY <1>6 DEF Tried
<1>8. out[e] = "Ok"
    BY <1>1, <1>5, OutcomesAre
<1> QED BY <1>2, <1>7, <1>8 DEF Reached

LEMMA StepHeld ==
    ASSUME Platform # "macos", Invariants, [Next]_vars
    PROVE  \A b \in Held :
              \/ b \in Held'
              \/ b.expire <= now'
              \/ b.msg \in MessagesIn(own_log')
              \/ \E p \in Peers : b.msg \in MessagesIn(log'[p])
<1> USE DEF Invariants
<1>1. CASE Held \subseteq Held'
    BY <1>1
<1>2. CASE FlushOne
    <2>1. draining \cap message_buffer_swap = {}
        BY DEF Ticketed
    <2>2. PICK d \in draining : \E out \in Outcomes(d.msg) :
              /\ Deliver(d.msg, out) /\ d.msg \in Message
              /\ Held' = IF Kept(d, out) THEN Held ELSE Held \ {d}
        BY <1>2, <2>1, FlushMoves
    <2>3. PICK out \in Outcomes(d.msg) :
              /\ Deliver(d.msg, out)
              /\ Held' = IF Kept(d, out) THEN Held ELSE Held \ {d}
        BY <2>2
    <2>4. \A b \in Held : b \in Held' \/ (b = d /\ ~Kept(d, out))
        BY <2>3
    <2>5. CASE Kept(d, out)
        BY <2>4, <2>5
    <2>6. CASE Remain(d.msg, out) /\ ~Kept(d, out)
        <3>1. now' = now /\ now \in Nat /\ d.expire \in Nat
            BY <1>2 DEF FlushOne, TypeOK, Entry
        <3>2. d.expire <= now'
            BY <2>6, <3>1 DEF Kept
        <3> QED BY <2>4, <3>2
    <2>7. CASE ToSelf(d.msg, out) /\ own_open
        <3>1. d.msg \in MessagesIn(own_log')
            BY <2>2, <2>3, <2>7, DeliverPuts
        <3> QED BY <2>4, <3>1
    <2>8. CASE Routed(d.msg, out)
        <3>1. PICK p \in Peers : p \in Reached(d.msg, out)
            BY <2>2, <2>8, RoutedReaches
        <3>2. d.msg \in MessagesIn(log'[p])
            BY <2>2, <2>3, <3>1, DeliverPuts
        <3> QED BY <2>4, <3>2
    <2> QED BY <2>5, <2>6, <2>7, <2>8 DEF Remain
<1>3. CASE Tidy
    <2>1. /\ message_buffer' = {b \in message_buffer : b.expire > now}
          /\ UNCHANGED <<message_buffer_swap, draining, now>>
        BY <1>3 DEF Tidy
    <2>2. \A b \in message_buffer : b.expire \in Nat /\ now \in Nat
        BY DEF TypeOK, Entry
    <2> QED BY <2>1, <2>2 DEF Held
<1>4. CASE FlushDone
    <2>1. Held \subseteq Held'
        BY <1>4 DEF FlushDone, Held, BuffersByPhase
    <2> QED BY <1>1, <2>1
<1>5. ASSUME NEW p \in Peers, ReceiveConnect(p) PROVE Held \subseteq Held'
    BY <1>5 DEF ReceiveConnect, Held, BuffersByPhase
<1>6. ASSUME NEW s \in Senders, ReceiveMessage(s) PROVE Held \subseteq Held'
    BY <1>6, ReceiveSums
<1>7. ASSUME NEW p \in Peers, LookUp(p) \/ CloseReader(p) \/ ReceiveError(p)
      PROVE  Held \subseteq Held'
    BY <1>7 DEF LookUp, CloseReader, ReceiveError, busVars, Held
<1>8. ASSUME NEW s \in Senders, Send(s) PROVE Held \subseteq Held'
    BY <1>8 DEF Send, busVars, Held
<1>9. CASE CloseOwn \/ Tick \/ UNCHANGED vars
    BY <1>9 DEF CloseOwn, Tick, vars, busVars, Held
<1> QED BY <1>1, <1>2, <1>3, <1>4, <1>5, <1>6, <1>7, <1>8, <1>9
        DEF Next, Run, Environment

\* Except where a failed send looks like one that worked (macOS), a message that
\* nobody took stays in the buffers until somebody takes it or it expired.
THEOREM HeldUntilRoutedOrExpiredAlways ==
    ASSUME Platform # "macos"
    PROVE  Spec => HeldUntilRoutedOrExpired
<1>1. Invariants /\ [Next]_vars =>
          [\A b \in Held :
              \/ b \in Held'
              \/ b.expire <= now'
              \/ b.msg \in MessagesIn(own_log')
              \/ \E p \in Peers : b.msg \in MessagesIn(log'[p])]_vars
    BY StepHeld
<1> QED BY <1>1, SpecInvariants, PTL DEF Spec, HeldUntilRoutedOrExpired

\* A peer has one endpoint in the table, and none once the system has refused a
\* message for it.
Unrefused ==
    /\ \A e, f \in endpoints : e.remote = f.remote => e = f
    /\ \A e \in endpoints : e.remote \notin refused
    /\ \A p \in refused : ack[p] # "none"

LEMMA DeliverUnrefused ==
    ASSUME Unrefused, AckFirst, TypeOK, NEW m, NEW out \in Outcomes(m), Deliver(m, out),
           ack' = ack
    PROVE  Unrefused'
<1> DEFINE gone == {e.remote : e \in {f \in Offline(m, out) : status[f.remote] = "open"}}
<1>1. endpoints' = endpoints \ Offline(m, out) /\ refused' = refused \cup gone
    BY DEF Deliver
<1>2. Offline(m, out) \subseteq endpoints
    BY DEF Offline, Tried, Outcomes, Matching
<1>3. \A e \in endpoints' : e.remote \notin gone
    BY <1>1, <1>2 DEF Unrefused
<1>4. \A p \in gone : ack[p] # "none"
    BY <1>2 DEF AckFirst, TypeOK, Endpoint
<1> HIDE DEF gone
<1> QED BY <1>1, <1>3, <1>4 DEF Unrefused

LEMMA StepUnrefused ==
    TypeOK /\ AskedOnce /\ AckFirst /\ Unrefused /\ [Next]_vars => Unrefused'
<1> SUFFICES ASSUME TypeOK, AskedOnce, AckFirst, Unrefused, [Next]_vars PROVE Unrefused'
    OBVIOUS
<1>0. CASE endpoints' \subseteq endpoints /\ ack' = ack /\ refused' = refused
    BY <1>0 DEF Unrefused
<1>1. ASSUME NEW s \in Senders, ReceiveMessage(s) PROVE Unrefused'
    <2>1. PICK out \in Outcomes(Head(inbox[s])) : Deliver(Head(inbox[s]), out)
        BY <1>1 DEF ReceiveMessage
    <2>2. ack' = ack
        BY <1>1 DEF ReceiveMessage
    <2> QED BY <2>1, <2>2, DeliverUnrefused
<1>2. ASSUME NEW p \in Peers, ReceiveConnect(p) PROVE Unrefused'
    <2> DEFINE new == [seat |-> counter, label |-> request[p].label, remote |-> p]
    <2>1. PICK out \in AckOutcomes(p) :
              /\ ack' = Reply(p, out)
              /\ endpoints' = IF Accepted(p, out) THEN endpoints \cup {new} ELSE endpoints
        BY <1>2 DEF ReceiveConnect
    <2>2. ack[p] = "none" /\ refused' = refused
        BY <1>2 DEF ReceiveConnect, AskedOnce
    <2>3. p \notin refused /\ \A e \in endpoints : e.remote # p
        BY <2>2 DEF AckFirst, Unrefused
    <2>4. \A q \in Peers \ {p} : ack'[q] = ack[q]
        BY <2>1 DEF Reply, TypeOK
    <2>5. new.remote = p
        OBVIOUS
    <2> HIDE DEF new
    <2> QED BY <2>1, <2>2, <2>3, <2>4, <2>5 DEF Unrefused, TypeOK
<1>3. CASE FlushOne
    <2>1. PICK d \in draining : \E out \in Outcomes(d.msg) : Deliver(d.msg, out)
        BY <1>3 DEF FlushOne
    <2>2. ack' = ack
        BY <1>3 DEF FlushOne
    <2> QED BY <2>1, <2>2, DeliverUnrefused
<1>4. CASE FlushDone \/ Tidy
    BY <1>0, <1>4 DEF FlushDone, Tidy, outVars
<1>5. ASSUME NEW p \in Peers, LookUp(p) \/ CloseReader(p) \/ ReceiveError(p) PROVE Unrefused'
    BY <1>0, <1>5 DEF LookUp, CloseReader, ReceiveError, busVars, outVars
<1>6. ASSUME NEW s \in Senders, Send(s) PROVE Unrefused'
    BY <1>0, <1>6 DEF Send, busVars, outVars
<1>7. CASE CloseOwn \/ Tick \/ UNCHANGED vars
    BY <1>0, <1>7 DEF CloseOwn, Tick, vars, busVars, outVars
<1> QED BY <1>1, <1>2, <1>3, <1>4, <1>5, <1>6, <1>7 DEF Next, Run, Environment

LEMMA StepMulticast ==
    ASSUME Platform # "macos", Invariants, Unrefused, [Next]_vars,
           NEW s \in Senders, inbox[s] # <<>>, inbox'[s] = Tail(inbox[s]),
           Head(inbox[s]).sel.mode = "multicast",
           NEW e \in Matching(Head(inbox[s])), status[e.remote] = "open"
    PROVE  \/ Head(inbox[s]) \in MessagesIn(log'[e.remote])
           \/ e.remote \in refused' \ refused /\ e \notin endpoints'
<1> USE DEF Invariants
<1>1. inbox[s] \in Seq(Message)
    BY DEF TypeOK
<1>2. Tail(inbox[s]) # inbox[s] /\ \A m \in Message : Tail(inbox[s]) # Append(inbox[s], m)
    <2>1. /\ Len(Tail(inbox[s])) = Len(inbox[s]) - 1 /\ Len(inbox[s]) \in Nat
          /\ \A m \in Message : Len(Append(inbox[s], m)) = Len(inbox[s]) + 1
        BY <1>1
    <2>2. Len(Tail(inbox[s])) # Len(inbox[s])
        BY <2>1
    <2>3. \A m \in Message : Len(Tail(inbox[s])) # Len(Append(inbox[s], m))
        BY <2>1
    <2> QED BY <2>2, <2>3
<1>3. inbox' # inbox
    BY <1>2
<1>4. ASSUME NEW t \in Senders, Send(t) PROVE FALSE
    <2>1. PICK m \in Message : inbox' = [inbox EXCEPT ![t] = Append(@, m)]
        <3>1. PICK sel \in Traffic :
                  inbox' = [inbox EXCEPT ![t] =
                              Append(@, [src |-> t, seq |-> sent + 1, sel |-> sel])]
            BY <1>4 DEF Send
        <3>2. [src |-> t, seq |-> sent + 1, sel |-> sel] \in Message
            BY DEF Message, TypeOK
        <3> QED BY <3>1, <3>2
    <2>2. inbox'[s] = inbox[s] \/ inbox'[s] = Append(inbox[s], m)
        BY <2>1 DEF TypeOK
    <2> QED BY <1>2, <2>2
<1>5. PICK t \in Senders : ReceiveMessage(t)
    BY <1>3, <1>4, Kinds DEF Quiet, Ticketed, FlushOne, inVars
<1>6. t = s
    <2>1. inbox' = [inbox EXCEPT ![t] = Tail(@)]
        BY <1>5, ReceiveMoves
    <2>2. t # s => inbox'[s] = inbox[s]
        BY <2>1 DEF TypeOK
    <2> QED BY <1>2, <2>2
<1> DEFINE m == Head(inbox[s])
<1>7. PICK out \in Outcomes(m) : m \in Message /\ Deliver(m, out)
    BY <1>5, <1>6, ReceiveMoves
<1>8. e \in DOMAIN out /\ e.remote \in Peers
    BY <1>7 DEF Outcomes, Matching, TypeOK, Endpoint
<1>9. m.sel.mode = "multicast" /\ status[e.remote] = "open" /\ e \in Matching(m)
    OBVIOUS
<1> HIDE DEF m
<1>10. CASE out[e] = "Ok"
    <2>1. e.remote \in Reached(m, out)
        BY <1>8, <1>9, <1>10 DEF Reached, Tried
    <2>2. m \in MessagesIn(log'[e.remote])
        BY <1>7, <1>8, <2>1, DeliverPuts
    <2> QED BY <2>2 DEF m
<1>11. CASE out[e] = "Disconnect"
    <2>1. e \in Offline(m, out)
        BY <1>8, <1>9, <1>11 DEF Offline, Tried
    <2>2. e.remote \in refused' /\ e \notin endpoints'
        BY <1>7, <1>9, <2>1 DEF Deliver
    <2>3. e.remote \notin refused
        BY <1>9 DEF Matching, Unrefused
    <2> QED BY <2>2, <2>3
<1> QED BY <1>7, <1>9, <1>10, <1>11, OutcomesAre

\* A multicast that is received reaches every registered endpoint that matches and
\* still reads, but for those to which the system refuses it, which are registered no
\* more; macOS hides such a failure.
THEOREM MulticastReachesAllAlways ==
    ASSUME Platform # "macos"
    PROVE  Spec => MulticastReachesAll
<1>1. Init => AskedOnce /\ AckFirst /\ Unrefused
    BY DEF Init, AskedOnce, AckFirst, NoRequest, Unrefused
<1>2. Invariants /\ AskedOnce /\ AckFirst /\ Unrefused /\ [Next]_vars
        => AskedOnce' /\ AckFirst' /\ Unrefused'
    BY StepAck, StepUnrefused DEF Invariants
<1>3. Invariants /\ Unrefused /\ [Next]_vars =>
          [\A s \in Senders :
              inbox[s] # <<>> /\ inbox'[s] = Tail(inbox[s]) =>
                 LET m == Head(inbox[s]) IN
                 m.sel.mode = "multicast" =>
                    \A e \in Matching(m) :
                        status[e.remote] = "open" =>
                           \/ m \in MessagesIn(log'[e.remote])
                           \/ e.remote \in refused' \ refused /\ e \notin endpoints']_vars
    BY StepMulticast
<1> QED BY <1>1, <1>2, <1>3, SpecInvariants, PTL DEF Spec, MulticastReachesAll
=============================================================================
