---------------------------- MODULE IoHubProofs ----------------------------
(***************************************************************************)
(* Proofs about the event loop of the bus controller on Linux, for any     *)
(* number of connections, threads and messages: the controller's thread    *)
(* never sleeps on a message of its own, and what can be read stays in     *)
(* epoll's list whatever the thread throws away.                           *)
(***************************************************************************)
EXTENDS IoHub, SubsequencesProofs

-----------------------------------------------------------------------------
(* Types, and the list of epoll *)

LEMMA RaiseAdds ==
    ASSUME ready \in Seq(Descriptors), NEW d \in Descriptors, Raise(d)
    PROVE  ready' \in Seq(Descriptors) /\ ToSet(ready') = ToSet(ready) \cup {d}
BY AppendRange DEF Raise

\* What Wait takes is not empty, and nothing that is ready leaves the list.
LEMMA WaitKeeps ==
    ASSUME TypeOK, Wait
    PROVE  /\ in_buffer' \in Seq(Descriptors) /\ in_buffer' # <<>>
           /\ ready' \in Seq(Descriptors)
           /\ \A d \in ToSet(ready) : IsReady(d) => d \in ToSet(ready')
<1> DEFINE live == Filter(ready, {d \in Descriptors : IsReady(d)})
           n == Len(live)
           k == IF n < InBuffer THEN n ELSE InBuffer
           front == SubSeq(live, 1, k)
           rest == SubSeq(live, k + 1, n)
<1>1. /\ live # <<>> /\ in_buffer' = front
      /\ ready' = SubSeq(live, Len(front) + 1, n) \o front
  BY DEF Wait
<1>2. /\ live \in Seq(Descriptors)
      /\ \A d \in ToSet(ready) : IsReady(d) => d \in ToSet(live)
  <2>1. live \in Seq(Descriptors) /\ ToSet(live) = ToSet(ready) \cap {d \in Descriptors : IsReady(d)}
    BY FilterType DEF TypeOK
  <2>2. ToSet(ready) \subseteq Descriptors
    BY DEF TypeOK, ToSet
  <2> QED BY <2>1, <2>2
<1> HIDE DEF live
<1>3. n \in Nat /\ n > 0 /\ k \in 1..n /\ k \in Nat
  BY <1>1, <1>2, NumbersAssumption
<1>4. \A i \in 1..n : live[i] \in Descriptors
  BY <1>2
<1> HIDE DEF k
<1>5. front \in Seq(Descriptors) /\ Len(front) = k /\ \A i \in 1..k : front[i] = live[i]
  BY <1>2, <1>3
<1>6. /\ rest \in Seq(Descriptors) /\ Len(rest) = n - k
      /\ \A i \in 1..(n - k) : rest[i] = live[k + i]
  BY <1>2, <1>3
<1> HIDE DEF front, rest
<1>7. ready' = rest \o front
  BY <1>1, <1>5 DEF rest
<1>8. ready' \in Seq(Descriptors) /\ Len(ready') = n
  <2>1. ready' \in Seq(Descriptors) /\ Len(ready') = Len(rest) + Len(front)
    BY <1>5, <1>6, <1>7, ConcatProperties
  <2> QED BY <1>3, <1>5, <1>6, <2>1
<1>9. ASSUME NEW i \in 1..n PROVE \E j \in 1..n : ready'[j] = live[i]
  <2>1. CASE i <= k
    <3>1. (n - k) + i \in 1..n /\ i \in 1..k
      BY <1>3, <2>1
    <3>2. ready'[(n - k) + i] = front[i]
      BY <1>3, <1>5, <1>6, <1>7, <3>1, ConcatProperties
    <3> QED BY <1>5, <3>1, <3>2
  <2>2. CASE ~(i <= k)
    <3>1. i - k \in 1..(n - k) /\ i - k \in 1..n /\ k + (i - k) = i
      BY <1>3, <2>2
    <3>2. ready'[i - k] = rest[i - k]
      BY <1>3, <1>5, <1>6, <1>7, <3>1
    <3> QED BY <1>6, <3>1, <3>2
  <2> QED BY <2>1, <2>2
<1>10. \A d \in ToSet(live) : d \in ToSet(ready')
  BY <1>2, <1>8, <1>9 DEF ToSet
<1>11. front # <<>>
  BY <1>3, <1>5
<1> QED BY <1>1, <1>2, <1>5, <1>8, <1>10, <1>11

\* One event less, and the loop starts over after the last.
LEMMA NextEventType ==
    ASSUME TypeOK, pc = "events", NextEvent
    PROVE  /\ in_buffer' \in Seq(Descriptors) /\ pc' \in {"idle", "try", "wait", "events"}
           /\ pc' = "events" <=> in_buffer' # <<>>
           /\ heard' \in [Senders -> Nat]
<1>1. in_buffer # <<>> /\ in_buffer \in Seq(Descriptors)
  BY DEF TypeOK
<1>2. Tail(in_buffer) \in Seq(Descriptors)
  BY <1>1
<1>3. heard' \in [Senders -> Nat]
  BY DEF NextEvent, TypeOK
<1> QED BY <1>2, <1>3 DEF NextEvent, AfterEvents

\* The types; that the thread handles events exactly when it has some is one of
\* them, for whoever returns a message has thrown the others away.
THEOREM TypeCorrect == Spec => []TypeOK
<1> USE SendersAssumption, NamesAssumption
<1>s. Conns \subseteq Senders /\ Own \subseteq Senders
  BY DEF Senders
<1>c. {"msg", "bad"} = Contents
  BY DEF Contents
<1>h. ASSUME TypeOK, NEW s \in Senders, Return(s) PROVE heard' \in [Senders -> Nat] /\ pc' = "idle"
  BY <1>h DEF Return, TypeOK
<1>w. ASSUME TypeOK, NEW s \in Senders, NEW m \in Contents, Say(s, m)
      PROVE  said' \in [Senders -> Seq(Contents)]
  BY <1>w DEF Say, TypeOK
<1>1. Init => TypeOK
  <2> SUFFICES ASSUME Init PROVE TypeOK
    OBVIOUS
  <2>1. stage \in [Conns -> {"off", "pending", "local", "gone"}] /\ shut \in [Conns -> BOOLEAN]
    BY DEF Init
  <2>2. queue \in [Conns -> Seq(Contents)]
    BY DEF Init
  <2>3. said \in [Senders -> Seq(Contents)] /\ heard \in [Senders -> Nat]
    BY DEF Init
  <2>4. bus_rx \in Seq(Own) /\ ready \in Seq(Descriptors) /\ in_buffer \in Seq(Descriptors)
    BY DEF Init
  <2>5. woken \in BOOLEAN /\ waking \subseteq Own
    BY DEF Init
  <2>6. pc \in {"idle", "try", "wait", "events"} /\ (pc = "events" <=> in_buffer # <<>>)
    BY DEF Init
  <2> QED BY <2>1, <2>2, <2>3, <2>4, <2>5, <2>6 DEF TypeOK
<1>2. TypeOK /\ [Next]_vars => TypeOK'
  <2> SUFFICES ASSUME TypeOK, [Next]_vars PROVE TypeOK'
    OBVIOUS
  <2>d. "waker" \in Descriptors /\ "listener" \in Descriptors /\ Conns \subseteq Descriptors
    BY DEF Descriptors
  <2>r. ready \in Seq(Descriptors)
    BY DEF TypeOK
  <2>1. ASSUME NEW t \in Own, OwnSend(t) PROVE TypeOK'
    <3>1. bus_rx' \in Seq(Own)
      BY <2>1 DEF OwnSend, TypeOK
    <3>2. said' \in [Senders -> Seq(Contents)]
      BY <2>1, <1>s, <1>c, <1>w DEF OwnSend
    <3> QED BY <2>1, <3>1, <3>2 DEF OwnSend, connVars, hubVars, TypeOK
  <2>2. ASSUME NEW t \in Own, Wake(t) PROVE TypeOK'
    <3>1. ready' \in Seq(Descriptors)
      BY <2>2, <2>d, <2>r, RaiseAdds DEF Wake
    <3> QED BY <2>2, <3>1 DEF Wake, connVars, hubVars, TypeOK
  <2>3. ASSUME NEW c \in Conns, Connect(c) PROVE TypeOK'
    <3>1. ready' \in Seq(Descriptors)
      BY <2>3, <2>d, <2>r, RaiseAdds DEF Connect
    <3> QED BY <2>3, <3>1 DEF Connect, busVars, hubVars, TypeOK
  <2>4. ASSUME NEW c \in Conns, PeerSend(c) PROVE TypeOK'
    <3>1. ready' \in Seq(Descriptors)
      BY <2>4, <2>d, <2>r, RaiseAdds DEF PeerSend, RaiseFor
    <3>2. PICK m \in Contents : Say(c, m) /\ queue' = [queue EXCEPT ![c] = Append(@, m)]
      BY <2>4 DEF PeerSend
    <3>3. queue' \in [Conns -> Seq(Contents)] /\ said' \in [Senders -> Seq(Contents)]
      BY <3>2, <1>s, <1>w DEF TypeOK
    <3> QED BY <2>4, <3>1, <3>3 DEF PeerSend, busVars, hubVars, TypeOK
  <2>5. ASSUME NEW c \in Conns, PeerClose(c) PROVE TypeOK'
    <3>1. ready' \in Seq(Descriptors)
      BY <2>5, <2>d, <2>r, RaiseAdds DEF PeerClose, RaiseFor
    <3> QED BY <2>5, <3>1 DEF PeerClose, busVars, hubVars, TypeOK
  <2>6. CASE Call \/ TryRecvEmpty
    BY <2>6 DEF Call, TryRecvEmpty, busVars, connVars, TypeOK
  <2>7. CASE TryRecv
    <3>1. bus_rx' \in Seq(Own) /\ Head(bus_rx) \in Own
      BY <2>7 DEF TryRecv, TypeOK
    <3>2. heard' \in [Senders -> Nat] /\ pc' = "idle"
      BY <2>7, <3>1, <1>s, <1>h DEF TryRecv
    <3> QED BY <2>7, <3>1, <3>2 DEF TryRecv, connVars, TypeOK
  <2>8. CASE Wait
    <3>1. /\ in_buffer' \in Seq(Descriptors) /\ in_buffer' # <<>>
          /\ ready' \in Seq(Descriptors)
      BY <2>8, WaitKeeps
    <3> QED BY <2>8, <3>1 DEF Wait, busVars, connVars, TypeOK
  <2>9. CASE ClearWaker
    BY <2>9, NextEventType DEF ClearWaker, connVars, TypeOK
  <2>10. CASE Accept
    <3>1. ready' \in Seq(Descriptors)
      BY <2>10, <2>d, <2>r, RaiseAdds DEF Accept
    <3>2. stage' \in [Conns -> {"off", "pending", "local", "gone"}]
      BY <2>10 DEF Accept, TypeOK
    <3> QED BY <2>10, <3>1, <3>2, NextEventType DEF Accept, busVars, TypeOK
  <2>11. CASE ReadMessage
    <3> DEFINE c == Head(in_buffer)
    <3>1. c \in Conns /\ CanRead(c) /\ queue' = [queue EXCEPT ![c] = Tail(@)] /\ Return(c)
      BY <2>11 DEF ReadMessage
    <3> HIDE DEF c
    <3>2. Tail(queue[c]) \in Seq(Contents)
      BY <3>1 DEF CanRead, TypeOK
    <3>3. queue' \in [Conns -> Seq(Contents)]
      BY <3>1, <3>2 DEF TypeOK
    <3>4. heard' \in [Senders -> Nat] /\ pc' = "idle"
      BY <3>1, <1>s, <1>h
    <3> QED BY <2>11, <3>3, <3>4 DEF ReadMessage, busVars, TypeOK
  <2>12. CASE ReadError
    BY <2>12 DEF ReadError, busVars, TypeOK
  <2>13. CASE UNCHANGED vars
    BY <2>13 DEF vars, busVars, connVars, hubVars, TypeOK
  <2> QED
    BY <2>1, <2>2, <2>3, <2>4, <2>5, <2>6, <2>7, <2>8, <2>9, <2>10, <2>11, <2>12, <2>13
    DEF Next, Recv
<1> QED BY <1>1, <1>2, PTL DEF Spec

-----------------------------------------------------------------------------
(* What epoll reports *)

\* EventsKept is inductive together with the types: whoever makes a descriptor ready
\* puts it on the list, and only Wait takes from the list, to put it back at the end.
THEOREM EventsKeptAlways == Spec => []EventsKept
<1> USE SendersAssumption, NamesAssumption
<1>1. Init => EventsKept
  BY DEF Init, EventsKept, IsReady, Descriptors
<1>2. TypeOK /\ EventsKept /\ [Next]_vars => EventsKept'
  <2> SUFFICES ASSUME TypeOK, EventsKept, [Next]_vars,
                      NEW d \in Descriptors, IsReady(d)'
               PROVE  d \in ToSet(ready')
    BY DEF EventsKept
  <2>d. "waker" \in Descriptors /\ "listener" \in Descriptors /\ Conns \subseteq Descriptors
    BY DEF Descriptors
  <2>e. d \in Conns <=> d # "waker" /\ d # "listener"
    BY DEF Descriptors
  <2>k. IsReady(d) => d \in ToSet(ready)
    BY DEF EventsKept
  <2>s. ASSUME IsReady(d), ready' = ready PROVE d \in ToSet(ready')
    BY <2>k, <2>s
  \* Whatever else changes, a descriptor that was raised is on the list.
  <2>a. ASSUME NEW e \in Descriptors, Raise(e), d = e \/ IsReady(d) PROVE d \in ToSet(ready')
    BY <2>k, <2>a, RaiseAdds DEF TypeOK
  <2>1. CASE \E t \in Own : OwnSend(t)
    BY <2>1, <2>s DEF OwnSend, connVars, IsReady, Readable
  <2>2. ASSUME NEW t \in Own, Wake(t) PROVE d \in ToSet(ready')
    <3>1. d = "waker" \/ IsReady(d)
      BY <2>2, <2>e DEF Wake, connVars, IsReady, Readable
    <3> QED BY <2>2, <2>a, <2>d, <3>1 DEF Wake
  <2>3. ASSUME NEW c \in Conns, Connect(c) PROVE d \in ToSet(ready')
    <3>1. d = "listener" \/ IsReady(d)
      BY <2>3, <2>e DEF Connect, busVars, IsReady, Readable, TypeOK
    <3> QED BY <2>3, <2>a, <2>d, <3>1 DEF Connect
  <2>4. ASSUME NEW c \in Conns, PeerSend(c) \/ PeerClose(c) PROVE d \in ToSet(ready')
    <3>1. UNCHANGED <<woken, stage>> /\ RaiseFor(c)
      BY <2>4 DEF PeerSend, PeerClose, busVars
    <3>2. d # c => IsReady(d)
      <4>1. \A b \in Conns \ {c} : queue'[b] = queue[b] /\ shut'[b] = shut[b]
        BY <2>4 DEF PeerSend, PeerClose, TypeOK
      <4> QED BY <2>e, <3>1, <4>1 DEF IsReady, Readable
    <3>3. d = c => stage[c] = "local"
      BY <2>e, <3>1 DEF IsReady
    <3>4. CASE stage[c] = "local"
      BY <2>a, <2>d, <3>1, <3>2, <3>4 DEF RaiseFor
    <3>5. CASE stage[c] # "local"
      BY <2>s, <3>1, <3>2, <3>3, <3>5 DEF RaiseFor
    <3> QED BY <3>4, <3>5
  <2>5. CASE Call \/ TryRecv \/ TryRecvEmpty
    BY <2>5, <2>s DEF Call, TryRecv, TryRecvEmpty, busVars, connVars, IsReady, Readable
  <2>6. CASE Wait
    <3>1. IsReady(d)
      BY <2>6 DEF Wait, busVars, connVars, IsReady, Readable
    <3> QED BY <2>6, <2>k, <3>1, WaitKeeps
  <2>7. CASE ClearWaker
    BY <2>7, <2>s, <2>e DEF ClearWaker, connVars, IsReady, Readable
  <2>8. CASE Accept
    <3>1. PICK c \in Conns :
             /\ stage[c] = "pending"
             /\ stage' = [stage EXCEPT ![c] = "local"]
             /\ IF Readable(c) THEN Raise(c) ELSE UNCHANGED ready
      BY <2>8 DEF Accept
    <3>2. UNCHANGED <<woken, queue, shut>>
      BY <2>8 DEF Accept, busVars
    <3>3. stage'[c] = "local" /\ \A b \in Conns \ {c} : stage'[b] = stage[b]
      BY <3>1 DEF TypeOK
    <3>4. d # c => IsReady(d)
      <4>1. \A b \in Conns : stage'[b] = "pending" => stage[b] = "pending"
        BY <3>3
      <4> QED BY <2>e, <3>2, <3>3, <4>1 DEF IsReady, Readable
    <3>5. d = c => Readable(c)
      BY <2>e, <3>2 DEF IsReady, Readable
    <3>6. CASE Readable(c)
      BY <2>a, <2>d, <3>1, <3>4, <3>6
    <3>7. CASE ~Readable(c)
      BY <2>s, <3>1, <3>4, <3>5, <3>7
    <3> QED BY <3>6, <3>7
  <2>9. CASE ReadMessage
    <3> DEFINE c == Head(in_buffer)
    <3>1. c \in Conns /\ CanRead(c) /\ queue' = [queue EXCEPT ![c] = Tail(@)]
      BY <2>9 DEF ReadMessage
    <3>2. UNCHANGED <<woken, stage, shut, ready>>
      BY <2>9 DEF ReadMessage, busVars
    <3> HIDE DEF c
    <3>3. queue[c] # <<>> /\ \A b \in Conns \ {c} : queue'[b] = queue[b]
      BY <3>1 DEF CanRead, TypeOK
    <3>4. IsReady(d)
      BY <2>e, <3>2, <3>3 DEF IsReady, Readable
    <3> QED BY <2>s, <3>2, <3>4
  <2>10. CASE ReadError
    <3> DEFINE c == Head(in_buffer)
    <3>1. /\ c \in Conns /\ stage' = [stage EXCEPT ![c] = "gone"]
          /\ queue' = [queue EXCEPT ![c] = <<>>]
      BY <2>10 DEF ReadError
    <3>2. UNCHANGED <<woken, shut, ready>>
      BY <2>10 DEF ReadError, busVars
    <3> HIDE DEF c
    <3>3. stage'[c] = "gone" /\ \A b \in Conns \ {c} : stage'[b] = stage[b] /\ queue'[b] = queue[b]
      BY <3>1 DEF TypeOK
    <3>4. IsReady(d)
      <4>1. \A b \in Conns : stage'[b] \in {"pending", "local"} => b # c
        BY <3>3
      <4> QED BY <2>e, <3>2, <3>3, <4>1 DEF IsReady, Readable
    <3> QED BY <2>s, <3>2, <3>4
  <2>11. CASE UNCHANGED vars
    BY <2>11, <2>s DEF vars, busVars, connVars, hubVars, IsReady, Readable
  <2> QED
    BY <2>1, <2>2, <2>3, <2>4, <2>5, <2>6, <2>7, <2>8, <2>9, <2>10, <2>11 DEF Next, Recv
<1> QED BY <1>1, <1>2, TypeCorrect, PTL DEF Spec

-----------------------------------------------------------------------------
(* The waker *)

\* NoLostWake is inductive: the thread goes to sleep only after it found bus_rx
\* empty, the waker is cleared only by the thread when it does not sleep, and a
\* message that arrives later comes with a thread that is going to wake it.
THEOREM NoLostWakeAlways == Spec => []NoLostWake
<1>1. Init => NoLostWake
  BY DEF Init, NoLostWake
<1>2. NoLostWake /\ [Next]_vars => NoLostWake'
  <2> SUFFICES ASSUME NoLostWake, [Next]_vars, pc' = "wait", bus_rx' # <<>>
               PROVE  woken' \/ waking' # {}
    BY DEF NoLostWake
  <2>1. CASE UNCHANGED vars
    BY <2>1 DEF vars, busVars, hubVars, NoLostWake
  <2>2. CASE \E t \in Own : OwnSend(t)
    BY <2>2 DEF OwnSend
  <2>3. CASE \E t \in Own : Wake(t)
    BY <2>3 DEF Wake
  <2>4. CASE \E c \in Conns : Connect(c) \/ PeerSend(c) \/ PeerClose(c)
    BY <2>4 DEF Connect, PeerSend, PeerClose, busVars, hubVars, NoLostWake
  <2>5. CASE TryRecvEmpty
    BY <2>5 DEF TryRecvEmpty, busVars
  <2>6. CASE Call \/ TryRecv \/ Wait \/ ReadMessage \/ ReadError
    BY <2>6 DEF Call, TryRecv, Wait, ReadMessage, ReadError, Return
  <2>7. CASE ClearWaker \/ Accept
    BY <2>7 DEF ClearWaker, Accept, NextEvent, AfterEvents
  <2> QED BY <2>1, <2>2, <2>3, <2>4, <2>5, <2>6, <2>7 DEF Next, Recv
<1> QED BY <1>1, <1>2, PTL DEF Spec
=============================================================================
