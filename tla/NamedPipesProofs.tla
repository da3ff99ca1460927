-------------------------- MODULE NamedPipesProofs --------------------------
(***************************************************************************)
(* Proofs about the event loop on Windows, for any number of handles,      *)
(* connections and messages of any size: a packet always belongs to the    *)
(* pipe it is taken for, what was read fits in the buffer, the thread      *)
(* waits only when something was asked of every pipe, and every message    *)
(* comes out whole, once and in order.                                     *)
(***************************************************************************)
EXTENDS NamedPipes, SubsequencesProofs

-----------------------------------------------------------------------------
(* Sequences *)

\* swap_remove takes one element out and leaves what is before it where it is.
LEMMA SwapRemoveTakesOut ==
    ASSUME NEW S, NEW s \in Seq(S), OneEach(s), NEW i \in 1..Len(s)
    PROVE  LET t == SwapRemove(s, i) IN
           /\ t \in Seq(S) /\ Len(t) = Len(s) - 1
           /\ \A j \in 1..(i - 1) : t[j] = s[j]
           /\ OneEach(t)
           /\ ToSet(t) = ToSet(s) \ {s[i]}
<1> DEFINE n == Len(s)
           f == Front(s)
           t == SwapRemove(s, i)
<1>1. n \in Nat /\ n > 0
  OBVIOUS
<1>2. f \in Seq(S) /\ Len(f) = n - 1 /\ \A k \in 1..(n - 1) : f[k] = s[k]
  BY <1>1 DEF Front
<1>3. Last(s) = s[n] /\ s[n] \in S
  BY <1>1 DEF Last
<1>4. /\ t \in Seq(S) /\ Len(t) = n - 1
      /\ \A k \in 1..(n - 1) : t[k] = IF k = i THEN s[n] ELSE s[k]
  <2>1. CASE i = n
    BY <1>1, <1>2, <2>1 DEF SwapRemove
  <2>2. CASE i # n
    <3>1. i \in 1..(n - 1) /\ t = [f EXCEPT ![i] = s[n]]
      BY <1>1, <1>3, <2>2 DEF SwapRemove
    <3> QED BY <1>1, <1>2, <1>3, <3>1
  <2> QED BY <2>1, <2>2
<1>5. OneEach(t)
  BY <1>1, <1>4 DEF OneEach
<1>6. ToSet(t) \subseteq ToSet(s) \ {s[i]}
  BY <1>1, <1>4 DEF ToSet, OneEach
<1>7. ToSet(s) \ {s[i]} \subseteq ToSet(t)
  <2> HIDE DEF t, f
  <2> SUFFICES ASSUME NEW k \in 1..n, s[k] # s[i]
               PROVE  \E j \in 1..(n - 1) : t[j] = s[k]
    BY <1>1, <1>4 DEF ToSet
  <2>1. CASE k = n
    <3>1. i \in 1..(n - 1) /\ s[k] = s[n]
      BY <1>1, <2>1
    <3>2. t[i] = s[n]
      BY <1>4, <3>1
    <3> QED BY <3>1, <3>2
  <2>2. CASE k # n
    BY <1>1, <1>4, <2>2
  <2> QED BY <2>1, <2>2
<1> QED BY <1>1, <1>4, <1>5, <1>6, <1>7

\* Where a queue of packets speaks of a pipe.
Slots(q, h) == {k \in DOMAIN q : q[k].key = h}
Once(q, h) == \E k \in DOMAIN q : Slots(q, h) = {k}

LEMMA SlotsOfAppend ==
    ASSUME NEW S, NEW q \in Seq(S), NEW p \in S, NEW h
    PROVE  /\ p.key # h => Slots(Append(q, p), h) = Slots(q, h)
           /\ p.key # h => (Once(q, h) => Once(Append(q, p), h))
           /\ p.key = h /\ Slots(q, h) = {} => Once(Append(q, p), h)
<1> DEFINE r == Append(q, p)
           n == Len(q)
<1>1. n \in Nat /\ DOMAIN q = 1..n /\ DOMAIN r = 1..(n + 1)
  OBVIOUS
<1>2. r[n + 1] = p /\ \A k \in 1..n : r[k] = q[k]
  OBVIOUS
<1>3. Slots(q, h) = {k \in 1..n : q[k].key = h}
  BY <1>1 DEF Slots
<1>4. Slots(r, h) = {k \in 1..(n + 1) : r[k].key = h}
  BY <1>1 DEF Slots
<1>5. p.key # h => Slots(r, h) = Slots(q, h)
  <2> HIDE DEF r
  <2> QED BY <1>1, <1>2, <1>3, <1>4
<1>6. p.key = h /\ Slots(q, h) = {} => Slots(r, h) = {n + 1}
  <2> HIDE DEF r
  <2> QED BY <1>1, <1>2, <1>3, <1>4
<1>7. Slots(r, h) = {n + 1} => Once(r, h)
  <2>1. n + 1 \in DOMAIN r
    BY <1>1
  <2> QED BY <2>1 DEF Once
<1>8. p.key # h => (Once(q, h) => Once(r, h))
  <2> SUFFICES ASSUME p.key # h, NEW k \in DOMAIN q, Slots(q, h) = {k}
               PROVE  k \in DOMAIN r /\ Slots(r, h) = {k}
    BY DEF Once
  <2> QED BY <1>1, <1>5
<1> QED BY <1>5, <1>6, <1>7, <1>8

LEMMA SlotsOfTail ==
    ASSUME NEW S, NEW q \in Seq(S), q # <<>>, NEW h
    PROVE  /\ Head(q).key # h /\ Slots(q, h) = {} => Slots(Tail(q), h) = {}
           /\ Head(q).key # h /\ Once(q, h) => Once(Tail(q), h)
           /\ Head(q).key = h /\ Once(q, h) => Slots(Tail(q), h) = {}
<1> DEFINE t == Tail(q)
           n == Len(q)
<1>1. /\ n \in Nat \ {0} /\ DOMAIN q = 1..n
      /\ t \in Seq(S) /\ Len(t) = n - 1 /\ DOMAIN t = 1..(n - 1)
  OBVIOUS
<1>2. Head(q) = q[1] /\ \A k \in 1..(n - 1) : t[k] = q[k + 1]
  OBVIOUS
<1>3. \A k \in 1..(n - 1) : k \in Slots(t, h) <=> k + 1 \in Slots(q, h)
  BY <1>1, <1>2 DEF Slots
<1>4. Slots(t, h) \subseteq 1..(n - 1) /\ Slots(q, h) \subseteq 1..n
  BY <1>1 DEF Slots
<1>5. 1 \in Slots(q, h) <=> Head(q).key = h
  BY <1>1, <1>2 DEF Slots
<1>6. Head(q).key # h /\ Once(q, h) => Once(t, h)
  <2> SUFFICES ASSUME Head(q).key # h, NEW k \in 1..n, Slots(q, h) = {k}
               PROVE  Slots(t, h) = {k - 1} /\ k - 1 \in 1..(n - 1)
    BY <1>1 DEF Once
  <2>1. k - 1 \in 1..(n - 1)
    BY <1>1, <1>5
  <2> QED BY <1>1, <1>3, <1>4, <2>1
<1>7. Head(q).key = h /\ Once(q, h) => Slots(t, h) = {}
  <2> SUFFICES ASSUME Slots(q, h) = {1}
               PROVE  Slots(t, h) = {}
    BY <1>5 DEF Once
  <2> QED BY <1>1, <1>3, <1>4
<1>8. Slots(q, h) = {} => Slots(t, h) = {}
  BY <1>1, <1>3, <1>4
<1> QED BY <1>6, <1>7, <1>8

-----------------------------------------------------------------------------
(* The inductive invariant *)

\* Every pipe of the hub has a handle value of its own.
Distinct == OneEach(pipes) /\ listening \notin ToSet(pipes)

\* Nothing is outstanding on a handle that is not in use.
UnusedIdle == \A h \in Unused : status[h] # "Pending"

\* How far recv is: what it has passed is Pending.
Stages ==
    /\ pc \in {"try_recv", "read", "wait"} /\ listening # NoPipe => status[listening] = "Pending"
    /\ pc # "read" => at = 1
    /\ pc = "read" => at <= Len(pipes) + 1 /\ \A j \in 1..(at - 1) : status[pipes[j]] = "Pending"
    /\ pc = "wait" => \A j \in 1..Len(pipes) : status[pipes[j]] = "Pending"

IInv == TypeOK /\ Distinct /\ UnusedIdle /\ Stages /\ OneOutstanding /\ InBuffer

LEMMA PacketsAreSlots == \A h : PacketsOf(h) = Slots(port, h)
  BY DEF PacketsOf, Slots

\* One more packet in the port.
LEMMA PostAdds ==
    ASSUME port \in Seq(Packets), NEW p \in Packets, Post(p)
    PROVE  /\ port' \in Seq(Packets)
           /\ \A k \in DOMAIN port' : (k \in DOMAIN port /\ port'[k] = port[k]) \/ port'[k] = p
           /\ \A h : p.key # h => Slots(port', h) = Slots(port, h)
           /\ \A h : p.key # h /\ Once(port, h) => Once(port', h)
           /\ \A h : p.key = h /\ Slots(port, h) = {} => Once(port', h)
<1>1. port' = Append(port, p)
  BY DEF Post
<1>2. port' \in Seq(Packets)
      /\ \A k \in DOMAIN port' : (k \in DOMAIN port /\ port'[k] = port[k]) \/ port'[k] = p
  BY <1>1
<1>3. \A h : /\ p.key # h => Slots(Append(port, p), h) = Slots(port, h)
             /\ p.key # h => (Once(port, h) => Once(Append(port, p), h))
             /\ p.key = h /\ Slots(port, h) = {} => Once(Append(port, p), h)
  BY SlotsOfAppend
<1> QED BY <1>1, <1>2, <1>3

\* One packet less.
LEMMA TakeRemoves ==
    ASSUME port \in Seq(Packets), NEW key, Take(key)
    PROVE  /\ port' \in Seq(Packets) /\ Head(port) \in Packets
           /\ 1 \in DOMAIN port /\ port[1] = Head(port) /\ Head(port).key = key
           /\ \A k \in DOMAIN port' : k + 1 \in DOMAIN port /\ port'[k] = port[k + 1]
           /\ \A h : key # h /\ Slots(port, h) = {} => Slots(port', h) = {}
           /\ \A h : key # h /\ Once(port, h) => Once(port', h)
           /\ Once(port, key) => Slots(port', key) = {}
           /\ Slots(port, key) # {}
<1>1. port # <<>> /\ port' = Tail(port) /\ Head(port).key = key
  BY DEF Take
<1>2. /\ port' \in Seq(Packets) /\ Head(port) \in Packets
      /\ 1 \in DOMAIN port /\ port[1] = Head(port)
      /\ \A k \in DOMAIN port' : k + 1 \in DOMAIN port /\ port'[k] = port[k + 1]
  BY <1>1
<1>3. \A h : /\ Head(port).key # h /\ Slots(port, h) = {} => Slots(Tail(port), h) = {}
             /\ Head(port).key # h /\ Once(port, h) => Once(Tail(port), h)
             /\ Head(port).key = h /\ Once(port, h) => Slots(Tail(port), h) = {}
  BY <1>1, SlotsOfTail
<1>4. 1 \in Slots(port, key)
  BY <1>1, <1>2 DEF Slots
<1> QED BY <1>1, <1>2, <1>3, <1>4

\* ReadFile reports no more than there is room for.
LEMMA TransferFits ==
    ASSUME TypeOK, InBuffer, NEW h \in Handles, NEW messages \in Seq(Nat), messages # <<>>,
           Transfer(h, messages)
    PROVE  /\ data' \in [Handles -> Seq(Nat)]
           /\ \E p \in Packets : p.key = h /\ size[h] + p.n <= buffer[h] /\ Post(p)
<1> DEFINE s == Head(messages)
           room == buffer[h] - size[h]
<1>1. s \in Nat /\ Tail(messages) \in Seq(Nat)
  OBVIOUS
<1>2. size[h] \in Nat /\ buffer[h] \in Nat /\ size[h] <= buffer[h]
  BY DEF TypeOK, InBuffer
<1>3. room \in Nat /\ size[h] + room = buffer[h]
  BY <1>2
<1>4. data \in [Handles -> Seq(Nat)]
  BY DEF TypeOK
<1> HIDE DEF s, room
<1>5. CASE s <= room
  <2>1. Post(Packet(h, "ok", s)) /\ data' = [data EXCEPT ![h] = Tail(messages)]
    BY <1>5 DEF Transfer, s, room
  <2>2. Packet(h, "ok", s) \in Packets /\ Packet(h, "ok", s).key = h /\ Packet(h, "ok", s).n = s
    BY <1>1 DEF Packet, Packets
  <2>3. size[h] + s <= buffer[h]
    BY <1>1, <1>2, <1>3, <1>5
  <2>4. data' \in [Handles -> Seq(Nat)]
    BY <1>1, <1>4, <2>1
  <2> QED BY <2>1, <2>2, <2>3, <2>4
<1>6. CASE ~(s <= room)
  <2>1. /\ Post(Packet(h, "more", room))
        /\ data' = [data EXCEPT ![h] = <<s - room>> \o Tail(messages)]
    BY <1>6 DEF Transfer, s, room
  <2>2. /\ Packet(h, "more", room) \in Packets
        /\ Packet(h, "more", room).key = h /\ Packet(h, "more", room).n = room
    BY <1>3 DEF Packet, Packets
  <2>3. s - room \in Nat
    BY <1>1, <1>3, <1>6
  <2>4. <<s - room>> \o Tail(messages) \in Seq(Nat)
    BY <1>1, <2>3
  <2>5. data' \in [Handles -> Seq(Nat)]
    BY <1>4, <2>1, <2>4
  <2> QED BY <1>2, <1>3, <2>1, <2>2, <2>5
<1> QED BY <1>5, <1>6

LEMMA InitHolds == Init => IInv
<1> SUFFICES ASSUME Init PROVE IInv
  OBVIOUS
<1> USE NumbersAssumption, NamesAssumption
<1>1. TypeOK
  <2>1. /\ pipes \in Seq(Handles) /\ listening \in Handles \cup {NoPipe}
        /\ status \in [Handles -> Statuses] /\ conn \in [Handles -> Conns \cup {NoConn}]
        /\ bus_receiver \in BOOLEAN /\ own_open \in BOOLEAN
    <3>1. CASE /\ listening = First /\ pipes = <<>>
               /\ bus_receiver = TRUE /\ own_open = TRUE
               /\ status = [h \in Handles |-> "Free"]
               /\ conn = [h \in Handles |-> NoConn]
      BY <3>1 DEF Statuses
    <3>2. CASE /\ listening = NoPipe /\ pipes = <<First>>
               /\ bus_receiver = FALSE /\ own_open = FALSE
               /\ status = [h \in Handles |-> IF h = First THEN "Readable" ELSE "Free"]
               /\ \E c \in Conns : conn = [h \in Handles |-> IF h = First THEN c ELSE NoConn]
      <4>1. pipes \in Seq(Handles) /\ status \in [Handles -> Statuses]
        BY <3>2 DEF Statuses
      <4>2. conn \in [Handles -> Conns \cup {NoConn}]
        BY <3>2
      <4> QED BY <3>2, <4>1, <4>2
    <3> QED BY <3>1, <3>2 DEF Init
  <2>2. /\ size \in [Handles -> Nat] /\ buffer \in [Handles -> Nat \ {0}]
        /\ data \in [Handles -> Seq(Nat)] /\ op \in [Handles -> {"none", "listen", "read"}]
        /\ port \in Seq(Packets)
    BY DEF Init
  <2>3. /\ bus_rx \in Seq(Own) /\ waking \subseteq Own /\ sent \in [Own -> Nat]
        /\ written \in [Conns -> Seq(Sizes)] /\ heard \in [Conns -> Seq(Nat)]
    BY DEF Init
  <2> QED BY <2>1, <2>2, <2>3 DEF Init, TypeOK
<1>2. Distinct
  BY DEF Init, Distinct, OneEach, ToSet
<1>3. \A h \in Handles : status[h] # "Pending" /\ op[h] = "none"
  BY DEF Init
<1>4. UnusedIdle /\ Stages
  BY <1>3 DEF Init, UnusedIdle, Unused, Stages
<1>5. \A h : PacketsOf(h) = {}
  BY DEF Init, PacketsOf
<1>6. OneOutstanding
  BY <1>3, <1>5 DEF OneOutstanding
<1>7. InBuffer
  BY <1>5 DEF Init, InBuffer
<1> QED BY <1>1, <1>2, <1>4, <1>6, <1>7 DEF IInv

\* The pipe recv has come to.
LEMMA PipeAt ==
    ASSUME IInv, pc = "read", at <= Len(pipes)
    PROVE  /\ at \in 1..Len(pipes) /\ pipes[at] \in Handles
           /\ pipes[at] \in ToSet(pipes) /\ pipes[at] \in InUse /\ pipes[at] # listening
           /\ size[pipes[at]] \in Nat /\ data[pipes[at]] \in Seq(Nat)
<1>1. at \in 1..Len(pipes)
  BY DEF IInv, TypeOK
<1>2. pipes[at] \in Handles /\ pipes[at] \in ToSet(pipes)
  BY <1>1 DEF IInv, TypeOK, ToSet
<1> QED BY <1>1, <1>2 DEF IInv, TypeOK, InUse, Distinct

LEMMA PipesAreHandles ==
    ASSUME TypeOK PROVE ToSet(pipes) \subseteq Handles /\ InUse \subseteq Handles
  BY DEF TypeOK, ToSet, InUse

LEMMA TypeKept == ASSUME IInv, [Next]_vars PROVE TypeOK'
<1> USE NumbersAssumption, NamesAssumption
<1>t. TypeOK
  BY DEF IInv
<1>1. CASE Listened
  BY <1>t, <1>1 DEF Listened, TypeOK, ownVars, kernelVars
<1>2. CASE Listen
  <2>1. listening \in Handles
    BY <1>t, <1>2 DEF Listen, TypeOK
  <2> QED BY <1>t, <1>2, <2>1 DEF Listen, TypeOK, ownVars, Statuses
<1>3. CASE ListenConnected
  <2>1. listening \in Handles /\ listening' \in Handles
    BY <1>t, <1>3 DEF ListenConnected, Accept, CreateInstance, Unused, TypeOK
  <2>2. pipes' \in Seq(Handles)
    BY <1>t, <1>3, <2>1 DEF ListenConnected, Accept, TypeOK
  <2>3. status' \in [Handles -> Statuses]
    BY <1>t, <1>3 DEF ListenConnected, Accept, TypeOK, Statuses
  <2> QED BY <1>t, <1>3, <2>1, <2>2, <2>3 DEF ListenConnected, TypeOK, ownVars, kernelVars
<1>4. CASE ListenFailed
  <2>1. listening \in Handles /\ listening' \in Handles
    BY <1>t, <1>4 DEF ListenFailed, CreateInstance, Unused, TypeOK
  <2>2. /\ status' \in [Handles -> Statuses] /\ size' \in [Handles -> Nat]
        /\ buffer' \in [Handles -> Nat \ {0}]
        /\ conn' \in [Handles -> Conns \cup {NoConn}] /\ data' \in [Handles -> Seq(Nat)]
    BY <1>t, <1>4, <2>1 DEF ListenFailed, Release, TypeOK, Statuses
  <2> QED BY <1>t, <1>4, <2>1, <2>2 DEF ListenFailed, TypeOK, ownVars
<1>5. CASE TryRecv
  <2>1. bus_rx' \in Seq(Own)
    BY <1>t, <1>5 DEF TryRecv, TypeOK
  <2> QED BY <1>t, <1>5, <2>1 DEF TryRecv, TypeOK, kernelVars
<1>6. CASE TryRecvEmpty
  BY <1>t, <1>6 DEF TryRecvEmpty, TypeOK, ownVars, kernelVars
<1>7. CASE ReadReady
  <2> DEFINE h == pipes[at]
  <2>1. h \in Handles /\ size[h] \in Nat
    BY <1>7, PipeAt DEF ReadReady
  <2> HIDE DEF h
  <2>2. /\ status' = [status EXCEPT ![h] = "Readable"]
        /\ size' = [size EXCEPT ![h] = 0] /\ buffer' = [buffer EXCEPT ![h] = Capacity]
        /\ heard' = [heard EXCEPT ![conn[h]] = Append(@, size[h])]
    BY <1>7 DEF ReadReady, h
  <2>3. heard' \in [Conns -> Seq(Nat)]
    <3>1. CASE conn[h] \in Conns
      <4>1. Append(heard[conn[h]], size[h]) \in Seq(Nat)
        BY <1>t, <2>1, <3>1 DEF TypeOK
      <4> QED BY <1>t, <2>2, <3>1, <4>1 DEF TypeOK
    <3>2. CASE conn[h] \notin Conns
      BY <1>t, <2>2, <3>2 DEF TypeOK
    <3> QED BY <3>1, <3>2
  <2>4. /\ status' \in [Handles -> Statuses] /\ size' \in [Handles -> Nat]
        /\ buffer' \in [Handles -> Nat \ {0}]
    BY <1>t, <2>1, <2>2 DEF TypeOK, Statuses
  <2>5. /\ pc' = "listen" /\ at' = 1
        /\ UNCHANGED <<pipes, listening, bus_receiver, ownVars, kernelVars, shut, written>>
    BY <1>7 DEF ReadReady
  <2>6. /\ bus_rx' \in Seq(Own) /\ waking' \subseteq Own /\ sent' \in [Own -> Nat]
        /\ conn' \in [Handles -> Conns \cup {NoConn}] /\ shut' \subseteq Conns
        /\ data' \in [Handles -> Seq(Nat)] /\ op' \in [Handles -> {"none", "listen", "read"}]
        /\ port' \in Seq(Packets) /\ written' \in [Conns -> Seq(Sizes)]
    BY <1>t, <2>5 DEF TypeOK, ownVars, kernelVars
  <2>7. /\ pipes' \in Seq(Handles) /\ listening' \in Handles \cup {NoPipe}
        /\ bus_receiver' \in BOOLEAN /\ own_open' \in BOOLEAN /\ at' \in Nat \ {0}
        /\ pc' \in {"listen", "try_recv", "read", "wait", "over"}
    BY <1>t, <2>5 DEF TypeOK, ownVars
  <2> QED BY <2>3, <2>4, <2>6, <2>7 DEF TypeOK
<1>8. CASE Read
  <2> DEFINE h == pipes[at]
  <2>1. h \in Handles /\ data[h] \in Seq(Nat)
    BY <1>8, PipeAt DEF Read
  <2> HIDE DEF h
  <2>2. /\ status' = [status EXCEPT ![h] = "Pending"]
        /\ IF data[h] # <<>> THEN Transfer(h, data[h]) /\ UNCHANGED op
           ELSE op' = [op EXCEPT ![h] = "read"] /\ UNCHANGED <<data, port>>
    BY <1>8 DEF Read, h
  <2>3. status' \in [Handles -> Statuses]
    BY <1>t, <2>1, <2>2 DEF TypeOK, Statuses
  <2>4. data' \in [Handles -> Seq(Nat)] /\ port' \in Seq(Packets)
        /\ op' \in [Handles -> {"none", "listen", "read"}]
    <3>1. CASE data[h] # <<>>
      <4>1. data' \in [Handles -> Seq(Nat)] /\ \E p \in Packets : Post(p)
        BY <2>1, <2>2, <3>1, TransferFits DEF IInv
      <4>2. port' \in Seq(Packets)
        BY <1>t, <4>1, PostAdds DEF TypeOK
      <4> QED BY <1>t, <2>2, <3>1, <4>1, <4>2 DEF TypeOK
    <3>2. CASE data[h] = <<>>
      BY <1>t, <2>1, <2>2, <3>2 DEF TypeOK
    <3> QED BY <3>1, <3>2
  <2>5. /\ at' = at + 1
        /\ UNCHANGED <<pipes, listening, size, buffer, bus_receiver, pc>>
        /\ UNCHANGED <<ownVars, conn, shut, written, heard>>
    BY <1>8 DEF Read
  <2>6. at' \in Nat \ {0}
    BY <1>t, <2>5 DEF TypeOK
  <2> QED BY <1>t, <2>3, <2>4, <2>5, <2>6 DEF TypeOK, ownVars
<1>9. CASE ReadPending
  <2>1. /\ at' = at + 1
        /\ UNCHANGED <<pipes, listening, status, size, buffer, bus_receiver, pc>>
        /\ UNCHANGED <<ownVars, kernelVars, shut, written, heard>>
    BY <1>9 DEF ReadPending
  <2>2. at' \in Nat \ {0}
    BY <1>t, <2>1 DEF TypeOK
  <2> QED BY <1>t, <2>1, <2>2 DEF TypeOK, ownVars, kernelVars
<1>10. CASE ReadOffline
  <2> DEFINE h == pipes[at]
  <2>1. h \in Handles /\ at \in 1..Len(pipes)
    BY <1>10, PipeAt DEF ReadOffline
  <2>2. pipes' \in Seq(Handles)
    BY <1>t, <1>10, <2>1, SwapRemoveTakesOut DEF ReadOffline, IInv, Distinct, TypeOK
  <2>3. Release(h)
    BY <1>10 DEF ReadOffline
  <2> HIDE DEF h
  <2>4. status' \in [Handles -> Statuses] /\ conn' \in [Handles -> Conns \cup {NoConn}]
    BY <1>t, <2>3 DEF Release, TypeOK, Statuses
  <2>5. /\ size' \in [Handles -> Nat] /\ buffer' \in [Handles -> Nat \ {0}]
        /\ data' \in [Handles -> Seq(Nat)]
    <3>1. /\ size' = [size EXCEPT ![h] = 0] /\ buffer' = [buffer EXCEPT ![h] = Capacity]
          /\ data' = [data EXCEPT ![h] = <<>>]
      BY <2>3 DEF Release
    <3>2. <<>> \in Seq(Nat) /\ Capacity \in Nat \ {0}
      OBVIOUS
    <3>3. data' \in [Handles -> Seq(Nat)]
      BY <1>t, <3>1, <3>2 DEF TypeOK
    <3> QED BY <1>t, <3>1, <3>2, <3>3 DEF TypeOK
  <2>6. /\ UNCHANGED <<listening, bus_receiver, pc, at>>
        /\ UNCHANGED <<ownVars, op, port, shut, written, heard>>
    BY <1>10 DEF ReadOffline
  <2> QED BY <1>t, <2>2, <2>4, <2>5, <2>6 DEF TypeOK, ownVars
<1>11. CASE AllRead
  BY <1>t, <1>11 DEF AllRead, TypeOK, ownVars, kernelVars
<1>12. CASE Timeout
  BY <1>t, <1>12 DEF Timeout, TypeOK, ownVars, kernelVars
<1>13. CASE Woken
  <2>1. port' \in Seq(Packets)
    BY <1>t, <1>13, TakeRemoves DEF Woken, TypeOK
  <2> QED BY <1>t, <1>13, <2>1 DEF Woken, Take, TypeOK, ownVars
<1>14. CASE Connected
  <2>1. listening \in Handles /\ listening' \in Handles
    BY <1>t, <1>14 DEF Connected, Accept, CreateInstance, Unused, TypeOK
  <2>2. pipes' \in Seq(Handles)
    BY <1>t, <1>14, <2>1 DEF Connected, Accept, TypeOK
  <2>3. status' \in [Handles -> Statuses]
    BY <1>t, <1>14 DEF Connected, Accept, TypeOK, Statuses
  <2>4. port' \in Seq(Packets)
    BY <1>t, <1>14, TakeRemoves DEF Connected, TypeOK
  <2> QED BY <1>t, <1>14, <2>1, <2>2, <2>3, <2>4 DEF Connected, Take, TypeOK, ownVars
<1>15. ASSUME NEW h \in Handles, ReadEnds(h) PROVE TypeOK'
  <2> DEFINE packet == Head(port)
  <2>1. port' \in Seq(Packets) /\ packet \in Packets
    BY <1>t, <1>15, TakeRemoves DEF ReadEnds, TypeOK
  <2>2. packet.n \in Nat /\ packet.result \in {"ok", "more", "error"}
    BY <2>1 DEF Packets
  <2>3. /\ size' = [size EXCEPT ![h] = IF packet.result = "error" THEN @ ELSE @ + packet.n]
        /\ buffer' = [buffer EXCEPT ![h] = IF packet.result = "more" THEN 2 * @ ELSE @]
        /\ status' = [status EXCEPT ![h] = CASE packet.result = "ok" -> "Ready"
                                             [] packet.result = "more" -> "Readable"
                                             [] packet.result = "error" -> "Offline"]
    BY <1>15 DEF ReadEnds
  <2> HIDE DEF packet
  <2>4. size' \in [Handles -> Nat]
    BY <1>t, <2>2, <2>3 DEF TypeOK
  <2>5. buffer' \in [Handles -> Nat \ {0}]
    BY <1>t, <2>2, <2>3 DEF TypeOK
  <2>6. status' \in [Handles -> Statuses]
    BY <1>t, <2>2, <2>3 DEF TypeOK, Statuses
  <2> QED BY <1>t, <1>15, <2>1, <2>4, <2>5, <2>6 DEF ReadEnds, Take, TypeOK, ownVars
<1>16. ASSUME NEW c \in Conns, Connect(c) PROVE TypeOK'
  <2>1. listening \in Handles /\ conn' \in [Handles -> Conns \cup {NoConn}]
        /\ op' \in [Handles -> {"none", "listen", "read"}]
    BY <1>t, <1>16 DEF Connect, TypeOK
  <2>2. Packet(listening, "ok", 0) \in Packets
    BY <2>1 DEF Packet, Packets
  <2>3. port' \in Seq(Packets)
    BY <1>t, <1>16, <2>2, PostAdds DEF Connect, TypeOK
  <2> QED BY <1>t, <1>16, <2>1, <2>3 DEF Connect, TypeOK, ownVars, hubVars
<1>17. ASSUME NEW c \in Conns, Write(c) PROVE TypeOK'
  <2>1. PICK h \in Handles, s \in Sizes :
           /\ written' = [written EXCEPT ![c] = Append(@, s)]
           /\ IF op[h] = "read"
              THEN Transfer(h, <<s>>) /\ op' = [op EXCEPT ![h] = "none"]
              ELSE data' = [data EXCEPT ![h] = Append(@, s)] /\ UNCHANGED <<port, op>>
           /\ UNCHANGED <<hubVars, ownVars, conn, shut, heard>>
    BY <1>17 DEF Write
  <2>2. s \in Nat
    BY <2>1
  <2>3. data' \in [Handles -> Seq(Nat)] /\ port' \in Seq(Packets)
        /\ op' \in [Handles -> {"none", "listen", "read"}]
    <3>1. CASE op[h] = "read"
      <4>1. <<s>> \in Seq(Nat) /\ <<s>> # <<>>
        BY <2>2
      <4>2. data' \in [Handles -> Seq(Nat)] /\ \E p \in Packets : Post(p)
        BY <2>1, <3>1, <4>1, TransferFits DEF IInv
      <4>3. port' \in Seq(Packets)
        BY <1>t, <4>2, PostAdds DEF TypeOK
      <4> QED BY <1>t, <2>1, <3>1, <4>2, <4>3 DEF TypeOK
    <3>2. CASE op[h] # "read"
      <4>1. Append(data[h], s) \in Seq(Nat)
        BY <1>t, <2>2 DEF TypeOK
      <4>2. data' = [data EXCEPT ![h] = Append(data[h], s)] /\ UNCHANGED <<port, op>>
        BY <2>1, <3>2
      <4> QED BY <1>t, <4>1, <4>2 DEF TypeOK
    <3> QED BY <3>1, <3>2
  <2>4. written' \in [Conns -> Seq(Sizes)]
    BY <1>t, <2>1 DEF TypeOK
  <2> QED BY <1>t, <2>1, <2>3, <2>4 DEF TypeOK, ownVars, hubVars
<1>18. ASSUME NEW c \in Conns, Shut(c) PROVE TypeOK'
  <2>1. PICK h \in Handles :
           /\ shut' = shut \cup {c}
           /\ IF op[h] = "read"
              THEN Post(Packet(h, "error", 0)) /\ op' = [op EXCEPT ![h] = "none"]
              ELSE UNCHANGED <<port, op>>
           /\ UNCHANGED <<hubVars, ownVars, conn, data, written, heard>>
    BY <1>18 DEF Shut
  <2>2. Packet(h, "error", 0) \in Packets
    BY DEF Packet, Packets
  <2>3. port' \in Seq(Packets) /\ op' \in [Handles -> {"none", "listen", "read"}]
    BY <1>t, <2>1, <2>2, PostAdds DEF TypeOK
  <2> QED BY <1>t, <2>1, <2>3 DEF TypeOK, ownVars, hubVars
<1>19. ASSUME NEW t \in Own, OwnSend(t) PROVE TypeOK'
  <2>1. bus_rx' \in Seq(Own) /\ waking' \subseteq Own
    BY <1>t, <1>19 DEF OwnSend, TypeOK
  <2>2. sent' \in [Own -> Nat]
    BY <1>t, <1>19 DEF OwnSend, TypeOK
  <2> QED BY <1>t, <1>19, <2>1, <2>2 DEF OwnSend, TypeOK, hubVars, kernelVars
<1>20. ASSUME NEW t \in Own, Wake(t) PROVE TypeOK'
  <2>1. Packet(Waker, "ok", 0) \in Packets
    BY DEF Packet, Packets
  <2>2. port' \in Seq(Packets)
    BY <1>t, <1>20, <2>1, PostAdds DEF Wake, TypeOK
  <2> QED BY <1>t, <1>20, <2>2 DEF Wake, TypeOK, hubVars
<1>21. CASE OwnDrop
  BY <1>t, <1>21 DEF OwnDrop, TypeOK, hubVars, kernelVars
<1>22. CASE UNCHANGED vars
  BY <1>t, <1>22 DEF TypeOK, vars, hubVars, ownVars, kernelVars
<1> QED
  BY <1>1, <1>2, <1>3, <1>4, <1>5, <1>6, <1>7, <1>8, <1>9, <1>10, <1>11, <1>12, <1>13, <1>14,
     <1>15, <1>16, <1>17, <1>18, <1>19, <1>20, <1>21, <1>22 DEF Next, Recv
-----------------------------------------------------------------------------
(* The pipes of the hub *)

\* The listening pipe joins the others; the new one had no handle in use.
LEMMA AcceptAdds ==
    ASSUME IInv, listening # NoPipe, Accept
    PROVE  /\ Distinct' /\ listening \in Handles /\ listening' \in Handles
           /\ listening' \notin InUse /\ InUse' = InUse \cup {listening'}
           /\ ToSet(pipes') = ToSet(pipes) \cup {listening} /\ listening \notin ToSet(pipes)
           /\ status' = [status EXCEPT ![listening] = "Readable"]
<1> USE NamesAssumption
<1>1. listening \in Handles /\ pipes \in Seq(Handles) /\ listening \notin ToSet(pipes)
  BY DEF IInv, TypeOK, Distinct
<1>2. /\ pipes' = Append(pipes, listening) /\ listening' \in Unused
      /\ status' = [status EXCEPT ![listening] = "Readable"]
  BY DEF Accept, CreateInstance
<1>3. ToSet(pipes') = ToSet(pipes) \cup {listening} /\ OneEach(pipes')
  BY <1>1, <1>2, AppendRange, AppendOneEach DEF IInv, Distinct
<1>4. listening' \in Handles /\ listening' \notin InUse
  BY <1>2 DEF Unused
<1>5. InUse = ToSet(pipes) \cup {listening}
  BY <1>1 DEF InUse
<1>6. InUse' = ToSet(pipes') \cup {listening'}
  BY <1>4 DEF InUse
<1> QED BY <1>1, <1>2, <1>3, <1>4, <1>5, <1>6 DEF Distinct

\* The listening pipe is made again.
LEMMA AnotherListens ==
    ASSUME IInv, listening # NoPipe, UNCHANGED pipes, CreateInstance(Unused \cup {listening})
    PROVE  /\ Distinct' /\ listening \in Handles /\ listening' \in Handles
           /\ listening' \notin InUse \/ listening' = listening
           /\ InUse' = (InUse \ {listening}) \cup {listening'}
<1> USE NamesAssumption
<1>1. listening \in Handles /\ listening \notin ToSet(pipes)
  BY DEF IInv, TypeOK, Distinct
<1>2. listening' \in Unused \cup {listening} /\ listening' \in Handles
  BY <1>1 DEF CreateInstance, Unused
<1>3. InUse = ToSet(pipes) \cup {listening} /\ InUse' = ToSet(pipes) \cup {listening'}
  BY <1>1, <1>2 DEF InUse
<1>4. listening' \notin InUse \/ listening' = listening
  BY <1>2 DEF Unused
<1> QED BY <1>1, <1>2, <1>3, <1>4 DEF Distinct, IInv

\* A pipe leaves the hub.
LEMMA OfflineLeaves ==
    ASSUME IInv, ReadOffline
    PROVE  LET h == pipes[at] IN
           /\ Distinct' /\ h \in InUse /\ InUse' = InUse \ {h} /\ Release(h)
           /\ status[h] # "Pending"
           /\ ToSet(pipes') = ToSet(pipes) \ {h} /\ h \in ToSet(pipes)
           /\ Len(pipes') = Len(pipes) - 1 /\ at \in 1..Len(pipes)
           /\ \A j \in 1..(at - 1) : pipes'[j] = pipes[j] /\ pipes[j] # h
<1> DEFINE h == pipes[at]
<1>1. /\ at \in 1..Len(pipes) /\ h \in InUse /\ h # listening /\ h \in ToSet(pipes)
      /\ pipes \in Seq(Handles) /\ OneEach(pipes) /\ listening \notin ToSet(pipes)
  BY PipeAt DEF ReadOffline, IInv, TypeOK, Distinct
<1>2. pipes' = SwapRemove(pipes, at) /\ UNCHANGED listening /\ Release(h)
  BY DEF ReadOffline
<1>3. status[h] # "Pending"
  BY DEF ReadOffline, MayRead
<1>4. /\ Len(pipes') = Len(pipes) - 1 /\ OneEach(pipes')
      /\ \A j \in 1..(at - 1) : pipes'[j] = pipes[j]
      /\ ToSet(pipes') = ToSet(pipes) \ {h}
  BY <1>1, <1>2, SwapRemoveTakesOut
<1>5. \A j \in 1..(at - 1) : pipes[j] # h
  <2>1. \A j \in 1..(at - 1) : j \in 1..Len(pipes) /\ j # at
    BY <1>1
  <2> QED BY <1>1, <2>1 DEF OneEach
<1>6. InUse' = InUse \ {h}
  BY <1>1, <1>2, <1>4 DEF InUse
<1> QED BY <1>1, <1>2, <1>3, <1>4, <1>5, <1>6 DEF Distinct

LEMMA PlacesKept ==
    ASSUME IInv, [Next]_vars PROVE Distinct' /\ UnusedIdle' /\ Stages'
<1> USE NamesAssumption
<1>t. /\ pipes \in Seq(Handles) /\ status \in [Handles -> Statuses] /\ at \in Nat \ {0}
      /\ Distinct /\ UnusedIdle /\ Stages /\ InUse \subseteq Handles
  BY PipesAreHandles DEF IInv, TypeOK
<1>q. ASSUME UNCHANGED <<pipes, listening, status>>
      PROVE  Distinct' /\ UnusedIdle' /\ InUse' = InUse
  BY <1>t, <1>q DEF Distinct, UnusedIdle, Unused, InUse
<1>i. ASSUME UNCHANGED <<pipes, listening>>, NEW h \in InUse,
             \A g \in Handles \ {h} : status'[g] = status[g]
      PROVE  Distinct' /\ UnusedIdle' /\ InUse' = InUse
  BY <1>t, <1>i DEF Distinct, UnusedIdle, Unused, InUse
<1>1. CASE Listened
  BY <1>t, <1>q, <1>1 DEF Listened, Stages
<1>2. CASE Listen
  <2>1. listening \in Handles /\ listening \in InUse
    BY <1>2 DEF Listen, IInv, TypeOK, InUse
  <2>2. status' = [status EXCEPT ![listening] = "Pending"] /\ status'[listening] = "Pending"
    BY <1>t, <1>2, <2>1 DEF Listen
  <2>3. Distinct' /\ UnusedIdle'
    BY <1>t, <1>i, <1>2, <2>1, <2>2 DEF Listen
  <2> QED BY <1>t, <1>2, <2>2, <2>3 DEF Listen, Stages
<1>3. CASE ListenConnected
  <2>1. Accept /\ listening # NoPipe /\ pc = "listen" /\ UNCHANGED <<pc, at>>
    BY <1>3 DEF ListenConnected
  <2>2. UnusedIdle'
    BY <1>t, <2>1, AcceptAdds DEF UnusedIdle, Unused
  <2> QED BY <1>t, <2>1, <2>2, AcceptAdds DEF Stages
<1>4. CASE ListenFailed
  <2>1. /\ Release(listening) /\ UNCHANGED pipes /\ listening # NoPipe
        /\ CreateInstance(Unused \cup {listening})
        /\ pc = "listen" /\ UNCHANGED <<pc, at>>
    BY <1>4 DEF ListenFailed
  <2>2. status' = [status EXCEPT ![listening] = "Free"]
    BY <2>1 DEF Release
  <2>3. UnusedIdle'
    BY <1>t, <2>1, <2>2, AnotherListens DEF UnusedIdle, Unused
  <2> QED BY <1>t, <2>1, <2>3, AnotherListens DEF Stages
<1>5. CASE TryRecv
  BY <1>t, <1>q, <1>5 DEF TryRecv, Stages
<1>6. CASE TryRecvEmpty
  BY <1>t, <1>q, <1>6 DEF TryRecvEmpty, Stages
<1>7. CASE ReadReady
  <2>1. /\ pipes[at] \in InUse /\ UNCHANGED <<pipes, listening>> /\ pc' = "listen" /\ at' = 1
        /\ status' = [status EXCEPT ![pipes[at]] = "Readable"]
    BY <1>7, PipeAt DEF ReadReady
  <2>2. Distinct' /\ UnusedIdle'
    BY <1>t, <1>i, <2>1
  <2> QED BY <2>1, <2>2 DEF Stages
<1>8. CASE Read
  <2>1. /\ pc = "read" /\ at \in 1..Len(pipes) /\ pipes[at] \in InUse /\ pipes[at] \in Handles
        /\ UNCHANGED <<pipes, listening, pc>> /\ at' = at + 1
        /\ status' = [status EXCEPT ![pipes[at]] = "Pending"]
    BY <1>8, PipeAt DEF Read
  <2>2. Distinct' /\ UnusedIdle'
    BY <1>t, <1>i, <2>1
  <2>3. \A g \in Handles : status[g] = "Pending" => status'[g] = "Pending"
    BY <1>t, <2>1
  <2>4. status'[pipes[at]] = "Pending"
    BY <1>t, <2>1
  <2>5. \A j \in 1..at : status'[pipes[j]] = "Pending"
    <3>1. \A j \in 1..at : j = at \/ j \in 1..(at - 1)
      BY <1>t
    <3>2. \A j \in 1..at : pipes[j] \in Handles
      BY <1>t, <2>1
    <3> QED BY <1>t, <2>1, <2>3, <2>4, <3>1, <3>2 DEF Stages
  <2>6. listening # NoPipe => status'[listening] = "Pending"
    BY <1>t, <2>1, <2>3 DEF Stages, IInv, TypeOK
  <2>7. at' <= Len(pipes) + 1 /\ at' - 1 = at
    BY <1>t, <2>1
  <2> QED BY <2>1, <2>2, <2>5, <2>6, <2>7 DEF Stages
<1>9. CASE ReadPending
  <2>1. /\ pc = "read" /\ at \in 1..Len(pipes) /\ status[pipes[at]] = "Pending"
        /\ UNCHANGED <<pipes, listening, status, pc>> /\ at' = at + 1
    BY <1>9, PipeAt DEF ReadPending
  <2>2. \A j \in 1..at : j = at \/ j \in 1..(at - 1)
    BY <1>t
  <2>3. at' <= Len(pipes) + 1 /\ at' - 1 = at
    BY <1>t, <2>1
  <2>4. \A j \in 1..at : status[pipes[j]] = "Pending"
    BY <1>t, <2>1, <2>2 DEF Stages
  <2> QED BY <1>t, <1>q, <2>1, <2>3, <2>4 DEF Stages
<1>10. CASE ReadOffline
  <2> DEFINE h == pipes[at]
  <2>1. /\ Distinct' /\ h \in InUse /\ InUse' = InUse \ {h} /\ Release(h)
        /\ Len(pipes') = Len(pipes) - 1 /\ at \in 1..Len(pipes)
        /\ \A j \in 1..(at - 1) : pipes'[j] = pipes[j] /\ pipes[j] # h
    BY <1>10, OfflineLeaves
  <2>2. /\ pc = "read" /\ UNCHANGED <<listening, pc, at>>
        /\ h # listening
    BY <1>10, PipeAt DEF ReadOffline
  <2>3. status' = [status EXCEPT ![h] = "Free"]
    BY <2>1 DEF Release
  <2>4. UnusedIdle'
    <3> HIDE DEF h
    <3> QED BY <1>t, <2>1, <2>3 DEF UnusedIdle, Unused
  <2>5. \A j \in 1..(at - 1) : status'[pipes'[j]] = "Pending"
    <3> SUFFICES ASSUME NEW j \in 1..(at - 1) PROVE status'[pipes'[j]] = "Pending"
      OBVIOUS
    <3>1. pipes[j] \in Handles /\ status[pipes[j]] = "Pending"
      BY <1>t, <2>1, <2>2 DEF Stages
    <3> HIDE DEF h
    <3> QED BY <1>t, <2>1, <2>3, <3>1
  <2>6. listening # NoPipe => status'[listening] = "Pending"
    <3>1. listening # NoPipe => listening \in Handles /\ status[listening] = "Pending"
      BY <1>t, <2>2 DEF Stages, IInv, TypeOK
    <3> HIDE DEF h
    <3> QED BY <1>t, <2>2, <2>3, <3>1
  <2>7. at <= Len(pipes') + 1
    BY <1>t, <2>1
  <2> QED BY <2>1, <2>2, <2>4, <2>5, <2>6, <2>7 DEF Stages
<1>11. CASE AllRead
  <2>1. pc = "read" /\ at - 1 = Len(pipes)
    BY <1>t, <1>11 DEF AllRead, Stages
  <2> QED BY <1>t, <1>q, <1>11, <2>1 DEF AllRead, Stages
<1>12. CASE Timeout
  BY <1>t, <1>q, <1>12 DEF Timeout, Stages
<1>13. CASE Woken
  BY <1>t, <1>q, <1>13 DEF Woken, Take, Stages
<1>14. CASE Connected
  <2>1. Accept /\ listening # NoPipe /\ pc = "wait" /\ pc' = "listen" /\ UNCHANGED at
    BY <1>14 DEF Connected, Take
  <2>2. UnusedIdle'
    BY <1>t, <2>1, AcceptAdds DEF UnusedIdle, Unused
  <2> QED BY <1>t, <2>1, <2>2, AcceptAdds DEF Stages
<1>15. ASSUME NEW h \in Handles, ReadEnds(h) PROVE Distinct' /\ UnusedIdle' /\ Stages'
  <2>1. /\ h \in InUse /\ UNCHANGED <<pipes, listening, at>> /\ pc = "wait" /\ pc' = "listen"
        /\ \A g \in Handles \ {h} : status'[g] = status[g]
    BY <1>t, <1>15 DEF ReadEnds, Take, InUse
  <2>2. Distinct' /\ UnusedIdle'
    BY <1>i, <2>1
  <2> QED BY <1>t, <2>1, <2>2 DEF Stages
<1>16. ASSUME UNCHANGED hubVars PROVE Distinct' /\ UnusedIdle' /\ Stages'
  BY <1>t, <1>q, <1>16 DEF hubVars, Stages
<1>17. (\E c \in Conns : Connect(c) \/ Write(c) \/ Shut(c)) => UNCHANGED hubVars
  BY DEF Connect, Write, Shut
<1>18. (\E t \in Own : OwnSend(t) \/ Wake(t)) \/ OwnDrop \/ UNCHANGED vars => UNCHANGED hubVars
  BY DEF OwnSend, Wake, OwnDrop, vars
<1> QED
  BY <1>1, <1>2, <1>3, <1>4, <1>5, <1>6, <1>7, <1>8, <1>9, <1>10, <1>11, <1>12, <1>13, <1>14,
     <1>15, <1>16, <1>17, <1>18 DEF Next, Recv
-----------------------------------------------------------------------------
(* Packets and operations *)

\* What OneOutstanding says of one handle.
Waits(h) == h \in InUse /\ status[h] = "Pending"
Balanced(h) ==
    IF Waits(h) THEN IF op[h] = "none" THEN Once(port, h) ELSE Slots(port, h) = {}
                ELSE op[h] = "none" /\ Slots(port, h) = {}

LEMMA OutstandingIsBalanced ==
    /\ OneOutstanding <=> \A h \in Handles : Balanced(h)
    /\ OneOutstanding' <=> \A h \in Handles : Balanced(h)'
  BY DEF OneOutstanding, PacketsOf, Balanced, Waits, Once, Slots

LEMMA OutstandingKept ==
    ASSUME IInv, [Next]_vars PROVE OneOutstanding'
<1> USE NamesAssumption
<1>t. /\ pipes \in Seq(Handles) /\ status \in [Handles -> Statuses]
      /\ op \in [Handles -> {"none", "listen", "read"}] /\ port \in Seq(Packets)
      /\ listening \in Handles \cup {NoPipe}
      /\ Distinct /\ InUse \subseteq Handles /\ \A h \in Handles \ InUse : status[h] # "Pending"
  BY PipesAreHandles DEF IInv, TypeOK, UnusedIdle, Unused
<1>b. \A h \in Handles : Balanced(h)
  BY OutstandingIsBalanced DEF IInv
<1> SUFFICES \A h \in Handles : Balanced(h)'
  BY OutstandingIsBalanced
<1>w. UNCHANGED <<pipes, listening>> => InUse' = InUse
  BY DEF InUse
<1>q. ASSUME UNCHANGED <<pipes, listening, status>>
      PROVE  \A h \in Handles : Waits(h)' <=> Waits(h)
  BY <1>w, <1>q DEF Waits
<1>s. ASSUME UNCHANGED <<pipes, listening, status, op, port>>
      PROVE  \A h \in Handles : Balanced(h)'
  BY <1>b, <1>q, <1>s DEF Balanced
\* A new packet ends the operation of its pipe.
<1>p. ASSUME UNCHANGED <<pipes, listening, status>>, NEW h \in Handles, NEW p \in Packets,
             op[h] # "none", op' = [op EXCEPT ![h] = "none"], p.key = h, Post(p)
      PROVE  \A g \in Handles : Balanced(g)'
  <2>1. /\ \A g \in Handles \ {h} : Slots(port', g) = Slots(port, g)
        /\ \A g \in Handles \ {h} : Once(port, g) => Once(port', g)
        /\ Slots(port, h) = {} => Once(port', h)
    BY <1>t, <1>p, PostAdds
  <2>2. Waits(h) /\ Slots(port, h) = {}
    BY <1>b, <1>p DEF Balanced
  <2>3. op'[h] = "none" /\ \A g \in Handles \ {h} : op'[g] = op[g]
    BY <1>t, <1>p
  <2> QED BY <1>b, <1>q, <1>p, <2>1, <2>2, <2>3 DEF Balanced
<1>1. CASE Listened
  BY <1>s, <1>1 DEF Listened, kernelVars
<1>2. CASE Listen
  <2>1. /\ listening \in Handles /\ listening \in InUse /\ status[listening] = "Free"
        /\ UNCHANGED <<pipes, listening, port>>
        /\ status' = [status EXCEPT ![listening] = "Pending"]
        /\ op' = [op EXCEPT ![listening] = "listen"]
    BY <1>t, <1>2 DEF Listen, InUse
  <2>2. Slots(port, listening) = {}
    BY <1>b, <2>1 DEF Balanced, Waits
  <2>3. status'[listening] = "Pending" /\ op'[listening] = "listen"
    BY <1>t, <2>1
  <2>4. \A g \in Handles \ {listening} : status'[g] = status[g] /\ op'[g] = op[g]
    BY <1>t, <2>1
  <2> QED BY <1>b, <1>w, <2>1, <2>2, <2>3, <2>4 DEF Balanced, Waits
<1>3. CASE ListenConnected
  <2>1. Accept /\ listening # NoPipe /\ status[listening] = "Free" /\ UNCHANGED <<op, port>>
    BY <1>3 DEF ListenConnected, kernelVars
  <2>2. \A g \in Handles : Waits(g)' <=> Waits(g)
    BY <1>t, <2>1, AcceptAdds DEF Waits
  <2> QED BY <1>b, <2>1, <2>2 DEF Balanced
<1>4. CASE ListenFailed
  <2>1. /\ Release(listening) /\ UNCHANGED pipes /\ listening # NoPipe
        /\ CreateInstance(Unused \cup {listening})
        /\ status[listening] = "Free" /\ UNCHANGED <<op, port>>
    BY <1>4 DEF ListenFailed
  <2>2. status' = [status EXCEPT ![listening] = "Free"]
    BY <2>1 DEF Release
  <2>3. \A g \in Handles : Waits(g)' <=> Waits(g)
    BY <1>t, <2>1, <2>2, AnotherListens DEF Waits
  <2> QED BY <1>b, <2>1, <2>3 DEF Balanced
<1>5. CASE TryRecv
  BY <1>s, <1>5 DEF TryRecv, kernelVars
<1>6. CASE TryRecvEmpty
  BY <1>s, <1>6 DEF TryRecvEmpty, kernelVars
<1>7. CASE ReadReady
  <2>1. /\ pipes[at] \in Handles /\ UNCHANGED <<pipes, listening, op, port>>
        /\ status[pipes[at]] = "Ready" /\ status' = [status EXCEPT ![pipes[at]] = "Readable"]
    BY <1>7, PipeAt DEF ReadReady, kernelVars
  <2>2. \A g \in Handles : Waits(g)' <=> Waits(g)
    BY <1>t, <1>w, <2>1 DEF Waits
  <2> QED BY <1>b, <2>1, <2>2 DEF Balanced
<1>8. CASE Read
  <2>h. PICK h \in Handles : h = pipes[at]
    BY <1>8, PipeAt DEF Read
  <2>1. /\ h \in Handles /\ h \in InUse /\ data[h] \in Seq(Nat) /\ status[h] # "Pending"
        /\ UNCHANGED <<pipes, listening>>
        /\ status' = [status EXCEPT ![h] = "Pending"]
        /\ IF data[h] # <<>> THEN Transfer(h, data[h]) /\ UNCHANGED op
           ELSE op' = [op EXCEPT ![h] = "read"] /\ UNCHANGED <<data, port>>
    BY <1>8, <2>h, PipeAt DEF Read, MayRead
  <2>2. op[h] = "none" /\ Slots(port, h) = {}
    BY <1>b, <2>1 DEF Balanced, Waits
  <2>3. status'[h] = "Pending" /\ \A g \in Handles \ {h} : status'[g] = status[g]
    BY <1>t, <2>1
  <2>4. Waits(h)' /\ \A g \in Handles \ {h} : Waits(g)' <=> Waits(g)
    BY <1>w, <2>1, <2>3 DEF Waits
  <2>5. CASE data[h] # <<>>
    <3>1. PICK p \in Packets : p.key = h /\ Post(p)
      BY <2>1, <2>5, TransferFits DEF IInv
    <3>2. /\ \A g \in Handles \ {h} : Slots(port', g) = Slots(port, g)
          /\ \A g \in Handles \ {h} : Once(port, g) => Once(port', g)
          /\ Once(port', h)
      BY <1>t, <2>2, <3>1, PostAdds
    <3> QED BY <1>b, <2>1, <2>2, <2>4, <2>5, <3>2 DEF Balanced
  <2>6. CASE data[h] = <<>>
    <3>1. op'[h] = "read" /\ \A g \in Handles \ {h} : op'[g] = op[g]
      BY <1>t, <2>1, <2>6
    <3> QED BY <1>b, <2>1, <2>2, <2>4, <2>6, <3>1 DEF Balanced
  <2> QED BY <2>5, <2>6
<1>9. CASE ReadPending
  BY <1>s, <1>9 DEF ReadPending, kernelVars
<1>10. CASE ReadOffline
  <2> DEFINE h == pipes[at]
  <2>1. /\ h \in InUse /\ InUse' = InUse \ {h} /\ Release(h) /\ status[h] # "Pending"
    BY <1>10, OfflineLeaves
  <2>2. UNCHANGED <<op, port>>
    BY <1>10 DEF ReadOffline
  <2>3. status' = [status EXCEPT ![h] = "Free"]
    BY <2>1 DEF Release
  <2> HIDE DEF h
  <2>4. \A g \in Handles : Waits(g)' <=> Waits(g)
    BY <1>t, <2>1, <2>3 DEF Waits
  <2> QED BY <1>b, <2>2, <2>4 DEF Balanced
<1>11. CASE AllRead
  BY <1>s, <1>11 DEF AllRead, kernelVars
<1>12. CASE Timeout
  BY <1>s, <1>12 DEF Timeout, kernelVars
<1>13. CASE Woken
  <2>1. Take(Waker) /\ UNCHANGED <<pipes, listening, status, op>>
    BY <1>13 DEF Woken, Take
  <2>2. \A g \in Handles : /\ Slots(port, g) = {} => Slots(port', g) = {}
                           /\ Once(port, g) => Once(port', g)
    BY <1>t, <2>1, TakeRemoves
  <2> QED BY <1>b, <1>q, <2>1, <2>2 DEF Balanced
<1>14. CASE Connected
  <2>h. PICK h \in Handles : h = listening
    BY <1>t, <1>14 DEF Connected
  <2>1. Take(h) /\ Accept /\ UNCHANGED op
    BY <1>14, <2>h DEF Connected, Take
  <2>2. Waits(h) /\ op[h] = "none" /\ Once(port, h)
    BY <1>b, <1>t, <2>1, TakeRemoves DEF Balanced
  <2>3. /\ Slots(port', h) = {}
        /\ \A g \in Handles \ {h} : /\ Slots(port, g) = {} => Slots(port', g) = {}
                                    /\ Once(port, g) => Once(port', g)
    BY <1>t, <2>1, <2>2, TakeRemoves
  <2>4. ~Waits(h)' /\ \A g \in Handles \ {h} : Waits(g)' <=> Waits(g)
    BY <1>t, <2>h, <2>1, AcceptAdds DEF Waits
  <2> QED BY <1>b, <2>1, <2>2, <2>3, <2>4 DEF Balanced
<1>15. ASSUME NEW h \in Handles, ReadEnds(h) PROVE \A g \in Handles : Balanced(g)'
  <2>1. Take(h) /\ UNCHANGED <<pipes, listening, op>>
    BY <1>15 DEF ReadEnds, Take
  <2>2. Waits(h) /\ op[h] = "none" /\ Once(port, h)
    BY <1>b, <1>t, <2>1, TakeRemoves DEF Balanced
  <2>3. /\ Slots(port', h) = {}
        /\ \A g \in Handles \ {h} : /\ Slots(port, g) = {} => Slots(port', g) = {}
                                    /\ Once(port, g) => Once(port', g)
    BY <1>t, <2>1, <2>2, TakeRemoves
  <2>4. Head(port) \in Packets
    BY <1>t, <2>1, TakeRemoves
  <2>5. Head(port).result \in {"ok", "more", "error"}
    BY <2>4 DEF Packets
  <2>6. status'[h] # "Pending" /\ \A g \in Handles \ {h} : status'[g] = status[g]
    BY <1>t, <1>15, <2>5 DEF ReadEnds
  <2>7. ~Waits(h)' /\ \A g \in Handles \ {h} : Waits(g)' <=> Waits(g)
    BY <1>w, <2>1, <2>6 DEF Waits
  <2> QED BY <1>b, <2>1, <2>2, <2>3, <2>7 DEF Balanced
<1>16. ASSUME NEW c \in Conns, Connect(c) PROVE \A g \in Handles : Balanced(g)'
  <2>1. UNCHANGED <<pipes, listening, status>> /\ listening \in Handles
    BY <1>t, <1>16 DEF Connect, hubVars
  <2>2. CASE op[listening] = "listen"
    <3>1. Packet(listening, "ok", 0) \in Packets /\ Packet(listening, "ok", 0).key = listening
      BY <2>1 DEF Packet, Packets
    <3>2. Post(Packet(listening, "ok", 0)) /\ op' = [op EXCEPT ![listening] = "none"]
      BY <1>16, <2>2 DEF Connect
    <3> QED BY <1>p, <2>1, <2>2, <3>1, <3>2
  <2>3. CASE op[listening] # "listen"
    <3>1. UNCHANGED <<port, op>>
      BY <1>16, <2>3 DEF Connect
    <3> QED BY <1>s, <2>1, <3>1
  <2> QED BY <2>2, <2>3
<1>17. ASSUME NEW c \in Conns, Write(c) PROVE \A g \in Handles : Balanced(g)'
  <2>1. PICK h \in Handles, s \in Sizes :
           IF op[h] = "read"
           THEN Transfer(h, <<s>>) /\ op' = [op EXCEPT ![h] = "none"]
           ELSE data' = [data EXCEPT ![h] = Append(@, s)] /\ UNCHANGED <<port, op>>
    BY <1>17 DEF Write
  <2>2. UNCHANGED <<pipes, listening, status>>
    BY <1>17 DEF Write, hubVars
  <2>3. <<s>> \in Seq(Nat) /\ <<s>> # <<>>
    BY NumbersAssumption
  <2>4. CASE op[h] = "read"
    <3>1. PICK p \in Packets : p.key = h /\ Post(p)
      BY <2>1, <2>3, <2>4, TransferFits DEF IInv
    <3> QED BY <1>p, <2>1, <2>2, <2>4, <3>1
  <2>5. CASE op[h] # "read"
    BY <1>s, <2>1, <2>2, <2>5
  <2> QED BY <2>4, <2>5
<1>18. ASSUME NEW c \in Conns, Shut(c) PROVE \A g \in Handles : Balanced(g)'
  <2>1. PICK h \in Handles :
           IF op[h] = "read"
           THEN Post(Packet(h, "error", 0)) /\ op' = [op EXCEPT ![h] = "none"]
           ELSE UNCHANGED <<port, op>>
    BY <1>18 DEF Shut
  <2>2. UNCHANGED <<pipes, listening, status>>
    BY <1>18 DEF Shut, hubVars
  <2>3. Packet(h, "error", 0) \in Packets /\ Packet(h, "error", 0).key = h
    BY DEF Packet, Packets
  <2>4. CASE op[h] = "read"
    BY <1>p, <2>1, <2>2, <2>3, <2>4
  <2>5. CASE op[h] # "read"
    BY <1>s, <2>1, <2>2, <2>5
  <2> QED BY <2>4, <2>5
<1>19. ASSUME NEW t \in Own, OwnSend(t) PROVE \A g \in Handles : Balanced(g)'
  BY <1>s, <1>19 DEF OwnSend, hubVars, kernelVars
<1>20. ASSUME NEW t \in Own, Wake(t) PROVE \A g \in Handles : Balanced(g)'
  <2>1. Post(Packet(Waker, "ok", 0)) /\ UNCHANGED <<pipes, listening, status, op>>
    BY <1>20 DEF Wake, hubVars
  <2>2. Packet(Waker, "ok", 0) \in Packets /\ Packet(Waker, "ok", 0).key = Waker
    BY DEF Packet, Packets
  <2>3. \A g \in Handles : Slots(port', g) = Slots(port, g) /\ (Once(port, g) => Once(port', g))
    BY <1>t, <2>1, <2>2, PostAdds
  <2> QED BY <1>b, <1>q, <2>1, <2>3 DEF Balanced
<1>21. CASE OwnDrop
  BY <1>s, <1>21 DEF OwnDrop, hubVars, kernelVars
<1>22. CASE UNCHANGED vars
  BY <1>s, <1>22 DEF vars, hubVars, kernelVars
<1> QED
  BY <1>1, <1>2, <1>3, <1>4, <1>5, <1>6, <1>7, <1>8, <1>9, <1>10, <1>11, <1>12, <1>13, <1>14,
     <1>15, <1>16, <1>17, <1>18, <1>19, <1>20, <1>21, <1>22 DEF Next, Recv
-----------------------------------------------------------------------------
(* What is read of a message *)

\* What InBuffer says of one packet, and of one handle.
Fits(h, packet) == packet.key = h => size[h] + packet.n <= buffer[h]
Roomy(h) == size[h] <= buffer[h] /\ \A k \in DOMAIN port : Fits(h, port[k])

LEMMA InBufferIsRoomy ==
    /\ InBuffer <=> \A h \in Handles : Roomy(h)
    /\ InBuffer' <=> \A h \in Handles : Roomy(h)'
  BY DEF InBuffer, PacketsOf, Roomy, Fits

LEMMA InBufferKept ==
    ASSUME IInv, [Next]_vars PROVE InBuffer'
<1> USE NamesAssumption, NumbersAssumption
<1>t. /\ size \in [Handles -> Nat] /\ buffer \in [Handles -> Nat \ {0}]
      /\ port \in Seq(Packets) /\ listening \in Handles \cup {NoPipe}
      /\ TypeOK /\ InBuffer
  BY DEF IInv, TypeOK
<1>r. \A h \in Handles : Roomy(h)
  BY InBufferIsRoomy DEF IInv
<1>b. \A h \in Handles : Balanced(h)
  BY OutstandingIsBalanced DEF IInv
<1> SUFFICES \A h \in Handles : Roomy(h)'
  BY InBufferIsRoomy
<1>s. ASSUME UNCHANGED <<size, buffer, port>> PROVE \A h \in Handles : Roomy(h)'
  BY <1>r, <1>s DEF Roomy, Fits
\* The new packet is all there is to look at ...
<1>p. ASSUME UNCHANGED <<size, buffer>>, NEW p \in Packets, Post(p), \A h \in Handles : Fits(h, p)
      PROVE  \A h \in Handles : Roomy(h)'
  <2>1. \A k \in DOMAIN port' : (k \in DOMAIN port /\ port'[k] = port[k]) \/ port'[k] = p
    BY <1>t, <1>p, PostAdds
  <2> QED BY <1>r, <1>p, <2>1 DEF Roomy, Fits
\* ... and a packet that is taken is no more.
<1>k. ASSUME UNCHANGED <<size, buffer>>, NEW key, Take(key) PROVE \A h \in Handles : Roomy(h)'
  <2>1. \A k \in DOMAIN port' : k + 1 \in DOMAIN port /\ port'[k] = port[k + 1]
    BY <1>t, <1>k, TakeRemoves
  <2> QED BY <1>r, <1>k, <2>1 DEF Roomy, Fits
\* A pipe of which no packet speaks starts with an empty buffer.
<1>e. ASSUME UNCHANGED port, NEW h \in Handles, ~Waits(h),
             size' = [size EXCEPT ![h] = 0], buffer' = [buffer EXCEPT ![h] = Capacity]
      PROVE  \A g \in Handles : Roomy(g)'
  <2>1. Slots(port, h) = {}
    BY <1>b, <1>e DEF Balanced
  <2>2. size'[h] = 0 /\ buffer'[h] = Capacity
    BY <1>t, <1>e
  <2>3. \A g \in Handles \ {h} : size'[g] = size[g] /\ buffer'[g] = buffer[g]
    BY <1>t, <1>e
  <2>4. Roomy(h)'
    BY <1>e, <2>1, <2>2 DEF Roomy, Fits, Slots
  <2> QED BY <1>r, <1>e, <2>3, <2>4 DEF Roomy, Fits
<1>1. CASE ListenFailed
  <2>1. /\ Release(listening) /\ listening \in Handles /\ UNCHANGED port
        /\ ~Waits(listening)
    BY <1>t, <1>1 DEF ListenFailed, Waits
  <2> QED BY <1>e, <2>1 DEF Release
<1>2. CASE ReadReady
  <2>1. /\ pipes[at] \in Handles /\ status[pipes[at]] = "Ready" /\ UNCHANGED port
        /\ size' = [size EXCEPT ![pipes[at]] = 0]
        /\ buffer' = [buffer EXCEPT ![pipes[at]] = Capacity]
    BY <1>2, PipeAt DEF ReadReady, kernelVars
  <2>2. ~Waits(pipes[at])
    BY <2>1 DEF Waits
  <2> QED BY <1>e, <2>1, <2>2
<1>3. CASE Read
  <2> DEFINE h == pipes[at]
  <2>1. /\ h \in Handles /\ data[h] \in Seq(Nat) /\ UNCHANGED <<size, buffer>>
        /\ IF data[h] # <<>> THEN Transfer(h, data[h]) /\ UNCHANGED op
           ELSE op' = [op EXCEPT ![h] = "read"] /\ UNCHANGED <<data, port>>
    BY <1>3, PipeAt DEF Read
  <2> HIDE DEF h
  <2>2. CASE data[h] # <<>>
    <3>1. PICK p \in Packets : p.key = h /\ size[h] + p.n <= buffer[h] /\ Post(p)
      BY <1>t, <2>1, <2>2, TransferFits
    <3> QED BY <1>p, <2>1, <3>1 DEF Fits
  <2>3. CASE data[h] = <<>>
    BY <1>s, <2>1, <2>3
  <2> QED BY <2>2, <2>3
<1>4. CASE ReadOffline
  <2>1. Release(pipes[at]) /\ ~Waits(pipes[at])
    BY <1>4, OfflineLeaves DEF Waits
  <2>2. pipes[at] \in Handles /\ UNCHANGED port
    BY <1>4, PipeAt DEF ReadOffline
  <2> QED BY <1>e, <2>1, <2>2 DEF Release
<1>5. CASE Woken
  BY <1>k, <1>5 DEF Woken
<1>6. CASE Connected
  BY <1>k, <1>6 DEF Connected
<1>7. ASSUME NEW h \in Handles, ReadEnds(h) PROVE \A g \in Handles : Roomy(g)'
  <2> DEFINE packet == Head(port)
  <2>1. /\ Take(h)
        /\ size' = [size EXCEPT ![h] = IF packet.result = "error" THEN @ ELSE @ + packet.n]
        /\ buffer' = [buffer EXCEPT ![h] = IF packet.result = "more" THEN 2 * @ ELSE @]
    BY <1>7 DEF ReadEnds
  <2>2. /\ packet \in Packets /\ 1 \in DOMAIN port /\ port[1] = packet /\ packet.key = h
        /\ \A k \in DOMAIN port' : k + 1 \in DOMAIN port /\ port'[k] = port[k + 1]
        /\ Slots(port, h) # {} /\ (Once(port, h) => Slots(port', h) = {})
    BY <1>t, <2>1, TakeRemoves
  <2>3. Slots(port', h) = {}
    BY <1>b, <2>2 DEF Balanced
  <2>4. packet.n \in Nat /\ size[h] + packet.n <= buffer[h]
    BY <1>r, <2>2 DEF Roomy, Fits, Packets
  <2> HIDE DEF packet
  <2>5. size'[h] <= buffer'[h]
    BY <1>t, <2>1, <2>4
  <2>6. Roomy(h)'
    BY <2>3, <2>5 DEF Roomy, Fits, Slots
  <2>7. \A g \in Handles \ {h} : size'[g] = size[g] /\ buffer'[g] = buffer[g]
    BY <1>t, <2>1
  <2>8. ASSUME NEW g \in Handles \ {h} PROVE Roomy(g)'
    BY <1>r, <2>2, <2>7 DEF Roomy, Fits
  <2> QED BY <2>6, <2>8
<1>8. ASSUME NEW c \in Conns, Connect(c) PROVE \A g \in Handles : Roomy(g)'
  <2>1. UNCHANGED <<size, buffer>> /\ listening \in Handles
    BY <1>t, <1>8 DEF Connect, hubVars
  <2>2. CASE op[listening] = "listen"
    <3>1. /\ Packet(listening, "ok", 0) \in Packets /\ Packet(listening, "ok", 0).n = 0
          /\ Post(Packet(listening, "ok", 0))
      BY <1>8, <2>1, <2>2 DEF Packet, Packets, Connect
    <3>2. \A g \in Handles : size[g] + 0 <= buffer[g]
      BY <1>r, <1>t DEF Roomy
    <3> QED BY <1>p, <2>1, <3>1, <3>2 DEF Fits
  <2>3. CASE op[listening] # "listen"
    BY <1>s, <1>8, <2>1, <2>3 DEF Connect
  <2> QED BY <2>2, <2>3
<1>9. ASSUME NEW c \in Conns, Write(c) PROVE \A g \in Handles : Roomy(g)'
  <2>1. PICK h \in Handles, s \in Sizes :
           IF op[h] = "read"
           THEN Transfer(h, <<s>>) /\ op' = [op EXCEPT ![h] = "none"]
           ELSE data' = [data EXCEPT ![h] = Append(@, s)] /\ UNCHANGED <<port, op>>
    BY <1>9 DEF Write
  <2>2. UNCHANGED <<size, buffer>>
    BY <1>9 DEF Write, hubVars
  <2>3. <<s>> \in Seq(Nat) /\ <<s>> # <<>>
    OBVIOUS
  <2>4. CASE op[h] = "read"
    <3>1. PICK p \in Packets : p.key = h /\ size[h] + p.n <= buffer[h] /\ Post(p)
      BY <1>t, <2>1, <2>3, <2>4, TransferFits
    <3> QED BY <1>p, <2>2, <3>1 DEF Fits
  <2>5. CASE op[h] # "read"
    BY <1>s, <2>1, <2>2, <2>5
  <2> QED BY <2>4, <2>5
<1>10. ASSUME NEW c \in Conns, Shut(c) PROVE \A g \in Handles : Roomy(g)'
  <2>1. PICK h \in Handles :
           IF op[h] = "read"
           THEN Post(Packet(h, "error", 0)) /\ op' = [op EXCEPT ![h] = "none"]
           ELSE UNCHANGED <<port, op>>
    BY <1>10 DEF Shut
  <2>2. UNCHANGED <<size, buffer>>
    BY <1>10 DEF Shut, hubVars
  <2>3. Packet(h, "error", 0) \in Packets /\ Packet(h, "error", 0).n = 0
    BY DEF Packet, Packets
  <2>4. \A g \in Handles : size[g] + 0 <= buffer[g]
    BY <1>r, <1>t DEF Roomy
  <2> QED BY <1>p, <1>s, <2>1, <2>2, <2>3, <2>4 DEF Fits
<1>11. ASSUME NEW t \in Own, Wake(t) PROVE \A g \in Handles : Roomy(g)'
  <2>1. Post(Packet(Waker, "ok", 0)) /\ UNCHANGED <<size, buffer>>
    BY <1>11 DEF Wake, hubVars
  <2>2. Packet(Waker, "ok", 0) \in Packets /\ Packet(Waker, "ok", 0).key = Waker
    BY DEF Packet, Packets
  <2> QED BY <1>p, <2>1, <2>2 DEF Fits
<1>12. ASSUME Listened \/ Listen \/ ListenConnected \/ TryRecv \/ TryRecvEmpty
       PROVE  UNCHANGED <<size, buffer, port>>
  BY <1>12 DEF Listened, Listen, ListenConnected, TryRecv, TryRecvEmpty, kernelVars
<1>13. ASSUME ReadPending \/ AllRead \/ Timeout PROVE UNCHANGED <<size, buffer, port>>
  BY <1>13 DEF ReadPending, AllRead, Timeout, kernelVars
<1>14. ASSUME (\E t \in Own : OwnSend(t)) \/ OwnDrop \/ UNCHANGED vars
       PROVE  UNCHANGED <<size, buffer, port>>
  BY <1>14 DEF OwnSend, OwnDrop, vars, hubVars, kernelVars
<1> QED
  BY <1>s, <1>1, <1>2, <1>3, <1>4, <1>5, <1>6, <1>7, <1>8, <1>9, <1>10, <1>11, <1>12, <1>13, <1>14
  DEF Next, Recv

-----------------------------------------------------------------------------
(* The channel of the own process *)

\* From the moment try_recv finds the channel empty, what comes is announced.
Announced == waking # {} \/ Slots(port, Waker) # {}
Alert ==
    /\ pc \in {"read", "wait"} /\ bus_rx # <<>> => Announced
    /\ ~bus_receiver => ~own_open /\ bus_rx = <<>>

LEMMA AlertKept ==
    ASSUME IInv, Alert, [Next]_vars PROVE Alert'
<1> USE NamesAssumption
<1>t. port \in Seq(Packets)
  BY DEF IInv, TypeOK
<1>p. ASSUME NEW p \in Packets, Post(p)
      PROVE  /\ Slots(port, Waker) # {} => Slots(port', Waker) # {}
             /\ p.key = Waker => Slots(port', Waker) # {}
  <2>1. /\ port' = Append(port, p)
        /\ \A k \in DOMAIN port : k \in DOMAIN port' /\ port'[k] = port[k]
        /\ Len(port) + 1 \in DOMAIN port' /\ port'[Len(port) + 1] = p
    BY <1>t, <1>p DEF Post
  <2> QED BY <2>1 DEF Slots
<1>s. ASSUME UNCHANGED <<pc, bus_receiver, bus_rx, waking, own_open>>,
             port' = port \/ \E p \in Packets : Post(p)
      PROVE  Alert'
  BY <1>p, <1>s DEF Alert, Announced
<1>1. CASE Listened \/ Listen \/ ListenConnected \/ ListenFailed
  BY <1>1 DEF Listened, Listen, ListenConnected, ListenFailed, ownVars, Alert
<1>2. CASE TryRecv
  BY <1>2 DEF TryRecv, Alert
<1>3. CASE TryRecvEmpty
  BY <1>3 DEF TryRecvEmpty, ownVars, Alert
<1>4. CASE ReadReady
  BY <1>4 DEF ReadReady, ownVars, Alert
<1>5. CASE Read
  <2> DEFINE h == pipes[at]
  <2>1. /\ h \in Handles /\ data[h] \in Seq(Nat)
        /\ UNCHANGED <<pc, bus_receiver, bus_rx, waking, own_open>>
        /\ IF data[h] # <<>> THEN Transfer(h, data[h]) /\ UNCHANGED op
           ELSE op' = [op EXCEPT ![h] = "read"] /\ UNCHANGED <<data, port>>
    BY <1>5, PipeAt DEF Read, ownVars
  <2> HIDE DEF h
  <2>2. port' = port \/ \E p \in Packets : Post(p)
    BY <2>1, TransferFits DEF IInv
  <2> QED BY <1>s, <2>1, <2>2
<1>6. CASE ReadPending
  BY <1>s, <1>6 DEF ReadPending, ownVars, kernelVars
<1>7. CASE ReadOffline
  BY <1>s, <1>7 DEF ReadOffline, ownVars
<1>8. CASE AllRead
  BY <1>8 DEF AllRead, ownVars, kernelVars, Alert, Announced
<1>9. CASE Timeout
  BY <1>9 DEF Timeout, ownVars, Alert
<1>10. CASE Woken \/ Connected \/ \E h \in Handles : ReadEnds(h)
  BY <1>10 DEF Woken, Connected, ReadEnds, Take, ownVars, Alert
<1>11. ASSUME NEW c \in Conns, Connect(c) PROVE Alert'
  <2>1. Packet(listening, "ok", 0) \in Packets
    BY <1>11 DEF Connect, IInv, TypeOK, Packet, Packets
  <2> QED BY <1>s, <1>11, <2>1 DEF Connect, hubVars, ownVars
<1>12. ASSUME NEW c \in Conns, Write(c) PROVE Alert'
  <2>1. PICK h \in Handles, s \in Sizes :
           IF op[h] = "read"
           THEN Transfer(h, <<s>>) /\ op' = [op EXCEPT ![h] = "none"]
           ELSE data' = [data EXCEPT ![h] = Append(@, s)] /\ UNCHANGED <<port, op>>
    BY <1>12 DEF Write
  <2>2. <<s>> \in Seq(Nat) /\ <<s>> # <<>>
    BY NumbersAssumption
  <2>3. port' = port \/ \E p \in Packets : Post(p)
    BY <2>1, <2>2, TransferFits DEF IInv
  <2> QED BY <1>s, <1>12, <2>3 DEF Write, hubVars, ownVars
<1>13. ASSUME NEW c \in Conns, Shut(c) PROVE Alert'
  <2>1. PICK h \in Handles :
           IF op[h] = "read"
           THEN Post(Packet(h, "error", 0)) /\ op' = [op EXCEPT ![h] = "none"]
           ELSE UNCHANGED <<port, op>>
    BY <1>13 DEF Shut
  <2>2. Packet(h, "error", 0) \in Packets
    BY DEF Packet, Packets
  <2> QED BY <1>s, <1>13, <2>1, <2>2 DEF Shut, hubVars, ownVars
<1>14. ASSUME NEW t \in Own, OwnSend(t) PROVE Alert'
  BY <1>14 DEF OwnSend, hubVars, kernelVars, Alert, Announced
<1>15. ASSUME NEW t \in Own, Wake(t) PROVE Alert'
  <2>1. Packet(Waker, "ok", 0) \in Packets /\ Packet(Waker, "ok", 0).key = Waker
    BY DEF Packet, Packets
  <2>2. Post(Packet(Waker, "ok", 0)) /\ UNCHANGED <<pc, bus_receiver, bus_rx, own_open>>
    BY <1>15 DEF Wake, hubVars
  <2>3. Announced'
    BY <1>p, <2>1, <2>2 DEF Announced
  <2> QED BY <2>2, <2>3 DEF Alert
<1>16. CASE OwnDrop
  BY <1>16 DEF OwnDrop, hubVars, kernelVars, Alert, Announced
<1>17. CASE UNCHANGED vars
  BY <1>s, <1>17 DEF vars, hubVars, ownVars, kernelVars
<1> QED
  BY <1>1, <1>2, <1>3, <1>4, <1>5, <1>6, <1>7, <1>8, <1>9, <1>10, <1>11, <1>12, <1>13, <1>14,
     <1>15, <1>16, <1>17 DEF Next, Recv

-----------------------------------------------------------------------------
(* What is left of what a connection wrote *)

NonZero(s) == Filter(s, Nat \ {0})

\* The messages of a pipe that recv has not returned, when `part` bytes of the first
\* one were read.  A message that is complete has left the kernel.
Complete == {"Ready", "ok"}
Coming(d, part, how) ==
    IF how \in Complete THEN <<part>> \o d
    ELSE IF d = <<>> THEN <<>>
    ELSE <<part + Head(d)>> \o Tail(d)

\* Nothing was read of a message that is not there.
Begun(d, part, how) == how \notin Complete /\ d = <<>> => part = 0

\* A sequence and its first element.
LEMMA ConsHead ==
    ASSUME NEW T, NEW a \in T, NEW d \in Seq(T)
    PROVE  /\ <<a>> \o d \in Seq(T) /\ <<a>> \o d # <<>>
           /\ Head(<<a>> \o d) = a /\ Tail(<<a>> \o d) = d
<1> DEFINE e == <<a>> \o d
<1>1. <<a>> \in Seq(T) /\ Len(<<a>>) = 1 /\ <<a>>[1] = a
  OBVIOUS
<1>2. /\ e \in Seq(T) /\ Len(e) = 1 + Len(d)
      /\ \A i \in 1..(1 + Len(d)) : e[i] = IF i <= 1 THEN <<a>>[i] ELSE d[i - 1]
  BY <1>1, ConcatProperties
<1> HIDE DEF e
<1>3. Len(d) \in Nat
  OBVIOUS
<1>4. e # <<>> /\ Head(e) = a
  BY <1>1, <1>2, <1>3
<1>5. /\ Tail(e) \in Seq(T) /\ Len(Tail(e)) = Len(d)
      /\ \A i \in 1..Len(d) : Tail(e)[i] = e[i + 1]
  BY <1>2, <1>3, <1>4, HeadTailProperties
<1>6. \A i \in 1..Len(d) : Tail(e)[i] = d[i]
  BY <1>2, <1>3, <1>5
<1>7. Tail(e) = d
  BY <1>5, <1>6, SeqEqual
<1> QED BY <1>2, <1>4, <1>7 DEF e

LEMMA HeadTailCons ==
    ASSUME NEW T, NEW d \in Seq(T), d # <<>>
    PROVE  <<Head(d)>> \o Tail(d) = d
<1> DEFINE e == <<Head(d)>> \o Tail(d)
<1>1. /\ Head(d) \in T /\ Tail(d) \in Seq(T) /\ Len(Tail(d)) = Len(d) - 1 /\ Head(d) = d[1]
      /\ Len(d) \in Nat \ {0} /\ \A i \in 1..Len(Tail(d)) : Tail(d)[i] = d[i + 1]
  BY HeadTailProperties
<1>2. /\ e \in Seq(T) /\ Len(e) = 1 + Len(Tail(d))
      /\ \A i \in 1..(1 + Len(Tail(d))) :
            e[i] = IF i <= 1 THEN <<Head(d)>>[i] ELSE Tail(d)[i - 1]
  BY <1>1, ConcatProperties
<1> HIDE DEF e
<1>3. \A i \in 1..Len(d) : e[i] = d[i]
  <2> SUFFICES ASSUME NEW i \in 1..Len(d) PROVE e[i] = d[i]
    OBVIOUS
  <2>1. CASE i = 1
    BY <1>1, <1>2, <2>1
  <2>2. CASE i # 1
    <3>1. i - 1 \in 1..Len(Tail(d)) /\ (i - 1) + 1 = i /\ ~(i <= 1)
      BY <1>1, <2>2
    <3>2. e[i] = Tail(d)[i - 1]
      BY <1>1, <1>2, <3>1
    <3> QED BY <1>1, <3>1, <3>2
  <2> QED BY <2>1, <2>2
<1>4. e = d
  BY <1>1, <1>2, <1>3, SeqEqual
<1> QED BY <1>4 DEF e

LEMMA ComingType ==
    ASSUME NEW d \in Seq(Nat), NEW part \in Nat, NEW how
    PROVE  Coming(d, part, how) \in Seq(Nat)
<1>1. <<part>> \o d \in Seq(Nat)
  BY ConsHead
<1>2. ASSUME d # <<>> PROVE <<part + Head(d)>> \o Tail(d) \in Seq(Nat)
  <2>1. part + Head(d) \in Nat /\ Tail(d) \in Seq(Nat)
    BY <1>2
  <2> QED BY <2>1, ConsHead
<1> QED BY <1>1, <1>2 DEF Coming

\* Of what comes, a message of size 0 does not count ...
LEMMA NonZeroCons ==
    ASSUME NEW a \in Nat, NEW d \in Seq(Nat)
    PROVE  /\ NonZero(d) \in Seq(Nat)
           /\ a = 0 => NonZero(<<a>> \o d) = NonZero(d)
           /\ a # 0 => NonZero(<<a>> \o d) = <<a>> \o NonZero(d)
<1> DEFINE e == <<a>> \o d
<1>1. e \in Seq(Nat) /\ e # <<>> /\ Head(e) = a /\ Tail(e) = d
  BY ConsHead
<1>2. /\ a \in Nat \ {0} => /\ NonZero(e) # <<>> /\ Head(NonZero(e)) = a
                            /\ Tail(NonZero(e)) = NonZero(d)
      /\ a \notin Nat \ {0} => NonZero(e) = NonZero(d)
  <2> HIDE DEF e
  <2> QED BY <1>1, FilterTail DEF NonZero
<1>3. NonZero(e) \in Seq(Nat) /\ NonZero(d) \in Seq(Nat)
  <2> HIDE DEF e
  <2> QED BY <1>1, FilterType DEF NonZero
<1> DEFINE f == NonZero(e)
<1>4. a # 0 => NonZero(e) = <<a>> \o NonZero(d)
  <2> HIDE DEF e, f
  <2> SUFFICES ASSUME a # 0 PROVE f = <<a>> \o NonZero(d)
    BY DEF f
  <2>1. f \in Seq(Nat) /\ f # <<>> /\ Head(f) = a /\ Tail(f) = NonZero(d)
    BY <1>2, <1>3 DEF f
  <2> QED BY <2>1, HeadTailCons
<1> QED BY <1>2, <1>3, <1>4

\* ... and neither does where a message ends of which nothing was read.
LEMMA ComingZero ==
    ASSUME NEW d \in Seq(Nat), NEW how
    PROVE  NonZero(Coming(d, 0, how)) = NonZero(d)
<1>1. CASE how \in Complete
  BY <1>1, NonZeroCons DEF Coming
<1>2. CASE how \notin Complete /\ d = <<>>
  BY <1>2 DEF Coming
<1>3. CASE how \notin Complete /\ d # <<>>
  <2>1. Head(d) \in Nat
    BY <1>3
  <2>2. 0 + Head(d) = Head(d)
    BY <2>1
  <2> QED BY <1>3, <2>2, HeadTailCons DEF Coming
<1> QED BY <1>1, <1>2, <1>3

\* What is written comes last.
LEMMA ComingAppend ==
    ASSUME NEW d \in Seq(Nat), NEW part \in Nat, NEW how, Begun(d, part, how), NEW s \in Nat
    PROVE  /\ Begun(Append(d, s), part, how)
           /\ Coming(Append(d, s), part, how) = Append(Coming(d, part, how), s)
<1> DEFINE e == Append(d, s)
<1>1. e # <<>> /\ e \in Seq(Nat)
  OBVIOUS
<1>2. Begun(e, part, how)
  BY <1>1 DEF Begun
\* Something in front of what is in the kernel.
<1>f. ASSUME NEW a \in Nat, NEW q \in Seq(Nat) PROVE <<a>> \o Append(q, s) = Append(<<a>> \o q, s)
  <2>1. <<a>> \in Seq(Nat) /\ <<s>> \in Seq(Nat) /\ <<a>> \o q \in Seq(Nat)
    BY ConsHead
  <2>2. Append(q, s) = q \o <<s>> /\ Append(<<a>> \o q, s) = (<<a>> \o q) \o <<s>>
    BY <2>1, AppendIsConcat
  <2> QED BY <2>1, <2>2, ConcatAssociative
<1>3. CASE how \in Complete
  BY <1>2, <1>3, <1>f DEF Coming
<1>4. CASE how \notin Complete /\ d = <<>>
  <2>1. Begun(d, part, how) /\ part = 0 /\ Coming(d, part, how) = <<>>
    BY <1>4 DEF Begun, Coming
  <2>2. e = <<s>> /\ Head(e) = s /\ Tail(e) = <<>> /\ part + Head(e) = s
    BY <1>4, <2>1
  <2>3. <<s>> \o <<>> = <<s>> /\ Append(<<>>, s) = <<s>>
    OBVIOUS
  <2>4. Coming(e, part, how) = <<s>>
    BY <1>1, <1>4, <2>2, <2>3 DEF Coming
  <2> QED BY <1>2, <2>1, <2>3, <2>4
<1>5. CASE how \notin Complete /\ d # <<>>
  <2>1. Head(e) = Head(d) /\ Tail(e) = Append(Tail(d), s)
    BY <1>5, HeadTailAppend
  <2>2. part + Head(d) \in Nat /\ Tail(d) \in Seq(Nat)
    BY <1>5
  <2>3. Coming(e, part, how) = <<part + Head(d)>> \o Append(Tail(d), s)
    BY <1>1, <1>5, <2>1 DEF Coming
  <2>4. <<part + Head(d)>> \o Append(Tail(d), s) = Append(<<part + Head(d)>> \o Tail(d), s)
    BY <1>f, <2>2
  <2> QED BY <1>2, <1>5, <2>3, <2>4 DEF Coming
<1> QED BY <1>2, <1>3, <1>4, <1>5

\* What is taken from the front goes to the end of what was taken before.
LEMMA ComingTaken ==
    ASSUME NEW s \in Seq(Nat), NEW part \in Nat \ {0}, NEW d \in Seq(Nat)
    PROVE  s \o NonZero(Coming(d, part, "Ready")) = Append(s, part) \o NonZero(d)
<1>1. part \in Nat /\ part # 0 /\ <<part>> \in Seq(Nat)
  OBVIOUS
<1>2. NonZero(<<part>> \o d) = <<part>> \o NonZero(d) /\ NonZero(d) \in Seq(Nat)
  BY <1>1, NonZeroCons
<1>3. NonZero(Coming(d, part, "Ready")) = <<part>> \o NonZero(d)
  BY <1>2 DEF Coming, Complete
<1>4. Append(s, part) = s \o <<part>>
  BY <1>1, AppendIsConcat
<1>5. (s \o <<part>>) \o NonZero(d) = s \o (<<part>> \o NonZero(d))
  BY <1>1, <1>2, ConcatAssociative
<1> QED BY <1>3, <1>4, <1>5

-----------------------------------------------------------------------------
(* The inductive invariant about messages *)

\* The packets in the port that speak of a pipe: one at most.
Posted(h) == {p \in ToSet(port) : p.key = h}

\* What c wrote is what recv returned and what is still to come.
Tells(c, d, part, how) ==
    Begun(d, part, how) /\ Spoken(c) = heard[c] \o NonZero(Coming(d, part, how))

Story(h) ==
    conn[h] \in Conns =>
        /\ Posted(h) = {} => Tells(conn[h], data[h], size[h], status[h])
        /\ \A p \in Posted(h) : Tells(conn[h], data[h], size[h] + p.n, p.result)

\* recv learns last that a writer has gone, and asks the kernel to wait for a message
\* only when there is none.
Ends(h) ==
    /\ status[h] = "Offline" => data[h] = <<>> /\ conn[h] \in shut
    /\ \A p \in Posted(h) :
          p.result = "error" => p.n = 0 /\ data[h] = <<>> /\ conn[h] \in shut
    /\ op[h] = "read" => data[h] = <<>>

\* Nothing was written into an instance nobody is connected to.
Blank(h) ==
    conn[h] \notin Conns => data[h] = <<>> /\ size[h] = 0 /\ Posted(h) = {}

\* A pipe of the hub has a writer; no byte was read from another instance.
Inside(h) == h \in ToSet(pipes) => conn[h] \in Conns
Outside(h) ==
    h \notin ToSet(pipes) =>
        /\ size[h] = 0 /\ status[h] \in {"Free", "Pending"} /\ op[h] # "read"
        /\ \A p \in Posted(h) : p.n = 0

Told(h) == Story(h) /\ Ends(h) /\ Blank(h) /\ Inside(h) /\ Outside(h)

\* Who has closed does not come back; who was never there has not written.
OneConn == \A g, h \in Handles : conn[g] = conn[h] /\ conn[g] \in Conns => g = h
Silent ==
    \A c \in Conns \ shut :
        (\A h \in Handles : conn[h] # c) => written[c] = <<>> /\ heard[c] = <<>>

WholeInv == Whole /\ OneConn /\ Silent /\ \A h \in Handles : Told(h)

\* A step that leaves alone what Told speaks of.
Kept(h) ==
    /\ conn'[h] = conn[h] /\ data'[h] = data[h] /\ size'[h] = size[h]
    /\ status'[h] = status[h] /\ op'[h] = op[h] /\ Posted(h)' = Posted(h)
    /\ h \in ToSet(pipes') <=> h \in ToSet(pipes)
    /\ shut \subseteq shut'
    /\ conn[h] \in Conns => written'[conn[h]] = written[conn[h]] /\ heard'[conn[h]] = heard[conn[h]]

LEMMA KeptIsTold ==
    ASSUME NEW h \in Handles, Told(h), Kept(h) PROVE Told(h)'
<1>1. Story(h)'
  BY DEF Told, Kept, Story, Tells, Spoken
<1>2. Ends(h)'
  BY DEF Told, Kept, Ends
<1>3. Blank(h)' /\ Inside(h)' /\ Outside(h)'
  BY DEF Told, Kept, Blank, Inside, Outside
<1> QED BY <1>1, <1>2, <1>3 DEF Told

-----------------------------------------------------------------------------
(* The packets of a pipe *)

LEMMA PostedIsSlots ==
    ASSUME port \in Seq(Packets), NEW h
    PROVE  /\ Posted(h) = {} <=> Slots(port, h) = {}
           /\ Posted(h) \subseteq Packets
  BY DEF Posted, Slots, ToSet

LEMMA PostedAfterPost ==
    ASSUME port \in Seq(Packets), NEW p \in Packets, Post(p)
    PROVE  /\ \A h : h # p.key => Posted(h)' = Posted(h)
           /\ Posted(p.key) = {} => Posted(p.key)' = {p}
<1>1. ToSet(port') = ToSet(port) \cup {p}
  BY AppendRange DEF Post
<1> QED BY <1>1 DEF Posted

LEMMA PostedAfterTake ==
    ASSUME port \in Seq(Packets), NEW key, Take(key)
    PROVE  /\ \A h : h # key => Posted(h)' = Posted(h)
           /\ Head(port) \in Posted(key) /\ Head(port) \in Packets
           /\ Once(port, key) => Posted(key) = {Head(port)} /\ Posted(key)' = {}
<1>1. /\ port # <<>> /\ port' = Tail(port) /\ Head(port).key = key /\ Head(port) \in Packets
      /\ port' \in Seq(Packets)
  BY TakeRemoves DEF Take
<1>2. ToSet(port) = {Head(port)} \cup ToSet(port')
  BY <1>1, TailRange
<1>3. Once(port, key) => Slots(port', key) = {}
  BY TakeRemoves
<1>4. Once(port, key) => Posted(key)' = {}
  BY <1>1, <1>3 DEF Posted, Slots, ToSet
<1> QED BY <1>1, <1>2, <1>4 DEF Posted

\* What OneOutstanding says of the packets of a pipe.
LEMMA PostedBalanced ==
    ASSUME IInv, NEW h \in Handles
    PROVE  /\ Posted(h) \subseteq Packets
           /\ Posted(h) # {} => /\ h \in InUse /\ status[h] = "Pending" /\ op[h] = "none"
                                /\ Once(port, h)
           /\ op[h] # "none" => h \in InUse /\ status[h] = "Pending" /\ Posted(h) = {}
<1>1. Balanced(h) /\ port \in Seq(Packets)
  BY OutstandingIsBalanced DEF IInv, TypeOK
<1>2. Posted(h) = {} <=> Slots(port, h) = {}
  BY <1>1, PostedIsSlots
<1> QED BY <1>1, <1>2, PostedIsSlots DEF Balanced, Waits

\* Where ReadFile stops within a message, nothing of it is lost.
LEMMA TransferTells ==
    ASSUME TypeOK, InBuffer, NEW h \in Handles, NEW messages \in Seq(Nat), messages # <<>>,
           Transfer(h, messages)
    PROVE  \E p \in Packets, d \in Seq(Nat) :
              /\ Post(p) /\ p.key = h /\ p.result # "error"
              /\ data' = [data EXCEPT ![h] = d]
              /\ Begun(d, size[h] + p.n, p.result)
              /\ Coming(d, size[h] + p.n, p.result) = Coming(messages, size[h], "Readable")
<1> DEFINE s == Head(messages)
           rest == Tail(messages)
           room == buffer[h] - size[h]
<1>1. s \in Nat /\ rest \in Seq(Nat)
  OBVIOUS
<1>2. /\ size[h] \in Nat /\ buffer[h] \in Nat /\ size[h] <= buffer[h] /\ room \in Nat
      /\ data \in [Handles -> Seq(Nat)]
  BY DEF TypeOK, InBuffer
<1>3. Coming(messages, size[h], "Readable") = <<size[h] + s>> \o rest
  BY DEF Coming, Complete
<1> HIDE DEF s, rest, room
<1>4. CASE s <= room
  <2> DEFINE p == Packet(h, "ok", s)
  <2>1. Post(p) /\ data' = [data EXCEPT ![h] = rest]
    BY <1>4 DEF Transfer, s, rest, room
  <2>2. p \in Packets /\ p.key = h /\ p.result = "ok" /\ p.n = s
    BY <1>1 DEF Packet, Packets
  <2>3. Begun(rest, size[h] + s, "ok") /\ Coming(rest, size[h] + s, "ok") = <<size[h] + s>> \o rest
    BY DEF Begun, Coming, Complete
  <2> HIDE DEF p
  <2> QED BY <1>1, <1>3, <2>1, <2>2, <2>3
<1>5. CASE ~(s <= room)
  <2> DEFINE p == Packet(h, "more", room)
             d == <<s - room>> \o rest
  <2>1. Post(p) /\ data' = [data EXCEPT ![h] = d]
    BY <1>5 DEF Transfer, s, rest, room
  <2>2. p \in Packets /\ p.key = h /\ p.result = "more" /\ p.n = room
    BY <1>2 DEF Packet, Packets
  <2>3. s - room \in Nat /\ (size[h] + room) + (s - room) = size[h] + s
    <3>1. \A x, y, z \in Nat : ~(y <= z) => y - z \in Nat /\ (x + z) + (y - z) = x + y
      OBVIOUS
    <3> QED BY <1>1, <1>2, <1>5, <3>1
  <2>4. d \in Seq(Nat) /\ d # <<>> /\ Head(d) = s - room /\ Tail(d) = rest
    BY <1>1, <2>3, ConsHead
  <2> HIDE DEF d, p
  <2>5. Begun(d, size[h] + room, "more")
    BY <2>4 DEF Begun
  <2>6. Coming(d, size[h] + room, "more") = <<size[h] + s>> \o rest
    BY <2>3, <2>4 DEF Coming, Complete
  <2> QED BY <1>3, <2>1, <2>2, <2>4, <2>5, <2>6
<1> QED BY <1>4, <1>5

-----------------------------------------------------------------------------
(* Every step keeps what is told of a pipe *)

LEMMA MessageTypes ==
    ASSUME IInv, WholeInv, NEW h \in Handles
    PROVE  /\ data[h] \in Seq(Nat) /\ size[h] \in Nat /\ Told(h)
           /\ Posted(h) \subseteq Packets /\ \A p \in Posted(h) : p.n \in Nat
  BY PostedBalanced DEF IInv, WholeInv, TypeOK, Packets

\* How far a message is may be said in another way.
LEMMA TellsAnew ==
    ASSUME NEW c, NEW d \in Seq(Nat), NEW part \in Nat, NEW how, NEW new, Tells(c, d, part, how),
           part = 0 \/ (how \in Complete <=> new \in Complete)
    PROVE  Tells(c, d, part, new)
<1>1. CASE part = 0
  BY <1>1, ComingZero DEF Tells, Begun
<1>2. CASE how \in Complete <=> new \in Complete
  BY <1>2 DEF Tells, Begun, Coming
<1> QED BY <1>1, <1>2

\* Most steps touch one pipe.
LEMMA OneTouched ==
    ASSUME IInv, WholeInv, NEW h \in Handles, Told(h)',
           \A g \in Handles \ {h} : Kept(g)
    PROVE  \A g \in Handles : Told(g)'
  BY KeptIsTold DEF WholeInv

LEMMA ListenTold ==
    ASSUME IInv, WholeInv, Listen PROVE \A g \in Handles : Told(g)'
<1> USE NamesAssumption
<1>h. PICK h \in Handles : h = listening
  BY DEF Listen, IInv, TypeOK
<1>1. h \notin ToSet(pipes) /\ conn[h] \notin Conns /\ status[h] = "Free" /\ op[h] = "none"
  BY <1>h, PostedBalanced DEF Listen, IInv, TypeOK, Distinct
<1>2. /\ op' = [op EXCEPT ![h] = "listen"] /\ status' = [status EXCEPT ![h] = "Pending"]
      /\ UNCHANGED <<pipes, size, conn, data, port, shut, written, heard>>
  BY <1>h DEF Listen
<1>3. Posted(h) = {} /\ Told(h)
  BY <1>1, PostedBalanced, MessageTypes
<1>4. op'[h] = "listen" /\ status'[h] = "Pending" /\ Posted(h)' = {}
  BY <1>1, <1>2, <1>3 DEF IInv, TypeOK, Posted
<1>5. Told(h)'
  BY <1>1, <1>2, <1>3, <1>4 DEF Told, Story, Ends, Blank, Inside, Outside
<1>6. ASSUME NEW g \in Handles \ {h} PROVE Kept(g)
  BY <1>2, <1>6 DEF Kept, IInv, TypeOK, Posted
<1> QED BY <1>1, <1>5, <1>6, OneTouched

\* A pipe of the listening hub begins with what was written into it before.
LEMMA AcceptedTold ==
    ASSUME IInv, WholeInv, NEW h \in Handles, h = listening, Accept, conn[h] \in Conns,
           UNCHANGED <<size, conn, data, op, shut, written, heard>>,
           op[h] = "none", Posted(h)' = {},
           \A g \in Handles \ {h} : Posted(g)' = Posted(g)
    PROVE  \A g \in Handles : Told(g)'
<1> USE NamesAssumption
<1>1. /\ h \notin ToSet(pipes) /\ ToSet(pipes') = ToSet(pipes) \cup {h}
      /\ status' = [status EXCEPT ![h] = "Readable"]
  BY AcceptAdds
<1>2. data[h] \in Seq(Nat) /\ Told(h)
  BY MessageTypes
<1>3. size[h] = 0 /\ status'[h] = "Readable"
  BY <1>1, <1>2 DEF Told, Outside, IInv, TypeOK
<1>4. Tells(conn[h], data[h], 0, "Readable")
  <2>1. CASE Posted(h) = {}
    <3>1. Tells(conn[h], data[h], 0, status[h])
      BY <1>2, <1>3, <2>1 DEF Told, Story
    <3> QED BY <1>2, <3>1, TellsAnew
  <2>2. ASSUME NEW p \in Posted(h) PROVE Tells(conn[h], data[h], 0, "Readable")
    <3>1. p.n = 0
      BY <1>1, <1>2, <2>2 DEF Told, Outside
    <3>2. Tells(conn[h], data[h], 0, p.result)
      <4>1. Tells(conn[h], data[h], size[h] + p.n, p.result)
        BY <1>2, <2>2 DEF Told, Story
      <4>2. size[h] + p.n = 0
        BY <1>3, <3>1
      <4> QED BY <4>1, <4>2
    <3> QED BY <1>2, <3>2, TellsAnew
  <2> QED BY <2>1, <2>2
<1>5. Story(h)'
  BY <1>3, <1>4 DEF Story, Tells, Spoken
<1>6. Told(h)'
  BY <1>1, <1>3, <1>5 DEF Told, Ends, Blank, Inside, Outside
<1>7. ASSUME NEW g \in Handles \ {h} PROVE Kept(g)
  BY <1>1, <1>7 DEF Kept, IInv, TypeOK
<1> QED BY <1>6, <1>7, OneTouched

LEMMA ListenConnectedTold ==
    ASSUME IInv, WholeInv, ListenConnected PROVE \A g \in Handles : Told(g)'
<1>1. PICK h \in Handles : h = listening
  BY DEF ListenConnected, IInv, TypeOK
<1>2. /\ Accept /\ conn[h] \in Conns /\ status[h] = "Free"
      /\ UNCHANGED <<size, conn, data, op, port, shut, written, heard>>
  BY <1>1 DEF ListenConnected, kernelVars
<1>3. Posted(h) = {} /\ op[h] = "none"
  BY <1>2, PostedBalanced DEF IInv, TypeOK
<1>4. \A g \in Handles : Posted(g)' = Posted(g)
  BY <1>2 DEF Posted
<1> QED BY <1>1, <1>2, <1>3, <1>4, AcceptedTold

LEMMA ConnectedTold ==
    ASSUME IInv, WholeInv, Connected PROVE \A g \in Handles : Told(g)'
<1>1. PICK h \in Handles : h = listening
  BY DEF Connected, IInv, TypeOK
<1>2. /\ Take(h) /\ Accept /\ UNCHANGED <<size, conn, data, op, shut, written, heard>>
  BY <1>1 DEF Connected, Take
<1>3. /\ Posted(h) # {} /\ \A g \in Handles \ {h} : Posted(g)' = Posted(g)
      /\ Once(port, h) => Posted(h)' = {}
  BY <1>2, PostedAfterTake DEF IInv, TypeOK
<1>4. op[h] = "none" /\ Once(port, h)
  BY <1>3, PostedBalanced
<1>5. conn[h] \in Conns
  BY <1>3, MessageTypes DEF Told, Blank
<1> QED BY <1>1, <1>2, <1>3, <1>4, <1>5, AcceptedTold

\* An instance that is closed is as new.
LEMMA ReleasedTold ==
    ASSUME IInv, WholeInv, NEW h \in Handles, Release(h), status[h] # "Pending",
           h \notin ToSet(pipes'), ToSet(pipes') \cup {h} = ToSet(pipes) \cup {h},
           UNCHANGED <<op, port, shut, written, heard>>
    PROVE  \A g \in Handles : Told(g)'
<1> USE NamesAssumption
<1>1. Posted(h) = {} /\ op[h] = "none"
  BY PostedBalanced DEF IInv, TypeOK
<1>2. /\ status' = [status EXCEPT ![h] = "Free"] /\ size' = [size EXCEPT ![h] = 0]
      /\ conn' = [conn EXCEPT ![h] = NoConn] /\ data' = [data EXCEPT ![h] = <<>>]
  BY DEF Release
<1>3. status'[h] = "Free" /\ size'[h] = 0 /\ conn'[h] = NoConn /\ data'[h] = <<>>
  BY <1>2 DEF IInv, TypeOK
<1>4. \A g : Posted(g)' = Posted(g)
  BY DEF Posted
<1>5. Told(h)'
  BY <1>1, <1>3, <1>4 DEF Told, Story, Ends, Blank, Inside, Outside
<1>6. ASSUME NEW g \in Handles \ {h} PROVE Kept(g)
  <2>1. g \in ToSet(pipes') <=> g \in ToSet(pipes)
    BY <1>6
  <2> QED BY <1>2, <1>4, <1>6, <2>1 DEF Kept, IInv, TypeOK
<1> QED BY <1>5, <1>6, OneTouched

LEMMA ListenFailedTold ==
    ASSUME IInv, WholeInv, ListenFailed PROVE \A g \in Handles : Told(g)'
<1>1. PICK h \in Handles : h = listening
  BY DEF ListenFailed, IInv, TypeOK
<1>2. /\ Release(h) /\ status[h] # "Pending" /\ h \notin ToSet(pipes)
      /\ UNCHANGED <<pipes, op, port, shut, written, heard>>
  BY <1>1 DEF ListenFailed, IInv, Distinct
<1> QED BY <1>1, <1>2, ReleasedTold

LEMMA ReadOfflineTold ==
    ASSUME IInv, WholeInv, ReadOffline PROVE \A g \in Handles : Told(g)'
<1>1. PICK h \in Handles : h = pipes[at]
  BY PipeAt DEF ReadOffline
<1>2. /\ Release(h) /\ status[h] # "Pending" /\ ToSet(pipes') = ToSet(pipes) \ {h}
  BY <1>1, OfflineLeaves
<1>3. UNCHANGED <<op, port, shut, written, heard>>
  BY DEF ReadOffline
<1> QED BY <1>2, <1>3, ReleasedTold

\* What recv returns is the first message that was left.
LEMMA ReadReadyTold ==
    ASSUME IInv, WholeInv, ReadReady PROVE \A g \in Handles : Told(g)'
<1> USE NamesAssumption
<1>1. PICK h \in Handles : h = pipes[at] /\ h \in ToSet(pipes)
  BY PipeAt DEF ReadReady
<1>2. /\ status[h] = "Ready" /\ size[h] > 0
      /\ status' = [status EXCEPT ![h] = "Readable"] /\ size' = [size EXCEPT ![h] = 0]
      /\ heard' = [heard EXCEPT ![conn[h]] = Append(@, size[h])]
      /\ UNCHANGED <<pipes, conn, data, op, port, shut, written>>
  BY <1>1 DEF ReadReady, kernelVars
<1>3. /\ Posted(h) = {} /\ op[h] = "none" /\ Told(h) /\ conn[h] \in Conns
      /\ data[h] \in Seq(Nat) /\ size[h] \in Nat /\ heard[conn[h]] \in Seq(Nat)
  BY <1>1, <1>2, PostedBalanced, MessageTypes DEF Told, Inside, IInv, TypeOK
<1>4. /\ status'[h] = "Readable" /\ size'[h] = 0 /\ Posted(h)' = {}
      /\ heard'[conn[h]] = Append(heard[conn[h]], size[h])
  BY <1>2, <1>3 DEF IInv, TypeOK, Posted
<1>5. Spoken(conn[h]) = Append(heard[conn[h]], size[h]) \o NonZero(data[h])
  <2>1. Tells(conn[h], data[h], size[h], "Ready")
    BY <1>2, <1>3 DEF Told, Story
  <2>2. size[h] \in Nat \ {0}
    BY <1>2, <1>3
  <2>3. heard[conn[h]] \o NonZero(Coming(data[h], size[h], "Ready")) =
            Append(heard[conn[h]], size[h]) \o NonZero(data[h])
    BY <1>3, <2>2, ComingTaken
  <2> QED BY <2>1, <2>3 DEF Tells
<1>6. Begun(data[h], 0, "Readable") /\ NonZero(Coming(data[h], 0, "Readable")) = NonZero(data[h])
  BY <1>3, ComingZero DEF Begun
<1>7. Story(h)'
  BY <1>2, <1>4, <1>5, <1>6 DEF Story, Tells, Spoken
<1>8. Told(h)'
  BY <1>1, <1>2, <1>3, <1>4, <1>7 DEF Told, Ends, Blank, Inside, Outside
<1>9. ASSUME NEW g \in Handles \ {h} PROVE Kept(g)
  <2>1. conn[g] \in Conns => conn[g] # conn[h]
    BY <1>9 DEF WholeInv, OneConn
  <2> QED BY <1>2, <1>3, <1>9, <2>1 DEF Kept, IInv, TypeOK, Posted
<1> QED BY <1>8, <1>9, OneTouched

LEMMA ReadTold ==
    ASSUME IInv, WholeInv, Read PROVE \A g \in Handles : Told(g)'
<1> USE NamesAssumption
<1>1. PICK h \in Handles : h = pipes[at] /\ h \in ToSet(pipes)
  BY PipeAt DEF Read
<1>2. /\ MayRead(h) /\ status' = [status EXCEPT ![h] = "Pending"]
      /\ IF data[h] # <<>> THEN Transfer(h, data[h]) /\ UNCHANGED op
         ELSE op' = [op EXCEPT ![h] = "read"] /\ UNCHANGED <<data, port>>
      /\ UNCHANGED <<pipes, size, conn, shut, written, heard>>
  BY <1>1 DEF Read
<1>3. /\ Posted(h) = {} /\ op[h] = "none" /\ Told(h) /\ conn[h] \in Conns
      /\ data[h] \in Seq(Nat) /\ size[h] \in Nat
  BY <1>1, <1>2, PostedBalanced, MessageTypes DEF MayRead, Told, Inside, IInv, TypeOK
<1>4. Tells(conn[h], data[h], size[h], "Readable")
  <2>1. Tells(conn[h], data[h], size[h], status[h])
    BY <1>3 DEF Told, Story
  <2>2. size[h] = 0 \/ (status[h] \in Complete <=> "Readable" \in Complete)
    BY <1>2 DEF MayRead, Complete
  <2> QED BY <1>3, <2>1, <2>2, TellsAnew
<1>5. status'[h] = "Pending" /\ \A g \in Handles \ {h} : status'[g] = status[g]
  BY <1>2 DEF IInv, TypeOK
<1>6. CASE data[h] # <<>>
  <2>1. PICK p \in Packets, d \in Seq(Nat) :
           /\ Post(p) /\ p.key = h /\ p.result # "error"
           /\ data' = [data EXCEPT ![h] = d]
           /\ Begun(d, size[h] + p.n, p.result)
           /\ Coming(d, size[h] + p.n, p.result) = Coming(data[h], size[h], "Readable")
    BY <1>2, <1>3, <1>6, TransferTells DEF IInv
  <2>2. Posted(h)' = {p} /\ \A g : g # h => Posted(g)' = Posted(g)
    BY <1>3, <2>1, PostedAfterPost DEF IInv, TypeOK
  <2>3. data'[h] = d /\ op' = op
    BY <1>2, <1>6, <2>1 DEF IInv, TypeOK
  <2>4. Story(h)'
    BY <1>2, <1>4, <2>1, <2>2, <2>3 DEF Story, Tells, Spoken
  <2>5. Told(h)'
    BY <1>1, <1>2, <1>3, <1>5, <2>1, <2>2, <2>3, <2>4 DEF Told, Ends, Blank, Inside, Outside
  <2>6. ASSUME NEW g \in Handles \ {h} PROVE Kept(g)
    BY <1>2, <1>5, <2>1, <2>2, <2>3, <2>6 DEF Kept, IInv, TypeOK
  <2> QED BY <2>5, <2>6, OneTouched
<1>7. CASE data[h] = <<>>
  <2>1. op' = [op EXCEPT ![h] = "read"] /\ UNCHANGED <<data, port>>
    BY <1>2, <1>7
  <2>2. \A g : Posted(g)' = Posted(g)
    BY <2>1 DEF Posted
  <2>3. Tells(conn[h], data[h], size[h], "Pending")
    BY <1>4 DEF Tells, Begun, Coming, Complete
  <2>4. Story(h)'
    BY <1>2, <1>3, <1>5, <2>1, <2>2, <2>3 DEF Story, Tells, Spoken
  <2>5. Told(h)'
    BY <1>1, <1>2, <1>3, <1>5, <1>7, <2>1, <2>2, <2>4 DEF Told, Ends, Blank, Inside, Outside
  <2>6. ASSUME NEW g \in Handles \ {h} PROVE Kept(g)
    BY <1>2, <1>5, <2>1, <2>2, <2>6 DEF Kept, IInv, TypeOK
  <2> QED BY <2>5, <2>6, OneTouched
<1> QED BY <1>6, <1>7

LEMMA ReadEndsTold ==
    ASSUME IInv, WholeInv, NEW h \in Handles, ReadEnds(h) PROVE \A g \in Handles : Told(g)'
<1> USE NamesAssumption
<1>1. PICK p : p = Head(port)
  OBVIOUS
<1>2. /\ Take(h) /\ h \in ToSet(pipes)
      /\ size' = [size EXCEPT ![h] = IF p.result = "error" THEN @ ELSE @ + p.n]
      /\ status' = [status EXCEPT ![h] = CASE p.result = "ok" -> "Ready"
                                           [] p.result = "more" -> "Readable"
                                           [] p.result = "error" -> "Offline"]
      /\ UNCHANGED <<pipes, conn, data, op, shut, written, heard>>
  BY <1>1 DEF ReadEnds, Take
<1>3. /\ p \in Posted(h) /\ p \in Packets /\ \A g : g # h => Posted(g)' = Posted(g)
      /\ Once(port, h) => Posted(h) = {p} /\ Posted(h)' = {}
  BY <1>1, <1>2, PostedAfterTake DEF IInv, TypeOK
<1>4. Once(port, h) /\ op[h] = "none" /\ Posted(h)' = {}
  BY <1>3, PostedBalanced
<1>5. /\ Told(h) /\ data[h] \in Seq(Nat) /\ size[h] \in Nat /\ p.n \in Nat
      /\ p.result \in {"ok", "more", "error"} /\ conn[h] \in Conns
  BY <1>2, <1>3, MessageTypes DEF Told, Inside, Packets
<1>6. Tells(conn[h], data[h], size[h] + p.n, p.result)
  BY <1>3, <1>5 DEF Told, Story
<1>7. p.result = "error" => p.n = 0 /\ data[h] = <<>> /\ conn[h] \in shut
  BY <1>3, <1>5 DEF Told, Ends
<1>8. size'[h] = size[h] + p.n
  BY <1>2, <1>5, <1>7 DEF IInv, TypeOK
<1>9. /\ p.result = "ok" => status'[h] = "Ready"
      /\ p.result = "more" => status'[h] = "Readable"
      /\ p.result = "error" => status'[h] = "Offline"
  BY <1>2 DEF IInv, TypeOK
<1>10. Tells(conn[h], data[h], size[h] + p.n, status'[h])
  BY <1>5, <1>6, <1>9 DEF Tells, Begun, Coming, Complete
<1>11. Story(h)'
  BY <1>2, <1>4, <1>8, <1>10 DEF Story, Tells, Spoken
<1>12. Ends(h)'
  BY <1>2, <1>4, <1>5, <1>7, <1>9 DEF Ends
<1>13. Told(h)'
  BY <1>2, <1>5, <1>11, <1>12 DEF Told, Blank, Inside, Outside
<1>14. ASSUME NEW g \in Handles \ {h} PROVE Kept(g)
  BY <1>2, <1>3, <1>14 DEF Kept, IInv, TypeOK
<1> QED BY <1>13, <1>14, OneTouched

\* Who connects has written nothing, and neither has anybody into this instance.
LEMMA ConnectTold ==
    ASSUME IInv, WholeInv, NEW c \in Conns, Connect(c) PROVE \A g \in Handles : Told(g)'
<1> USE NamesAssumption
<1>1. PICK h \in Handles : h = listening
  BY DEF Connect, IInv, TypeOK
<1>2. /\ conn[h] = NoConn /\ c \notin shut /\ \A g \in Handles : conn[g] # c
      /\ conn' = [conn EXCEPT ![h] = c]
      /\ IF op[h] = "listen"
         THEN Post(Packet(h, "ok", 0)) /\ op' = [op EXCEPT ![h] = "none"]
         ELSE UNCHANGED <<port, op>>
      /\ UNCHANGED <<pipes, status, size, data, shut, written, heard>>
  BY <1>1 DEF Connect, hubVars
<1>3. h \notin ToSet(pipes) /\ Told(h)
  BY <1>1, MessageTypes DEF IInv, Distinct
<1>4. /\ data[h] = <<>> /\ size[h] = 0 /\ Posted(h) = {}
      /\ status[h] \in {"Free", "Pending"} /\ op[h] # "read"
  BY <1>2, <1>3 DEF Told, Blank, Outside
<1>5. written[c] = <<>> /\ heard[c] = <<>>
  BY <1>2 DEF WholeInv, Silent
<1>6. Spoken(c) = <<>>
  BY <1>5, FilterEmpty DEF Spoken
<1>7. \A how : Tells(c, <<>>, 0, how)
  <2>1. ASSUME NEW how PROVE NonZero(Coming(<<>>, 0, how)) = <<>>
    <3>1. <<>> \in Seq(Nat)
      OBVIOUS
    <3>2. NonZero(Coming(<<>>, 0, how)) = NonZero(<<>>)
      BY <3>1, ComingZero
    <3> QED BY <3>2, FilterEmpty DEF NonZero
  <2>2. <<>> \o <<>> = <<>>
    OBVIOUS
  <2> QED BY <1>5, <1>6, <2>1, <2>2 DEF Tells, Begun
<1>8. /\ conn'[h] = c /\ op'[h] # "read"
      /\ \A g \in Handles \ {h} : conn'[g] = conn[g] /\ op'[g] = op[g]
  BY <1>2, <1>4 DEF IInv, TypeOK
<1>9. /\ Posted(h)' \subseteq {Packet(h, "ok", 0)}
      /\ \A g : g # h => Posted(g)' = Posted(g)
  <2>1. CASE op[h] = "listen"
    <3>1. Packet(h, "ok", 0) \in Packets /\ Packet(h, "ok", 0).key = h
      BY DEF Packet, Packets
    <3> QED BY <1>2, <1>4, <2>1, <3>1, PostedAfterPost DEF IInv, TypeOK
  <2>2. CASE op[h] # "listen"
    BY <1>2, <1>4, <2>2 DEF Posted
  <2> QED BY <2>1, <2>2
<1>10. Packet(h, "ok", 0).n = 0 /\ Packet(h, "ok", 0).result = "ok"
  BY DEF Packet
<1>11. Story(h)'
  <2>1. \A p \in Posted(h)' : size[h] + p.n = 0
    BY <1>4, <1>9, <1>10
  <2> QED BY <1>2, <1>4, <1>7, <1>8, <2>1 DEF Story, Tells, Spoken
<1>12. Told(h)'
  BY <1>2, <1>3, <1>4, <1>8, <1>9, <1>10, <1>11 DEF Told, Ends, Blank, Inside, Outside
<1>13. ASSUME NEW g \in Handles \ {h} PROVE Kept(g)
  BY <1>2, <1>8, <1>9, <1>13 DEF Kept
<1> QED BY <1>12, <1>13, OneTouched

\* One message more, for the writer and in the pipe.
LEMMA TellsAppend ==
    ASSUME TypeOK, NEW c \in Conns, NEW s \in Sizes, written'[c] = Append(written[c], s),
           heard'[c] = heard[c], NEW d \in Seq(Nat), NEW part \in Nat, NEW how, Tells(c, d, part, how)
    PROVE  /\ Begun(Append(d, s), part, how)
           /\ Spoken(c)' = heard'[c] \o NonZero(Coming(Append(d, s), part, how))
<1> USE NumbersAssumption
<1> DEFINE e == Coming(d, part, how)
<1>1. /\ written[c] \in Seq(Sizes) /\ heard[c] \in Seq(Nat) /\ s \in Nat
      /\ Begun(d, part, how) /\ Spoken(c) = heard[c] \o NonZero(e)
  BY DEF TypeOK, Tells
<1>2. /\ Begun(Append(d, s), part, how) /\ Coming(Append(d, s), part, how) = Append(e, s)
      /\ e \in Seq(Nat)
  <2>1. e \in Seq(Nat)
    BY ComingType
  <2>2. Begun(Append(d, s), part, how) /\ Coming(Append(d, s), part, how) = Append(e, s)
    BY <1>1, ComingAppend
  <2> QED BY <2>1, <2>2
<1> HIDE DEF e
<1>3. Spoken(c)' = IF s # 0 THEN Append(Spoken(c), s) ELSE Spoken(c)
  <2>1. Spoken(c)' = Filter(Append(written[c], s), Sizes \ {0})
    BY DEF Spoken
  <2>2. Filter(Append(written[c], s), Sizes \ {0}) =
            IF s \in Sizes \ {0} THEN Append(Filter(written[c], Sizes \ {0}), s)
            ELSE Filter(written[c], Sizes \ {0})
    <3>1. \A q \in Seq(Sizes), a \in Sizes :
             Filter(Append(q, a), Sizes \ {0}) =
                 IF a \in Sizes \ {0} THEN Append(Filter(q, Sizes \ {0}), a)
                 ELSE Filter(q, Sizes \ {0})
      BY FilterAppend
    <3> QED BY <1>1, <3>1
  <2> QED BY <2>1, <2>2 DEF Spoken
<1>4. NonZero(Append(e, s)) = IF s # 0 THEN Append(NonZero(e), s) ELSE NonZero(e)
  <2> DEFINE P == Nat \ {0}
  <2>1. s \in P <=> s # 0
    BY <1>1
  <2> HIDE DEF P
  <2>2. \A q \in Seq(Nat), a \in Nat :
           Filter(Append(q, a), P) = IF a \in P THEN Append(Filter(q, P), a) ELSE Filter(q, P)
    BY FilterAppend
  <2>3. Filter(Append(e, s), P) = IF s # 0 THEN Append(Filter(e, P), s) ELSE Filter(e, P)
    BY <1>1, <1>2, <2>1, <2>2
  <2> QED BY <2>3 DEF NonZero, P
<1>5. NonZero(e) \in Seq(Nat)
  BY <1>2, FilterType DEF NonZero
<1>6. \A q, r \in Seq(Nat) : Append(q \o r, s) = q \o Append(r, s)
  <2> SUFFICES ASSUME NEW q \in Seq(Nat), NEW r \in Seq(Nat)
               PROVE  Append(q \o r, s) = q \o Append(r, s)
    OBVIOUS
  <2>1. q \o r \in Seq(Nat) /\ <<s>> \in Seq(Nat)
    BY <1>1, ConcatProperties
  <2>2. Append(q \o r, s) = (q \o r) \o <<s>> /\ Append(r, s) = r \o <<s>>
    BY <1>1, <2>1, AppendIsConcat
  <2> QED BY <2>1, <2>2, ConcatAssociative
<1>7. s # 0 => Append(heard[c] \o NonZero(e), s) = heard[c] \o Append(NonZero(e), s)
  BY <1>1, <1>5, <1>6
<1> QED BY <1>1, <1>2, <1>3, <1>4, <1>7

LEMMA WriteTold ==
    ASSUME IInv, WholeInv, NEW c \in Conns, Write(c) PROVE \A g \in Handles : Told(g)'
<1> USE NamesAssumption, NumbersAssumption
<1>1. PICK h \in Handles, s \in Sizes :
         /\ conn[h] = c /\ c \notin shut
         /\ written' = [written EXCEPT ![c] = Append(@, s)]
         /\ IF op[h] = "read"
            THEN Transfer(h, <<s>>) /\ op' = [op EXCEPT ![h] = "none"]
            ELSE data' = [data EXCEPT ![h] = Append(@, s)] /\ UNCHANGED <<port, op>>
         /\ UNCHANGED <<pipes, status, size, conn, shut, heard>>
  BY DEF Write, hubVars
<1>2. /\ Told(h) /\ data[h] \in Seq(Nat) /\ size[h] \in Nat
      /\ \A p \in Posted(h) : size[h] + p.n \in Nat
  BY MessageTypes
<1>3. written'[c] = Append(written[c], s) /\ heard'[c] = heard[c] /\ TypeOK
  BY <1>1 DEF IInv, TypeOK
<1>4. /\ status[h] # "Offline" /\ op[h] = "read" => data[h] = <<>>
      /\ \A p \in Posted(h) : p.result # "error"
  BY <1>1, <1>2 DEF Told, Ends
<1>5. /\ Posted(h) = {} => Tells(c, data[h], size[h], status[h])
      /\ \A p \in Posted(h) : Tells(c, data[h], size[h] + p.n, p.result)
  BY <1>1, <1>2 DEF Told, Story
<1>6. ASSUME NEW g \in Handles \ {h}, data'[g] = data[g], op'[g] = op[g], Posted(g)' = Posted(g)
      PROVE  Kept(g)
  <2>1. conn[g] \in Conns => conn[g] # c
    BY <1>1, <1>6 DEF WholeInv, OneConn
  <2> QED BY <1>1, <1>6, <2>1 DEF Kept, IInv, TypeOK
<1>7. CASE op[h] # "read"
  <2>1. /\ data'[h] = Append(data[h], s) /\ UNCHANGED op
        /\ \A g \in Handles \ {h} : data'[g] = data[g]
        /\ \A g : Posted(g)' = Posted(g)
    BY <1>1, <1>7 DEF IInv, TypeOK, Posted
  <2>2. Posted(h) = {} => Tells(c, data[h], size[h], status[h])'
    <3> SUFFICES ASSUME Posted(h) = {} PROVE Tells(c, data[h], size[h], status[h])'
      OBVIOUS
    <3>1. /\ Begun(Append(data[h], s), size[h], status[h])
          /\ Spoken(c)' = heard'[c] \o NonZero(Coming(Append(data[h], s), size[h], status[h]))
      BY <1>2, <1>3, <1>5, TellsAppend
    <3> QED BY <1>1, <2>1, <3>1 DEF Tells
  <2>3. ASSUME NEW p \in Posted(h) PROVE Tells(c, data[h], size[h] + p.n, p.result)'
    <3>1. /\ Begun(Append(data[h], s), size[h] + p.n, p.result)
          /\ Spoken(c)' = heard'[c] \o NonZero(Coming(Append(data[h], s), size[h] + p.n, p.result))
      BY <1>2, <1>3, <1>5, <2>3, TellsAppend
    <3> QED BY <1>1, <2>1, <3>1 DEF Tells
  <2>4. Story(h)'
    BY <1>1, <2>1, <2>2, <2>3 DEF Story
  <2>5. Told(h)'
    BY <1>1, <1>2, <1>4, <1>7, <2>1, <2>4 DEF Told, Ends, Blank, Inside, Outside
  <2> QED BY <1>6, <2>1, <2>5, OneTouched
<1>8. CASE op[h] = "read"
  <2>1. /\ Posted(h) = {} /\ status[h] = "Pending" /\ data[h] = <<>> /\ h \in ToSet(pipes)
        /\ <<s>> = Append(<<>>, s) /\ <<s>> \in Seq(Nat) /\ <<s>> # <<>>
    BY <1>2, <1>4, <1>8, PostedBalanced DEF Told, Outside
  <2>2. PICK p \in Packets, d \in Seq(Nat) :
           /\ Post(p) /\ p.key = h /\ p.result # "error"
           /\ data' = [data EXCEPT ![h] = d]
           /\ Begun(d, size[h] + p.n, p.result)
           /\ Coming(d, size[h] + p.n, p.result) = Coming(<<s>>, size[h], "Readable")
    BY <1>1, <1>8, <2>1, TransferTells DEF IInv
  <2>3. Posted(h)' = {p} /\ \A g : g # h => Posted(g)' = Posted(g)
    BY <2>1, <2>2, PostedAfterPost DEF IInv, TypeOK
  <2>4. /\ data'[h] = d /\ op'[h] = "none"
        /\ \A g \in Handles \ {h} : data'[g] = data[g] /\ op'[g] = op[g]
    BY <1>1, <1>8, <2>2 DEF IInv, TypeOK
  <2>5. Tells(c, <<>>, size[h], "Readable")
    BY <1>5, <2>1 DEF Tells, Begun, Coming, Complete
  <2>6. Spoken(c)' = heard'[c] \o NonZero(Coming(<<s>>, size[h], "Readable"))
    <3>1. <<>> \in Seq(Nat)
      OBVIOUS
    <3>2. Spoken(c)' = heard'[c] \o NonZero(Coming(Append(<<>>, s), size[h], "Readable"))
      BY <1>2, <1>3, <2>5, <3>1, TellsAppend
    <3> QED BY <2>1, <3>2
  <2>7. Story(h)'
    BY <1>1, <2>2, <2>3, <2>4, <2>6 DEF Story, Tells
  <2>8. Told(h)'
    BY <1>1, <1>4, <2>1, <2>2, <2>3, <2>4, <2>7 DEF Told, Ends, Blank, Inside, Outside
  <2> QED BY <1>6, <2>3, <2>4, <2>8, OneTouched
<1> QED BY <1>7, <1>8

LEMMA ShutTold ==
    ASSUME IInv, WholeInv, NEW c \in Conns, Shut(c) PROVE \A g \in Handles : Told(g)'
<1> USE NamesAssumption
<1>1. PICK h \in Handles :
         /\ conn[h] = c /\ shut' = shut \cup {c}
         /\ IF op[h] = "read"
            THEN Post(Packet(h, "error", 0)) /\ op' = [op EXCEPT ![h] = "none"]
            ELSE UNCHANGED <<port, op>>
         /\ UNCHANGED <<pipes, status, size, conn, data, written, heard>>
  BY DEF Shut, hubVars
<1>2. Told(h) /\ size[h] \in Nat
  BY MessageTypes
<1>3. CASE op[h] # "read"
  <2>1. UNCHANGED <<port, op>> /\ \A g : Posted(g)' = Posted(g)
    BY <1>1, <1>3 DEF Posted
  <2>2. ASSUME NEW g \in Handles PROVE Kept(g)
    BY <1>1, <2>1, <2>2 DEF Kept
  <2> QED BY <2>2, KeptIsTold DEF WholeInv
<1>4. CASE op[h] = "read"
  <2> DEFINE p == Packet(h, "error", 0)
  <2>1. p \in Packets /\ p.key = h /\ p.n = 0 /\ p.result = "error" /\ Post(p)
    BY <1>1, <1>4 DEF Packet, Packets
  <2> HIDE DEF p
  <2>2. /\ Posted(h) = {} /\ status[h] = "Pending" /\ data[h] = <<>> /\ h \in ToSet(pipes)
    BY <1>2, <1>4, PostedBalanced DEF Told, Ends, Outside
  <2>3. Posted(h)' = {p} /\ \A g : g # h => Posted(g)' = Posted(g)
    BY <2>1, <2>2, PostedAfterPost DEF IInv, TypeOK
  <2>4. op'[h] = "none" /\ \A g \in Handles \ {h} : op'[g] = op[g]
    BY <1>1, <1>4 DEF IInv, TypeOK
  <2>5. Tells(c, data[h], size[h], "error") /\ size[h] + 0 = size[h]
    BY <1>1, <1>2, <2>2 DEF Told, Story, Tells, Begun, Coming, Complete
  <2>6. Story(h)'
    BY <1>1, <2>1, <2>3, <2>5 DEF Story, Tells, Spoken
  <2>7. Told(h)'
    BY <1>1, <2>1, <2>2, <2>3, <2>4, <2>6 DEF Told, Ends, Blank, Inside, Outside
  <2>8. ASSUME NEW g \in Handles \ {h} PROVE Kept(g)
    BY <1>1, <2>3, <2>4, <2>8 DEF Kept
  <2> QED BY <2>7, <2>8, OneTouched
<1> QED BY <1>3, <1>4

LEMMA ToldKept ==
    ASSUME IInv, WholeInv, [Next]_vars PROVE \A g \in Handles : Told(g)'
<1> USE NamesAssumption
<1>s. ASSUME UNCHANGED <<pipes, status, size, conn, data, op, shut, written, heard>>,
             \A g \in Handles : Posted(g)' = Posted(g)
      PROVE  \A g \in Handles : Told(g)'
  <2>1. \A g \in Handles : Kept(g)
    BY <1>s DEF Kept
  <2> QED BY <2>1, KeptIsTold DEF WholeInv
<1>1. CASE Listened \/ TryRecv \/ TryRecvEmpty
  BY <1>s, <1>1 DEF Listened, TryRecv, TryRecvEmpty, kernelVars, Posted
<1>2. CASE ReadPending \/ AllRead \/ Timeout
  BY <1>s, <1>2 DEF ReadPending, AllRead, Timeout, kernelVars, Posted
<1>3. CASE OwnDrop \/ UNCHANGED vars \/ \E t \in Own : OwnSend(t)
  BY <1>s, <1>3 DEF OwnDrop, OwnSend, vars, hubVars, kernelVars, Posted
<1>4. CASE Woken
  BY <1>s, <1>4, PostedAfterTake DEF Woken, Take, IInv, TypeOK
<1>5. ASSUME NEW t \in Own, Wake(t) PROVE \A g \in Handles : Told(g)'
  <2>1. Packet(Waker, "ok", 0) \in Packets /\ Packet(Waker, "ok", 0).key = Waker
    BY DEF Packet, Packets
  <2> QED BY <1>s, <1>5, <2>1, PostedAfterPost DEF Wake, hubVars, IInv, TypeOK
<1>6. (\E c \in Conns : Connect(c) \/ Write(c) \/ Shut(c)) => \A g \in Handles : Told(g)'
  BY ConnectTold, WriteTold, ShutTold
<1>7. Listen \/ ListenConnected \/ ListenFailed \/ Connected => \A g \in Handles : Told(g)'
  BY ListenTold, ListenConnectedTold, ListenFailedTold, ConnectedTold
<1>8. ReadReady \/ Read \/ ReadOffline \/ (\E h \in Handles : ReadEnds(h))
         => \A g \in Handles : Told(g)'
  BY ReadReadyTold, ReadTold, ReadOfflineTold, ReadEndsTold
<1> QED BY <1>1, <1>2, <1>3, <1>4, <1>5, <1>6, <1>7, <1>8 DEF Next, Recv

-----------------------------------------------------------------------------
(* Every step keeps what is known of the writers *)

\* Whose pipe is closed has closed it; who is new is not there yet; only of who is
\* there something is written or returned.
LEMMA WritersStep ==
    ASSUME IInv, WholeInv, [Next]_vars
    PROVE  /\ shut \subseteq shut'
           /\ \A h \in Handles :
                 \/ conn'[h] = conn[h]
                 \/ conn[h] \in shut /\ conn'[h] = NoConn
                 \/ /\ \A g \in Handles : conn[g] # conn'[h]
                    /\ \A g \in Handles \ {h} : conn'[g] = conn[g]
                    /\ conn[h] = NoConn
           /\ \A c \in Conns :
                 \/ written'[c] = written[c] /\ heard'[c] = heard[c]
                 \/ \E h \in Handles : conn'[h] = c
<1> USE NamesAssumption
<1> DEFINE Goal ==
           /\ shut \subseteq shut'
           /\ \A h \in Handles :
                 \/ conn'[h] = conn[h]
                 \/ conn[h] \in shut /\ conn'[h] = NoConn
                 \/ /\ \A g \in Handles : conn[g] # conn'[h]
                    /\ \A g \in Handles \ {h} : conn'[g] = conn[g]
                    /\ conn[h] = NoConn
           /\ \A c \in Conns :
                 \/ written'[c] = written[c] /\ heard'[c] = heard[c]
                 \/ \E h \in Handles : conn'[h] = c
<1>t. /\ conn \in [Handles -> Conns \cup {NoConn}]
      /\ written \in [Conns -> Seq(Sizes)] /\ heard \in [Conns -> Seq(Nat)]
  BY DEF IInv, TypeOK
<1>s. ASSUME UNCHANGED <<conn, written, heard>>, shut \subseteq shut' PROVE Goal
  BY <1>s
<1>r. ASSUME UNCHANGED <<shut, written, heard>>, NEW h \in Handles, Release(h), conn[h] \in shut
      PROVE  Goal
  <2>1. conn'[h] = NoConn /\ \A g \in Handles \ {h} : conn'[g] = conn[g]
    BY <1>t, <1>r DEF Release
  <2> QED BY <1>r, <2>1
<1>1. CASE Listened \/ Listen \/ ListenConnected \/ TryRecv \/ TryRecvEmpty
  BY <1>s, <1>1 DEF Listened, Listen, ListenConnected, TryRecv, TryRecvEmpty, kernelVars
<1>2. CASE Read \/ ReadPending \/ AllRead \/ Timeout
  BY <1>s, <1>2 DEF Read, ReadPending, AllRead, Timeout, kernelVars
<1>3. CASE Woken \/ Connected \/ \E h \in Handles : ReadEnds(h)
  BY <1>s, <1>3 DEF Woken, Connected, ReadEnds, Take
<1>4. CASE OwnDrop \/ UNCHANGED vars \/ \E t \in Own : OwnSend(t) \/ Wake(t)
  BY <1>s, <1>4 DEF OwnDrop, OwnSend, Wake, vars, kernelVars
<1>5. CASE ListenFailed
  <2>1. listening \in Handles /\ conn[listening] \in shut /\ Release(listening)
        /\ UNCHANGED <<shut, written, heard>>
    BY <1>5 DEF ListenFailed, IInv, TypeOK
  <2> QED BY <1>r, <2>1
<1>6. CASE ReadOffline
  <2>1. PICK h \in Handles : h = pipes[at]
    BY <1>6, PipeAt DEF ReadOffline
  <2>2. /\ status[h] = "Offline" \/ conn[h] \in shut
        /\ Release(h) /\ UNCHANGED <<shut, written, heard>>
    BY <1>6, <2>1 DEF ReadOffline
  <2>3. conn[h] \in shut
    BY <2>2, MessageTypes DEF Told, Ends
  <2> QED BY <1>r, <2>2, <2>3
<1>7. CASE ReadReady
  <2>1. PICK h \in Handles : h = pipes[at]
    BY <1>7, PipeAt DEF ReadReady
  <2>2. /\ heard' = [heard EXCEPT ![conn[h]] = Append(@, size[h])]
        /\ UNCHANGED <<conn, shut, written>>
    BY <1>7, <2>1 DEF ReadReady, kernelVars
  <2>3. ASSUME NEW c \in Conns PROVE heard'[c] = heard[c] \/ conn'[h] = c
    BY <1>t, <2>2
  <2> QED BY <2>2, <2>3
<1>8. ASSUME NEW c \in Conns, Connect(c) PROVE Goal
  <2>1. /\ listening \in Handles /\ conn[listening] = NoConn
        /\ \A g \in Handles : conn[g] # c
        /\ conn' = [conn EXCEPT ![listening] = c] /\ UNCHANGED <<shut, written, heard>>
    BY <1>8 DEF Connect, IInv, TypeOK
  <2>2. conn'[listening] = c /\ \A g \in Handles \ {listening} : conn'[g] = conn[g]
    BY <1>t, <2>1
  <2> QED BY <2>1, <2>2
<1>9. ASSUME NEW c \in Conns, Write(c) PROVE Goal
  <2>1. PICK h \in Handles, s \in Sizes :
           conn[h] = c /\ written' = [written EXCEPT ![c] = Append(@, s)]
    BY <1>9 DEF Write
  <2>2. UNCHANGED <<conn, shut, heard>>
    BY <1>9 DEF Write
  <2>3. \A b \in Conns : b # c => written'[b] = written[b]
    BY <1>t, <2>1
  <2> QED BY <2>1, <2>2, <2>3
<1>10. ASSUME NEW c \in Conns, Shut(c) PROVE Goal
  BY <1>s, <1>10 DEF Shut
<1> QED
  BY <1>1, <1>2, <1>3, <1>4, <1>5, <1>6, <1>7, <1>8, <1>9, <1>10 DEF Next, Recv

LEMMA PrefixOfConcat ==
    ASSUME NEW s \in Seq(Nat), NEW x \in Seq(Nat) PROVE IsPrefix(s, s \o x)
<1> DEFINE t == s \o x
<1>1. /\ t \in Seq(Nat) /\ Len(t) = Len(s) + Len(x)
      /\ \A i \in 1..(Len(s) + Len(x)) : t[i] = IF i <= Len(s) THEN s[i] ELSE x[i - Len(s)]
  BY ConcatProperties
<1>2. Len(s) \in Nat /\ Len(x) \in Nat
  OBVIOUS
<1> HIDE DEF t
<1>3. Len(s) <= Len(t) /\ \A i \in 1..Len(s) : t[i] = s[i]
  BY <1>1, <1>2
<1>4. SubSeq(s, 1, Len(s)) = SubSeq(t, 1, Len(s))
  BY <1>1, <1>2, <1>3
<1> QED BY <1>3, <1>4 DEF IsPrefix, t

\* What recv returned so far is where the story of a pipe begins.
LEMMA StoryIsWhole ==
    ASSUME TypeOK', NEW c \in Conns, NEW h \in Handles, conn'[h] = c, Told(h)'
    PROVE  IsPrefix(heard[c], Spoken(c))'
<1>1. /\ heard'[c] \in Seq(Nat) /\ data'[h] \in Seq(Nat) /\ size'[h] \in Nat
      /\ port' \in Seq(Packets)
  BY DEF TypeOK
<1>2. \A p \in Posted(h)' : p.n \in Nat
  <2>1. Posted(h)' \subseteq Packets
    BY <1>1 DEF Posted, ToSet
  <2> QED BY <2>1 DEF Packets
<1>3. ASSUME NEW part \in Nat, NEW how, Tells(c, data[h], part, how)'
      PROVE  IsPrefix(heard[c], Spoken(c))'
  <2>1. NonZero(Coming(data'[h], part, how)) \in Seq(Nat)
    BY <1>1, ComingType, FilterType DEF NonZero
  <2>2. Spoken(c)' = heard'[c] \o NonZero(Coming(data'[h], part, how))
    BY <1>3 DEF Tells
  <2> QED BY <1>1, <2>1, <2>2, PrefixOfConcat
<1>4. CASE Posted(h)' = {}
  <2>1. (Tells(c, data[h], size[h], status[h]))'
    BY <1>4 DEF Told, Story
  <2> QED BY <1>1, <1>3, <2>1 DEF Tells
<1>5. ASSUME NEW p \in Posted(h)' PROVE IsPrefix(heard[c], Spoken(c))'
  <2>1. (Tells(c, data[h], size[h] + p.n, p.result))'
    BY <1>5 DEF Told, Story
  <2>2. size'[h] + p.n \in Nat
    BY <1>1, <1>2, <1>5
  <2> QED BY <1>3, <2>1, <2>2 DEF Tells
<1> QED BY <1>4, <1>5

LEMMA WholeInvKept ==
    ASSUME IInv, TypeOK', WholeInv, [Next]_vars PROVE WholeInv'
<1> USE NamesAssumption
<1>1. \A h \in Handles : Told(h)'
  BY ToldKept
<1>2. Whole'
  <2> SUFFICES ASSUME NEW c \in Conns PROVE IsPrefix(heard[c], Spoken(c))'
    BY DEF Whole
  <2>1. CASE \E h \in Handles : conn'[h] = c
    BY <1>1, <2>1, StoryIsWhole
  <2>2. CASE ~\E h \in Handles : conn'[h] = c
    <3>1. written'[c] = written[c] /\ heard'[c] = heard[c]
      BY <2>2, WritersStep
    <3> QED BY <3>1 DEF WholeInv, Whole, Spoken
  <2> QED BY <2>1, <2>2
<1>3. OneConn'
  <2> SUFFICES ASSUME NEW g \in Handles, NEW h \in Handles,
                      conn'[g] = conn'[h], conn'[g] \in Conns, g # h
               PROVE  FALSE
    BY DEF OneConn
  <2>1. \A k \in Handles : \/ conn'[k] = conn[k]
                           \/ conn'[k] = NoConn
                           \/ /\ \A j \in Handles : conn[j] # conn'[k]
                              /\ \A j \in Handles \ {k} : conn'[j] = conn[j]
    BY WritersStep
  <2> QED BY <2>1 DEF WholeInv, OneConn
<1>4. Silent'
  <2> SUFFICES ASSUME NEW c \in Conns, c \notin shut', \A h \in Handles : conn'[h] # c
               PROVE  written'[c] = <<>> /\ heard'[c] = <<>>
    BY DEF Silent
  <2>1. c \notin shut /\ written'[c] = written[c] /\ heard'[c] = heard[c]
    BY WritersStep
  <2>2. \A h \in Handles : conn[h] # c
    <3> SUFFICES ASSUME NEW h \in Handles, conn[h] = c PROVE FALSE
      OBVIOUS
    <3>1. conn'[h] # conn[h] /\ conn[h] \notin shut /\ conn[h] # NoConn
      BY <2>1
    <3> QED BY <3>1, WritersStep
  <2> QED BY <2>1, <2>2 DEF WholeInv, Silent
<1> QED BY <1>1, <1>2, <1>3, <1>4 DEF WholeInv

LEMMA InitWhole == Init => WholeInv
<1> SUFFICES ASSUME Init PROVE WholeInv
  OBVIOUS
<1> USE NamesAssumption
<1>1. /\ \A h \in Handles : size[h] = 0 /\ data[h] = <<>> /\ op[h] = "none" /\ Posted(h) = {}
      /\ \A c \in Conns : written[c] = <<>> /\ heard[c] = <<>>
      /\ \A h \in Handles : status[h] \in {"Free", "Readable"}
  BY DEF Init, Posted, ToSet
<1>2. \A c \in Conns : Spoken(c) = <<>>
  BY <1>1, FilterEmpty DEF Spoken
<1>3. \A c \in Conns : \A how : Tells(c, <<>>, 0, how)
  <2> SUFFICES ASSUME NEW c \in Conns, NEW how PROVE Tells(c, <<>>, 0, how)
    OBVIOUS
  <2>1. <<>> \in Seq(Nat) /\ <<>> \o <<>> = <<>>
    OBVIOUS
  <2>2. NonZero(Coming(<<>>, 0, how)) = NonZero(<<>>)
    BY <2>1, ComingZero
  <2>3. NonZero(<<>>) = <<>>
    BY FilterEmpty DEF NonZero
  <2> QED BY <1>1, <1>2, <2>1, <2>2, <2>3 DEF Tells, Begun
<1>4. Whole
  <2>1. <<>> \in Seq(Nat) /\ <<>> \o <<>> = <<>>
    OBVIOUS
  <2>2. IsPrefix(<<>>, <<>>)
    BY <2>1, PrefixOfConcat
  <2> QED BY <1>1, <1>2, <2>2 DEF Whole
<1>5. \A h \in Handles : Story(h) /\ Ends(h) /\ Blank(h)
  BY <1>1, <1>3 DEF Story, Ends, Blank
<1>6. OneConn /\ \A h \in Handles : Inside(h) /\ Outside(h)
  <2>1. CASE pipes = <<>> /\ conn = [h \in Handles |-> NoConn]
             /\ status = [h \in Handles |-> "Free"]
    BY <1>1, <2>1 DEF OneConn, Inside, Outside, ToSet
  <2>2. ASSUME NEW c \in Conns, pipes = <<First>>,
               conn = [h \in Handles |-> IF h = First THEN c ELSE NoConn],
               status = [h \in Handles |-> IF h = First THEN "Readable" ELSE "Free"]
        PROVE  OneConn /\ \A h \in Handles : Inside(h) /\ Outside(h)
    <3>1. ToSet(pipes) = {First}
      BY <2>2 DEF ToSet
    <3> QED BY <1>1, <2>2, <3>1 DEF OneConn, Inside, Outside
  <2> QED BY <2>1, <2>2 DEF Init
<1>7. Silent
  BY <1>1 DEF Silent
<1> QED BY <1>4, <1>5, <1>6, <1>7 DEF WholeInv, Told

\* A pipe leaves the hub with nothing in it.
LEMMA NothingLostStep ==
    ASSUME IInv, WholeInv, [Next]_vars,
           NEW h \in ToSet(pipes) \ ToSet(pipes')
    PROVE  heard[conn[h]] = Spoken(conn[h])
<1>1. ASSUME ~ReadOffline PROVE ToSet(pipes) \subseteq ToSet(pipes')
  <2>1. CASE ListenConnected \/ Connected
    BY <2>1, AcceptAdds DEF ListenConnected, Connected
  <2>2. CASE Listened \/ Listen \/ ListenFailed \/ TryRecv \/ TryRecvEmpty
    BY <2>2 DEF Listened, Listen, ListenFailed, TryRecv, TryRecvEmpty
  <2>3. CASE ReadReady \/ Read \/ ReadPending \/ AllRead \/ Timeout
    BY <2>3 DEF ReadReady, Read, ReadPending, AllRead, Timeout
  <2>4. CASE Woken \/ \E g \in Handles : ReadEnds(g)
    BY <2>4 DEF Woken, ReadEnds
  <2>5. CASE \E c \in Conns : Connect(c) \/ Write(c) \/ Shut(c)
    BY <2>5 DEF Connect, Write, Shut, hubVars
  <2>6. CASE OwnDrop \/ UNCHANGED vars \/ \E t \in Own : OwnSend(t) \/ Wake(t)
    BY <2>6 DEF OwnDrop, OwnSend, Wake, vars, hubVars
  <2> QED BY <1>1, <2>1, <2>2, <2>3, <2>4, <2>5, <2>6 DEF Next, Recv
<1>2. ReadOffline
  BY <1>1
<1>3. h = pipes[at] /\ h \in Handles
  BY <1>2, OfflineLeaves, PipeAt DEF ReadOffline
<1>4. status[h] = "Offline" \/ (MayRead(h) /\ data[h] = <<>>)
  BY <1>2, <1>3 DEF ReadOffline
<1>5. /\ Told(h) /\ Posted(h) = {} /\ conn[h] \in Conns
      /\ heard[conn[h]] \in Seq(Nat)
  BY <1>3, <1>4, PostedBalanced, MessageTypes DEF MayRead, Told, Inside, IInv, TypeOK
<1>6. data[h] = <<>> /\ Tells(conn[h], data[h], size[h], status[h])
  BY <1>4, <1>5 DEF Told, Ends, Story
<1>7. NonZero(Coming(<<>>, size[h], status[h])) = <<>>
  <2>1. NonZero(<<>>) = <<>> /\ <<>> \in Seq(Nat)
    BY FilterEmpty DEF NonZero
  <2>2. status[h] \notin Complete \/ size[h] = 0
    BY <1>4 DEF MayRead, Complete
  <2>3. NonZero(Coming(<<>>, 0, status[h])) = NonZero(<<>>)
    BY <2>1, ComingZero
  <2> QED BY <2>1, <2>2, <2>3 DEF Coming
<1> QED BY <1>5, <1>6, <1>7, ConcatEmptySeq DEF Tells

-----------------------------------------------------------------------------
(* The theorems *)

\* The invariant is inductive.
THEOREM Invariant == Spec => []IInv
<1>1. Init => IInv
  BY InitHolds
<1>2. IInv /\ [Next]_vars => IInv'
  BY TypeKept, PlacesKept, OutstandingKept, InBufferKept DEF IInv
<1> QED BY <1>1, <1>2, PTL DEF Spec

\* The types of the state of the hub and of the kernel.
THEOREM TypeCorrect == Spec => []TypeOK
<1>1. IInv => TypeOK
  BY DEF IInv
<1> QED BY <1>1, Invariant, PTL

\* Whatever handle values the kernel gives away again, a packet that wait returns
\* belongs to the operation of the pipe that has its handle value now.
THEOREM OneOutstandingAlways == Spec => []OneOutstanding
<1>1. IInv => OneOutstanding
  BY DEF IInv
<1> QED BY <1>1, Invariant, PTL

\* ReadFile is never asked to write past the buffer of a pipe.
THEOREM InBufferAlways == Spec => []InBuffer
<1>1. IInv => InBuffer
  BY DEF IInv
<1> QED BY <1>1, Invariant, PTL

\* Although pipes leave the list while it is walked, recv never waits with one that
\* nothing was asked of.
THEOREM AllArmedAlways == Spec => []AllArmed
<1>1. IInv => AllArmed
  BY DEF IInv, Stages, AllArmed, InUse, ToSet, TypeOK
<1> QED BY <1>1, Invariant, PTL
\* recv never goes to sleep on a message of the controller's own process that nobody
\* is about to wake it for.
THEOREM NoLostWakeAlways == Spec => []NoLostWake
<1>1. Init => Alert
  BY DEF Init, Alert
<1>2. IInv /\ Alert /\ [Next]_vars => Alert'
  BY AlertKept
<1>3. Alert => NoLostWake
  BY DEF Alert, Announced, Slots, NoLostWake
<1> QED BY <1>1, <1>2, <1>3, Invariant, PTL DEF Spec

\* What recv returned and what is still in the pipes is what was written, in order.
THEOREM WholeInvariant == Spec => [](IInv /\ WholeInv)
<1>1. Init => WholeInv
  BY InitWhole
<1>2. IInv /\ IInv' /\ WholeInv /\ [Next]_vars => WholeInv'
  BY WholeInvKept DEF IInv
<1> QED BY <1>1, <1>2, Invariant, PTL DEF Spec

\* recv returns every message whole, once and in the order it was written, into
\* however small a buffer and in however many parts it was read.
THEOREM WholeAlways == Spec => []Whole
<1>1. WholeInv => Whole
  BY DEF WholeInv
<1> QED BY <1>1, WholeInvariant, PTL

\* A pipe of the hub is closed only when all that was written into it was returned.
THEOREM NothingLostAlways == Spec => NothingLost
<1>1. IInv /\ WholeInv /\ [Next]_vars =>
          [\A h \in ToSet(pipes) \ ToSet(pipes') : heard[conn[h]] = Spoken(conn[h])]_vars
  BY NothingLostStep
<1> QED BY <1>1, WholeInvariant, PTL DEF Spec, NothingLost
=============================================================================
