--------------------------- MODULE EndpointProofs ---------------------------
(***************************************************************************)
(* An endpoint joins again only when its connection broke or refused a     *)
(* message, and its read half lives as long as its receiver: for every     *)
(* number of threads, every platform and every way a connection breaks.    *)
(***************************************************************************)
EXTENDS Endpoint, TLAPS

Broken == ~out \/ ~inn \/ spoilt

\* Only the thread that has the lock for writing is in the middle of a join.
Exclusive == \A t \in Threads : pc[t] \in {"check", "join"} => writers = {t}

\* Every thread that will join has seen the current connection fail, which a
\* server does not have.
Justified ==
    /\ \A t \in Threads : pc[t] = "join" => Broken
    /\ \A t \in Threads : pc[t] \in {"wlock", "check"} /\ seen[t] = epoch => Broken
    /\ ~hub /\ ~reader_closed => Broken
    /\ Broken => kind = "Client"
    /\ spoilt => Platform # "macos"

\* Every join follows a break or a refused message of its own, so that the epochs are all different.
Counted ==
    /\ epoch = joins
    /\ \A t \in Threads : seen[t] <= epoch
    /\ joins <= breaks /\ breaks <= MaxBreaks
    /\ Broken => joins < breaks

ReaderInv == ReaderFollowsReceiver /\ (dropped => reader_closed)

Inv == TypeOK /\ Exclusive /\ Justified /\ Counted /\ ReaderInv

LEMMA InitInv == Init => Inv
<1> SUFFICES ASSUME Init PROVE Inv
    OBVIOUS
<1>1. 0 \in 0 .. EpochMod - 1
    BY EpochAssumption
<1>2. TypeOK
    BY <1>1 DEF Init, TypeOK
<1>3. Exclusive /\ Justified
    BY DEF Init, Exclusive, Justified, Broken
<1>4. Counted
    BY EpochAssumption DEF Init, Counted, Broken
<1>5. ReaderInv
    BY DEF Init, ReaderInv, ReaderFollowsReceiver
<1> QED BY <1>2, <1>3, <1>4, <1>5 DEF Inv

LEMMA StepInv == Inv /\ [Next]_vars => Inv'
<1> SUFFICES ASSUME Inv, [Next]_vars PROVE Inv'
    OBVIOUS
<1> USE EpochAssumption DEF Inv, TypeOK, Exclusive, Justified, Counted, ReaderInv,
        ReaderFollowsReceiver, Broken, Goto, ruleVars, lockVars, netVars
<1>1. ASSUME NEW t \in Threads, ReadLock(t) PROVE Inv'
    BY <1>1 DEF ReadLock
<1>2. ASSUME NEW t \in Threads, WriteLock(t) PROVE Inv'
    BY <1>2 DEF WriteLock
<1>3. ASSUME NEW t \in Threads, StartJoin(t) PROVE Inv'
    BY <1>3 DEF StartJoin, Stale
<1>4. ASSUME NEW t \in Threads, SkipJoin(t) PROVE Inv'
    BY <1>4 DEF SkipJoin, WriteUnlock
<1>5. ASSUME NEW t \in Threads, JoinOk(t) PROVE Inv'
    <2>1. joins < breaks /\ epoch + 1 < EpochMod
        BY <1>5 DEF JoinOk
    <2>2. epoch' = epoch + 1
        BY <1>5, <2>1 DEF JoinOk, NextEpoch
    <2>3. TypeOK'
        <3>1. epoch' \in 0 .. EpochMod - 1 /\ joins' \in Nat
            BY <1>5, <2>1, <2>2 DEF JoinOk
        <3>2. hub' \in BOOLEAN /\ kind' \in {"Client", "Server"}
            BY <1>5 DEF JoinOk, HubAfterJoin
        <3>3. writers' \subseteq Threads /\ readers' = readers
            BY <1>5 DEF JoinOk, WriteUnlock
        <3> QED BY <1>5, <3>1, <3>2, <3>3 DEF JoinOk
    <2>4. Exclusive'
        BY <1>5 DEF JoinOk, WriteUnlock
    <2>5. Justified'
        <3>1. \A u \in Threads : pc'[u] # "join"
            <4>1. pc'[t] = "rlock" /\ \A u \in Threads \ {t} : pc'[u] = pc[u]
                BY <1>5 DEF JoinOk
            <4>2. \A u \in Threads \ {t} : pc[u] # "join"
                BY <1>5 DEF JoinOk
            <4> QED BY <4>1, <4>2
        <3>2. \A u \in Threads : seen'[u] # epoch'
            <4>1. \A u \in Threads : seen[u] \in Nat /\ seen[u] <= epoch
                BY <2>1
            <4> QED BY <1>5, <2>2, <4>1 DEF JoinOk
        <3>3. hub' \/ reader_closed'
            BY <1>5 DEF JoinOk, HubAfterJoin
        <3>4. ~Broken'
            BY <1>5 DEF JoinOk
        <3> QED BY <1>5, <3>1, <3>2, <3>3, <3>4 DEF JoinOk
    <2>6. Counted'
        BY <1>5, <2>1, <2>2 DEF JoinOk
    <2>7. ReaderInv'
        BY <1>5 DEF JoinOk, HubAfterJoin
    <2> QED BY <2>3, <2>4, <2>5, <2>6, <2>7
<1>6. ASSUME NEW t \in Threads, JoinErr(t) PROVE Inv'
    BY <1>6 DEF JoinErr, WriteUnlock
<1>7. ASSUME NEW t \in Senders, CallSend(t) PROVE Inv'
    BY <1>7 DEF CallSend, Threads
<1>8. ASSUME NEW t \in Senders, SendOk(t) PROVE Inv'
    BY <1>8 DEF SendOk, ReadUnlock, Threads
<1>9. ASSUME NEW t \in Senders, SendDisconnect(t) PROVE Inv'
    BY <1>9 DEF SendDisconnect, NoticeBreak, ReadUnlock, Threads
<1>10. CASE CallRecv
    BY <1>10 DEF CallRecv, Threads
<1>11. CASE RecvWithoutHub
    BY <1>11 DEF RecvWithoutHub, NoticeBreak, ReadUnlock, Threads
<1>12. CASE RecvMessage
    BY <1>12 DEF RecvMessage, ReadUnlock, Threads
<1>13. CASE RecvTimeout
    BY <1>13 DEF RecvTimeout, ReadUnlock, Threads
<1>14. CASE RecvDisconnect
    BY <1>14 DEF RecvDisconnect, NoticeBreak, ReadUnlock, Gone, LinuxGone, MacosGone, Threads
<1>15. CASE CallDrop
    BY <1>15 DEF CallDrop, Threads
<1>16. CASE DropReceiver
    BY <1>16 DEF DropReceiver, Threads
<1>17. ASSUME NEW b \in Breaks, Break(b) PROVE Inv'
    <2>1. breaks' = breaks + 1 /\ breaks < MaxBreaks /\ kind = "Client"
        BY <1>17 DEF Break
    <2>2. out' \in BOOLEAN /\ inn' \in BOOLEAN /\ Broken'
        BY <1>17 DEF Break
    <2>3. outbox' \in BOOLEAN /\ stuck' \in BOOLEAN
        BY <1>17, <2>2 DEF Break
    <2>4. UNCHANGED <<ruleVars, lockVars, spoilt, queued, pc, seen, dropped, joins>>
        BY <1>17 DEF Break
    <2> QED BY <2>1, <2>2, <2>3, <2>4
<1>18. CASE Arrive
    BY <1>18 DEF Arrive, Hand
<1>19. CASE Take
    BY <1>19 DEF Take, Hand
<1>20. CASE Proceed
    BY <1>20 DEF Proceed
<1>21. CASE UNCHANGED vars
    BY <1>21 DEF vars
<1>22. ASSUME NEW t \in Senders, SendRefused(t) PROVE Inv'
    <2>1. t \in Threads
        BY DEF Threads
    <2>2. breaks' = breaks + 1 /\ breaks < MaxBreaks /\ kind = "Client"
        BY <1>22 DEF SendRefused
    <2>3. UNCHANGED <<out, inn, queued, outbox, stuck, ruleVars, writers, dropped, joins>>
        BY <1>22 DEF SendRefused, NoticeBreak, ReadUnlock
    <2>4. CASE Platform = "macos"
        BY <1>22, <2>1, <2>2, <2>3, <2>4 DEF SendRefused, ReadUnlock
    <2>5. CASE Platform # "macos"
        BY <1>22, <2>1, <2>2, <2>3, <2>5 DEF SendRefused, NoticeBreak, ReadUnlock
    <2> QED BY <2>4, <2>5
<1>23. CASE RecvCut
    <2>1. breaks' = breaks + 1 /\ breaks < MaxBreaks /\ kind = "Client" /\ Receiver \in Threads
        BY <1>23 DEF RecvCut, Threads
    <2>2. /\ inn' = FALSE /\ queued' = FALSE /\ stuck' = FALSE /\ readers' = readers \ {Receiver}
          /\ pc' = [pc EXCEPT ![Receiver] = "wlock"] /\ seen' = [seen EXCEPT ![Receiver] = epoch]
          /\ UNCHANGED <<out, spoilt, outbox, ruleVars, writers, dropped, joins>>
        BY <1>23 DEF RecvCut, NoticeBreak, ReadUnlock
    <2>3. TypeOK'
        <3>1. pc' \in [Threads -> {"idle", "rlock", "reading", "wlock", "check", "join", "dlock", "gone"}]
            BY <2>1, <2>2
        <3>2. seen' \in [Threads -> 0 .. EpochMod - 1]
            BY <2>1, <2>2
        <3>3. breaks' \in Nat /\ readers' \subseteq Threads
            BY <2>1, <2>2
        <3> QED BY <2>2, <3>1, <3>2, <3>3
    <2>4. Exclusive' /\ ReaderInv'
        BY <2>1, <2>2
    <2>5. Justified'
        BY <2>1, <2>2
    <2>6. Counted'
        BY <2>1, <2>2
    <2> QED BY <2>3, <2>4, <2>5, <2>6
<1> HIDE DEF Inv
<1> QED BY <1>1, <1>2, <1>3, <1>4, <1>5, <1>6, <1>7, <1>8, <1>9, <1>10, <1>11, <1>12, <1>13,
           <1>14, <1>15, <1>16, <1>17, <1>18, <1>19, <1>20, <1>21, <1>22, <1>23
        DEF Next, Rejoin, Sending, Receiving, Heeding, Controller

\* Only StartJoin starts a join, in a thread that has seen the connection fail; so the
\* connection broke, or refused a message since it was made.
LEMMA StepHealthy == Inv /\ [Next]_vars =>
    \A t \in Threads : pc[t] = "check" /\ pc'[t] = "join" => ~out \/ ~inn \/ spoilt
<1> SUFFICES ASSUME Inv, [Next]_vars, NEW t \in Threads, pc[t] = "check", pc'[t] = "join"
             PROVE  ~out \/ ~inn \/ spoilt
    OBVIOUS
<1> USE DEF Inv, TypeOK, Goto
<1>1. \E u \in Threads : StartJoin(u)
    <2>1. ASSUME NEW u \in Threads, ReadLock(u) \/ WriteLock(u) \/ Rejoin(u)
          PROVE  StartJoin(u)
        BY <2>1 DEF ReadLock, WriteLock, Rejoin, SkipJoin, JoinOk, JoinErr
    <2>2. ASSUME NEW u \in Senders, CallSend(u) \/ Sending(u) \/ SendRefused(u) PROVE FALSE
        BY <2>2 DEF CallSend, Sending, SendOk, SendDisconnect, SendRefused, NoticeBreak, Threads
    <2>3. ~CallRecv /\ ~CallDrop /\ ~DropReceiver
        BY DEF CallRecv, CallDrop, DropReceiver
    <2>4. ~Receiving /\ ~RecvCut
        BY DEF RecvCut, Receiving, Heeding, RecvWithoutHub, RecvMessage, RecvTimeout, RecvDisconnect, NoticeBreak
    <2>5. ~Arrive /\ ~Controller /\ ~(\E b \in Breaks : Break(b)) /\ ~UNCHANGED vars
        BY DEF Arrive, Controller, Take, Proceed, Break, vars
    <2> QED BY <2>1, <2>2, <2>3, <2>4, <2>5 DEF Next
<1>2. PICK u \in Threads : StartJoin(u)
    BY <1>1
<1>3. seen[u] = epoch /\ pc[u] = "check"
    BY <1>2 DEF StartJoin, Stale
<1> QED BY <1>3 DEF Justified, Broken

LEMMA SpecInv == Spec => []Inv
<1> QED BY InitInv, StepInv, PTL DEF Spec

\* Only JoinOk changes the variant of the rule, and who gets there had a broken
\* connection.
LEMMA StepServer == Inv /\ [Next]_vars => (kind = "Server" => kind' = "Server")
<1> SUFFICES ASSUME Inv, [Next]_vars, kind = "Server" PROVE kind' = "Server"
    OBVIOUS
<1>1. ASSUME NEW t \in Threads PROVE ~JoinOk(t)
    BY DEF Inv, Justified, JoinOk
<1>2. ASSUME NEW t \in Threads, ReadLock(t) \/ WriteLock(t) \/ Rejoin(t)
      PROVE  kind' = kind
    BY <1>1, <1>2 DEF ReadLock, WriteLock, Rejoin, StartJoin, SkipJoin, JoinErr, ruleVars
<1>3. ASSUME NEW t \in Senders, CallSend(t) \/ Sending(t) \/ SendRefused(t) PROVE kind' = kind
    BY <1>3 DEF CallSend, Sending, SendOk, SendDisconnect, SendRefused, NoticeBreak, ruleVars
<1>4. CASE CallRecv \/ CallDrop \/ DropReceiver
    BY <1>4 DEF CallRecv, CallDrop, DropReceiver, ruleVars
<1>5. CASE Receiving \/ RecvCut
    BY <1>5 DEF RecvCut, Receiving, Heeding, RecvWithoutHub, RecvMessage, RecvTimeout,
                RecvDisconnect, NoticeBreak, ruleVars
<1>6. CASE Arrive \/ Controller \/ UNCHANGED vars \/ \E b \in Breaks : Break(b)
    BY <1>6 DEF Arrive, Controller, Take, Proceed, Break, vars, ruleVars
<1> QED BY <1>2, <1>3, <1>4, <1>5, <1>6 DEF Next

\* Every variable of the endpoint keeps its type; the epoch never wraps around
\* within the bound.
THEOREM TypeCorrect == Spec => []TypeOK
BY SpecInv, PTL DEF Inv

\* The read half of every rule, that of a new join too, is open exactly as long
\* as the EndpointReceiver lives.
THEOREM ReaderFollowsReceiverAlways == Spec => []ReaderFollowsReceiver
BY SpecInv, PTL DEF Inv, ReaderInv

\* However many threads notice a connection that failed, and whenever they get the
\* lock, none of them gives a connection up that works and has refused nothing.
THEOREM HealthyKeptAlways == Spec => HealthyKept
<1>1. Inv /\ [Next]_vars =>
        [\A t \in Threads : pc[t] = "check" /\ pc'[t] = "join" => ~out \/ ~inn \/ spoilt]_vars
    BY StepHealthy
<1> QED BY <1>1, SpecInv, PTL DEF Spec, HealthyKept

\* A process that runs the controller never joins another one.
THEOREM ServerForGoodAlways == Spec => ServerForGood
<1>1. Inv /\ [Next]_vars => [kind = "Server" => kind' = "Server"]_vars
    BY StepServer
<1> QED BY <1>1, SpecInv, PTL DEF Spec, ServerForGood
-----------------------------------------------------------------------------
(* Who waits for whom *)

\* Who is at which place has the lock.
Locked ==
    /\ \A t \in Threads : t \in readers <=> pc[t] = "reading"
    /\ writers # {} => readers = {} /\ \E t \in Threads : pc[t] \in {"check", "join"}
    /\ \A t \in Senders : pc[t] \notin {"dlock", "gone"}
    /\ dropped <=> pc[Receiver] = "gone"

\* A thread that waits to join waits for readers of the same connection, which is still
\* as it saw it; and the controller waits on a connection that works.
Waits ==
    /\ readers # {} =>
           /\ \A t \in Senders : pc[t] = "wlock" => ~out \/ spoilt
           /\ pc[Receiver] = "wlock" => ~hub \/ Gone
    /\ stuck => kind = "Client" /\ inn

LEMMA InitCircle == Init => Locked /\ Waits
BY ThreadAssumption DEF Init, Locked, Waits, Threads

LEMMA LockedStep == Inv /\ Locked /\ [Next]_vars => Locked'
<1> SUFFICES ASSUME Inv, Locked, [Next]_vars PROVE Locked'
    OBVIOUS
<1>0. Receiver \in Threads /\ Senders \subseteq Threads /\ Receiver \notin Senders
    BY ThreadAssumption DEF Threads
<1> USE <1>0 DEF Inv, TypeOK, Exclusive, Locked, Goto, ruleVars, lockVars, netVars,
        ReadUnlock, WriteUnlock
<1>1. ASSUME NEW t \in Threads, ReadLock(t) PROVE Locked'
    BY <1>1 DEF ReadLock
<1>2. ASSUME NEW t \in Threads, WriteLock(t) PROVE Locked'
    BY <1>2 DEF WriteLock
<1>3. ASSUME NEW t \in Threads, StartJoin(t) PROVE Locked'
    BY <1>3 DEF StartJoin
<1>4. ASSUME NEW t \in Threads, SkipJoin(t) PROVE Locked'
    BY <1>4 DEF SkipJoin
<1>5. ASSUME NEW t \in Threads, JoinOk(t) PROVE Locked'
    BY <1>5 DEF JoinOk
<1>6. ASSUME NEW t \in Threads, JoinErr(t) PROVE Locked'
    BY <1>6 DEF JoinErr
<1>7. ASSUME NEW t \in Senders, CallSend(t) PROVE Locked'
    BY <1>7 DEF CallSend
<1>8. ASSUME NEW t \in Senders, SendOk(t) PROVE Locked'
    BY <1>8 DEF SendOk
<1>9. ASSUME NEW t \in Senders, SendDisconnect(t) PROVE Locked'
    BY <1>9 DEF SendDisconnect, NoticeBreak
<1>10. CASE CallRecv
    BY <1>10 DEF CallRecv
<1>11. CASE RecvWithoutHub \/ RecvDisconnect
    BY <1>11 DEF RecvWithoutHub, RecvDisconnect, NoticeBreak
<1>12. CASE RecvMessage \/ RecvTimeout
    BY <1>12 DEF RecvMessage, RecvTimeout
<1>13. CASE CallDrop
    BY <1>13 DEF CallDrop
<1>14. CASE DropReceiver
    BY <1>14 DEF DropReceiver
<1>15. ASSUME NEW b \in Breaks, Break(b) PROVE Locked'
    BY <1>15 DEF Break
<1>16. CASE Arrive \/ Take \/ Proceed
    BY <1>16 DEF Arrive, Take, Proceed
<1>17. CASE UNCHANGED vars
    BY <1>17 DEF vars
<1>18. ASSUME NEW t \in Senders, SendRefused(t) PROVE Locked'
    BY <1>18 DEF SendRefused, NoticeBreak
<1>19. CASE RecvCut
    BY <1>19 DEF RecvCut, NoticeBreak
<1> HIDE DEF Inv, Locked
<1> QED BY <1>1, <1>2, <1>3, <1>4, <1>5, <1>6, <1>7, <1>8, <1>9, <1>10, <1>11, <1>12, <1>13,
           <1>14, <1>15, <1>16, <1>17, <1>18, <1>19
        DEF Next, Rejoin, Sending, Receiving, Heeding, Controller

LEMMA WaitsStep == Inv /\ Locked /\ Waits /\ [Next]_vars => Waits'
<1> SUFFICES ASSUME Inv, Locked, Waits, [Next]_vars PROVE Waits'
    OBVIOUS
<1>0. Receiver \in Threads /\ Senders \subseteq Threads /\ Receiver \notin Senders
    BY ThreadAssumption DEF Threads
<1> USE <1>0 DEF Inv, TypeOK, Exclusive, Locked, Waits, Gone, LinuxGone, MacosGone,
        Goto, ruleVars, lockVars, netVars, ReadUnlock, WriteUnlock
<1>1. ASSUME NEW t \in Threads, ReadLock(t) PROVE Waits'
    BY <1>1 DEF ReadLock
<1>2. ASSUME NEW t \in Threads, WriteLock(t) PROVE Waits'
    BY <1>2 DEF WriteLock
<1>3. ASSUME NEW t \in Threads, StartJoin(t) PROVE Waits'
    BY <1>3 DEF StartJoin
<1>4. ASSUME NEW t \in Threads, SkipJoin(t) PROVE Waits'
    BY <1>4 DEF SkipJoin
<1>5. ASSUME NEW t \in Threads, JoinOk(t) PROVE Waits'
    BY <1>5 DEF JoinOk
<1>6. ASSUME NEW t \in Threads, JoinErr(t) PROVE Waits'
    BY <1>6 DEF JoinErr
<1>7. ASSUME NEW t \in Senders, CallSend(t) PROVE Waits'
    BY <1>7 DEF CallSend
<1>8. ASSUME NEW t \in Senders, SendOk(t) PROVE Waits'
    BY <1>8 DEF SendOk
<1>9. ASSUME NEW t \in Senders, SendDisconnect(t) PROVE Waits'
    BY <1>9 DEF SendDisconnect, NoticeBreak
<1>10. CASE CallRecv
    BY <1>10 DEF CallRecv
<1>11. CASE RecvWithoutHub \/ RecvDisconnect
    BY <1>11 DEF RecvWithoutHub, RecvDisconnect, NoticeBreak
<1>12. CASE RecvMessage \/ RecvTimeout
    BY <1>12 DEF RecvMessage, RecvTimeout
<1>13. CASE CallDrop
    BY <1>13 DEF CallDrop
<1>14. CASE DropReceiver
    BY <1>14 DEF DropReceiver
<1>15. ASSUME NEW b \in Breaks, Break(b) PROVE Waits'
    BY <1>15 DEF Break
<1>16. CASE Arrive \/ Take \/ Proceed
    BY <1>16 DEF Arrive, Take, Proceed, Hand
<1>17. CASE UNCHANGED vars
    BY <1>17 DEF vars
<1>18. ASSUME NEW t \in Senders, SendRefused(t) PROVE Waits'
    BY <1>18 DEF SendRefused, NoticeBreak
<1>19. CASE RecvCut
    BY <1>19 DEF RecvCut, NoticeBreak
<1> HIDE DEF Inv, Locked, Waits
<1> QED BY <1>1, <1>2, <1>3, <1>4, <1>5, <1>6, <1>7, <1>8, <1>9, <1>10, <1>11, <1>12, <1>13,
           <1>14, <1>15, <1>16, <1>17, <1>18, <1>19
        DEF Next, Rejoin, Sending, Receiving, Heeding, Controller

LEMMA NobodyWaitsInACircle == Inv /\ Locked /\ Waits => NoCircle
<1> SUFFICES ASSUME Inv, Locked, Waits,
                    NEW t \in Threads, pc[t] \notin {"idle", "gone"}, ~(t = Receiver /\ Listens),
                    \A u \in Threads : ~Moves(u), ~ControllerMoves, ~HalfBroken, ~Deaf, ~Jammed
             PROVE  FALSE
    BY DEF NoCircle
<1>0. Receiver \in Threads /\ Senders \subseteq Threads /\ Receiver \notin Senders
    BY ThreadAssumption DEF Threads
<1>1. \A u \in Threads : pc[u] \notin {"check", "join"}
    BY DEF Moves
<1>2. writers = {}
    BY <1>1 DEF Locked
\* Somebody holds the lock for reading.
<1>3. readers # {}
    <2> SUFFICES ASSUME readers = {} PROVE FALSE
        OBVIOUS
    <2>1. \A u \in Threads : pc[u] \notin {"wlock", "dlock"}
        BY <1>2 DEF Moves
    <2>2. pc[t] # "rlock"
        BY <1>2, <2>1 DEF Moves
    <2>3. pc[t] # "reading"
        BY DEF Locked
    <2> QED BY <1>1, <2>1, <2>2, <2>3 DEF Inv, TypeOK
<1>4. \A u \in Senders : pc[u] = "wlock" => ~out \/ spoilt
    BY <1>3 DEF Waits
\* It is not a sender: the controller would wait for the receiver, which could read.
<1>5. \A u \in Senders : pc[u] # "reading"
    <2> SUFFICES ASSUME NEW u \in Senders, pc[u] = "reading" PROVE FALSE
        OBVIOUS
    <2>1. kind = "Client" /\ out /\ outbox
        BY <1>0 DEF Moves, Inv, TypeOK
    <2>2. stuck /\ hub /\ queued /\ inn
        BY <2>1 DEF ControllerMoves, Waits
    <2>3. pc[Receiver] \notin {"idle", "dlock"}
        BY <2>2 DEF Deaf
    <2>4. pc[Receiver] # "gone"
        BY <2>2 DEF Locked, Inv, ReaderInv, ReaderFollowsReceiver
    <2>5. pc[Receiver] # "reading"
        BY <1>0, <2>2 DEF Moves
    <2>6. pc[Receiver] # "rlock"
        <3>1. SUFFICES ASSUME pc[Receiver] = "rlock" PROVE FALSE
            OBVIOUS
        <3>2. PICK v \in Senders : pc[v] = "wlock"
            BY <1>0, <1>2, <3>1 DEF Moves, Locked, Threads
        <3> QED BY <1>4, <2>1, <2>2, <3>1, <3>2 DEF Jammed
    <2>7. pc[Receiver] # "wlock"
        BY <1>3, <2>1, <2>2 DEF Waits, Gone, LinuxGone, MacosGone
    <2> QED BY <1>0, <1>1, <2>3, <2>4, <2>5, <2>6, <2>7 DEF Inv, TypeOK
\* So it is the receiver, with nothing to read.
<1>6. pc[Receiver] = "reading"
    BY <1>3, <1>5 DEF Locked, Inv, TypeOK, Threads
<1>7. hub /\ ~queued /\ (kind = "Client" => ~Gone)
    <2>1. ~dropped
        BY <1>6 DEF Locked
    <2>2. kind = "Server" => hub
        BY <2>1 DEF Inv, ReaderInv, ReaderFollowsReceiver
    <2> QED BY <1>0, <1>6, <2>2 DEF Moves, Inv, TypeOK
<1>8. t \in Senders
    BY <1>6, <1>7 DEF Listens, Threads
\* A sender that waits behind it has seen the way out fail.
<1>9. ~out \/ spoilt
    <2>1. pc[t] \in {"rlock", "wlock"}
        BY <1>0, <1>1, <1>5, <1>8 DEF Locked, Inv, TypeOK
    <2>2. CASE pc[t] = "wlock"
        BY <1>4, <1>8, <2>2
    <2>3. CASE pc[t] = "rlock"
        <3>1. PICK u \in Threads : pc[u] \in {"wlock", "dlock"}
            BY <1>2, <2>3 DEF Moves
        <3>2. u \in Senders /\ pc[u] = "wlock"
            BY <1>6, <3>1 DEF Locked, Threads
        <3> QED BY <1>4, <3>2
    <2> QED BY <2>1, <2>2, <2>3
<1>10. kind = "Client"
    BY <1>9 DEF Inv, Justified, Broken
<1>11. inn
    BY <1>7, <1>9, <1>10 DEF Gone, LinuxGone, MacosGone, Inv, Justified, TypeOK
<1> QED BY <1>6, <1>7, <1>9, <1>11 DEF HalfBroken

\* The lock, the two full channels and the controller never close a circle: whoever is
\* in send, recv or drop waits for somebody who can go on, for any number of senders,
\* except while HalfBroken, Deaf or Jammed, which the liveness properties except, too.
THEOREM NoCircleAlways == Spec => []NoCircle
<1>1. Inv /\ Locked /\ Waits /\ [Next]_vars => (Locked /\ Waits)'
    BY LockedStep, WaitsStep
<1> QED BY <1>1, InitCircle, SpecInv, NobodyWaitsInACircle, PTL DEF Spec
=============================================================================
