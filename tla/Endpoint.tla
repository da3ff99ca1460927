------------------------------ MODULE Endpoint ------------------------------
(***************************************************************************)
(* The endpoint of one process (ipmb/src/lib.rs): clones of EndpointSender *)
(* and one EndpointReceiver, each used by a thread of its own, share       *)
(* Arc<RwLock<Rule>>.  A client whose connection breaks joins again, in    *)
(* whichever thread notices first: the epoch of the rule keeps the other   *)
(* threads that noticed from joining once more.                            *)
(*                                                                         *)
(* A connection has two directions, which can break apart from each other: *)
(* `out` to the controller, `inn` back from it.  Each has room for one     *)
(* message.  Who sends on a full one waits: a sender with the lock taken   *)
(* for reading, the controller's only thread with the whole bus.  A        *)
(* message the system refuses is for the code a connection that broke.     *)
(***************************************************************************)
EXTENDS Naturals

CONSTANTS
    Senders,        \* threads, each with a clone of the EndpointSender
    Receiver,       \* the thread with the EndpointReceiver
    Platform,       \* "linux", "macos" or "windows"
    Breaks,         \* what can break at once: "out", "in", "both"
    Timed,          \* recv may be called with a timeout
    EpochMod,       \* number of epochs, 2^32 in the code
    MaxBreaks       \* bound: how often a connection breaks or refuses a message

Threads == Senders \cup {Receiver}

ASSUME ThreadAssumption == Receiver \notin Senders
ASSUME PlatformAssumption == Platform \in {"linux", "macos", "windows"}
ASSUME BreaksAssumption == Breaks \subseteq {"out", "in", "both"}
ASSUME EpochAssumption ==
    /\ EpochMod \in Nat /\ MaxBreaks \in Nat
    /\ MaxBreaks < EpochMod

VARIABLES
    kind,           \* the variant of Rule: "Client" or "Server"
    hub,            \* io_hub (Client) or receiver (Server) is Some
    reader_closed,
    epoch,
    readers,        \* threads that hold the RwLock for reading
    writers,        \* the thread that holds it for writing, if any
    pc,             \* what every thread is doing
    seen,           \* the epoch a thread saw fail
    dropped,        \* the EndpointReceiver is gone
    out, inn,       \* the two directions of the connection work
    spoilt,         \* a send on the connection was refused
    queued,         \* the way in is full: a message waits to be read
    outbox,         \* the way out is full: the controller has not taken it yet
    stuck,          \* the controller waits for room on the way in
    breaks,         \* how often a connection broke or refused a message
    joins           \* how often Rule::join gave a new rule

ruleVars == <<kind, hub, reader_closed, epoch>>
lockVars == <<readers, writers>>
netVars == <<out, inn, spoilt, queued, outbox, stuck, breaks>>
vars == <<ruleVars, lockVars, netVars, pc, seen, dropped, joins>>

TypeOK ==
    /\ kind \in {"Client", "Server"}
    /\ hub \in BOOLEAN
    /\ reader_closed \in BOOLEAN
    /\ epoch \in 0 .. EpochMod - 1
    /\ readers \subseteq Threads
    /\ writers \subseteq Threads
    /\ pc \in [Threads -> {"idle", "rlock", "reading", "wlock", "check", "join",
                            "dlock", "gone"}]
    /\ seen \in [Threads -> 0 .. EpochMod - 1]
    /\ dropped \in BOOLEAN
    /\ out \in BOOLEAN /\ inn \in BOOLEAN /\ spoilt \in BOOLEAN
    /\ queued \in BOOLEAN /\ outbox \in BOOLEAN /\ stuck \in BOOLEAN
    /\ breaks \in Nat
    /\ joins \in Nat

\* The state after the first join.
Init ==
    /\ kind \in {"Client", "Server"}
    /\ hub = TRUE
    /\ reader_closed = FALSE
    /\ epoch = 0
    /\ readers = {}
    /\ writers = {}
    /\ pc = [t \in Threads |-> "idle"]
    /\ seen = [t \in Threads |-> 0]
    /\ dropped = FALSE
    /\ out = TRUE /\ inn = TRUE /\ spoilt = FALSE
    /\ queued = FALSE /\ outbox = FALSE /\ stuck = FALSE
    /\ breaks = 0
    /\ joins = 0

-----------------------------------------------------------------------------
(* The RwLock and the connection, both outside of the repository's code. *)

Goto(t, l) == pc' = [pc EXCEPT ![t] = l]

\* Readers that come while a writer waits stay behind it.
ReadLock(t) ==
    /\ pc[t] = "rlock"
    /\ writers = {}
    /\ \A other \in Threads : pc[other] \notin {"wlock", "dlock"}
    /\ readers' = readers \cup {t}
    /\ Goto(t, "reading")
    /\ UNCHANGED <<ruleVars, writers, netVars, seen, dropped, joins>>

WriteLock(t) ==
    /\ pc[t] = "wlock"
    /\ writers = {} /\ readers = {}
    /\ writers' = {t}
    /\ Goto(t, "check")
    /\ UNCHANGED <<ruleVars, readers, netVars, seen, dropped, joins>>

\* Mutant: the lock stays taken for reading.
ReadKept(t) == UNCHANGED lockVars

ReadUnlock(t) == readers' = readers \ {t} /\ UNCHANGED writers
WriteUnlock == writers' = {} /\ UNCHANGED readers

\* The controller drops what this endpoint sends on, or this endpoint from its
\* table, neither of which it can do while it is stuck; or it dies.
Break(b) ==
    /\ kind = "Client"
    /\ breaks < MaxBreaks
    /\ \/ b = "out" /\ ~stuck /\ out /\ out' = FALSE /\ UNCHANGED inn
       \/ b = "in" /\ ~stuck /\ inn /\ inn' = FALSE /\ UNCHANGED out
       \/ b = "both" /\ out /\ inn /\ out' = FALSE /\ inn' = FALSE
    /\ stuck' = FALSE
    /\ outbox' = (outbox /\ out')
    /\ breaks' = breaks + 1
    /\ UNCHANGED <<ruleVars, lockVars, spoilt, queued, pc, seen, dropped, joins>>

\* The controller sends this endpoint a message, and waits when there is no room.
Hand ==
    /\ hub /\ (kind = "Client" => inn)
    /\ IF queued /\ kind = "Client" THEN stuck' = TRUE /\ UNCHANGED queued
       ELSE queued' = TRUE /\ UNCHANGED stuck

\* Somebody else's message is for this endpoint.
Arrive ==
    /\ ~stuck
    /\ Hand
    /\ UNCHANGED <<ruleVars, lockVars, out, inn, spoilt, outbox, breaks, pc, seen, dropped,
                   joins>>

\* The controller takes a message of this endpoint, which is for others or for
\* this endpoint itself.
Take ==
    /\ ~stuck /\ outbox
    /\ outbox' = FALSE
    /\ Hand \/ UNCHANGED <<queued, stuck>>
    /\ UNCHANGED <<ruleVars, lockVars, out, inn, spoilt, breaks, pc, seen, dropped, joins>>

\* Mutant: the controller does not notice that nobody reads any more.
ProceedWithRoom ==
    /\ stuck
    /\ hub /\ ~queued /\ queued' = TRUE
    /\ stuck' = FALSE
    /\ UNCHANGED <<ruleVars, lockVars, out, inn, spoilt, outbox, breaks, pc, seen, dropped,
                   joins>>

\* There is room again, or nobody reads any more and the send fails.
Proceed ==
    /\ stuck
    /\ \/ hub /\ ~queued /\ queued' = TRUE
       \/ ~hub /\ UNCHANGED queued
    /\ stuck' = FALSE
    /\ UNCHANGED <<ruleVars, lockVars, out, inn, spoilt, outbox, breaks, pc, seen, dropped,
                   joins>>

-----------------------------------------------------------------------------
(* EndpointSender::send *)

CallSend(t) ==
    /\ pc[t] = "idle"
    /\ Goto(t, "rlock")
    /\ UNCHANGED <<ruleVars, lockVars, netVars, seen, dropped, joins>>

\* A server hands the message to its bus controller, a client's message leaves
\* on the connection once there is room.
SendOk(t) ==
    /\ pc[t] = "reading"
    /\ kind = "Client" => out /\ ~outbox
    /\ outbox' = (kind = "Client")
    /\ ReadUnlock(t)
    /\ Goto(t, "idle")
    /\ UNCHANGED <<ruleVars, out, inn, spoilt, queued, stuck, breaks, seen, dropped, joins>>

\* Mutant: the lock is taken for writing while it is held for reading.
NoticeBreakLocked(t) ==
    /\ seen' = [seen EXCEPT ![t] = epoch]
    /\ Goto(t, "wlock")
    /\ UNCHANGED <<ruleVars, lockVars, dropped, joins>>

\* The epoch is remembered and the lock released before it is taken for writing.
NoticeBreak(t) ==
    /\ seen' = [seen EXCEPT ![t] = epoch]
    /\ ReadUnlock(t)
    /\ Goto(t, "wlock")
    /\ UNCHANGED <<ruleVars, dropped, joins>>

SendDisconnect(t) ==
    /\ pc[t] = "reading"
    /\ kind = "Client" /\ ~out
    /\ NoticeBreak(t)
    /\ UNCHANGED netVars

\* The system refuses the message on a connection that works: it is too large, or
\* what is attached cannot be handed over.  Linux and Windows report Disconnect, and
\* send tries the same message on a new connection; macOS reports Ok, for the port
\* is not dead, and the message is gone.
SendRefused(t) ==
    /\ pc[t] = "reading"
    /\ kind = "Client" /\ out
    /\ breaks < MaxBreaks /\ breaks' = breaks + 1
    /\ IF Platform = "macos"
       THEN ReadUnlock(t) /\ Goto(t, "idle") /\ UNCHANGED <<ruleVars, spoilt, seen, dropped, joins>>
       ELSE NoticeBreak(t) /\ spoilt' = TRUE
    /\ UNCHANGED <<out, inn, queued, outbox, stuck>>

-----------------------------------------------------------------------------
(* Joining again, in send and in recv. *)

\* Mutant: whoever noticed a break joins, whatever happened since.
StaleAlways(t) == kind = "Client"

\* The rule is still the one the thread saw fail.
Stale(t) == kind = "Client" /\ seen[t] = epoch

\* io_hub.take() before Rule::join, which runs with the lock held.
StartJoin(t) ==
    /\ pc[t] = "check"
    /\ Stale(t)
    /\ hub' = FALSE
    /\ queued' = FALSE
    /\ Goto(t, "join")
    /\ UNCHANGED <<kind, reader_closed, epoch, lockVars, out, inn, spoilt, outbox, stuck,
                   breaks, seen, dropped, joins>>

\* Somebody else has joined in between: back to the start of the loop.
SkipJoin(t) ==
    /\ pc[t] = "check"
    /\ ~Stale(t)
    /\ WriteUnlock
    /\ Goto(t, "rlock")
    /\ UNCHANGED <<ruleVars, netVars, seen, dropped, joins>>

\* overflowing_add(1)
NextEpoch == IF epoch + 1 = EpochMod THEN 0 ELSE epoch + 1

\* Mutant: the new rule is open although the receiver is gone.
HubOpened == TRUE

\* reader_close is applied to the new rule when it had been to the old one.
HubAfterJoin == ~reader_closed

\* Rule::join finds a controller that answers, or becomes it.  What is left of
\* the old connection is no concern of the new one.
JoinOk(t) ==
    /\ pc[t] = "join"
    /\ ~stuck /\ outbox' = FALSE
    /\ kind' \in {"Client", "Server"}
    /\ epoch' = NextEpoch
    /\ hub' = HubAfterJoin
    /\ out' = TRUE /\ inn' = TRUE /\ spoilt' = FALSE
    /\ joins' = joins + 1
    /\ WriteUnlock
    /\ Goto(t, "rlock")
    /\ UNCHANGED <<reader_closed, queued, stuck, breaks, seen, dropped>>

\* Rule::join fails and so does send or recv; the old rule stays, without hub.
JoinErr(t) ==
    /\ pc[t] = "join"
    /\ WriteUnlock
    /\ Goto(t, "idle")
    /\ UNCHANGED <<ruleVars, netVars, seen, dropped, joins>>

-----------------------------------------------------------------------------
(* EndpointReceiver::recv and its Drop *)

CallRecv ==
    /\ pc[Receiver] = "idle"
    /\ Goto(Receiver, "rlock")
    /\ UNCHANGED <<ruleVars, lockVars, netVars, seen, dropped, joins>>

\* A sender took the hub away and could not join.
RecvWithoutHub ==
    /\ pc[Receiver] = "reading"
    /\ kind = "Client" /\ ~reader_closed /\ ~hub
    /\ NoticeBreak(Receiver)
    /\ UNCHANGED netVars

\* The message is returned, or it is for nobody here (its label or its type) and
\* recv starts over.
RecvMessage ==
    /\ pc[Receiver] = "reading"
    /\ hub /\ queued
    /\ queued' = FALSE
    /\ ReadUnlock(Receiver)
    /\ Goto(Receiver, "idle") \/ Goto(Receiver, "rlock")
    /\ UNCHANGED <<ruleVars, out, inn, spoilt, outbox, stuck, breaks, seen, dropped, joins>>

\* Linux: a message with more descriptors than there is room for arrives cut off.  It
\* is an error, with which the hub closes its end of the connection.
RecvCut ==
    /\ pc[Receiver] = "reading"
    /\ Platform = "linux" /\ kind = "Client" /\ hub /\ queued
    /\ breaks < MaxBreaks /\ breaks' = breaks + 1
    /\ inn' = FALSE /\ queued' = FALSE /\ stuck' = FALSE
    /\ NoticeBreak(Receiver)
    /\ UNCHANGED <<out, spoilt, outbox>>

RecvTimeout ==
    /\ pc[Receiver] = "reading"
    /\ Timed /\ hub /\ ~queued
    /\ ReadUnlock(Receiver)
    /\ Goto(Receiver, "idle")
    /\ UNCHANGED <<ruleVars, netVars, seen, dropped, joins>>

\* Mutant: the end of the channel goes unnoticed.
LinuxGoneUnseen == FALSE

\* IoHub::recv reports Disconnect when everything was read.  Linux and Windows:
\* the channel from the controller has no writer.  macOS: the port to the
\* controller is dead.
LinuxGone == ~inn
MacosGone == ~out
Gone == IF Platform = "macos" THEN MacosGone ELSE LinuxGone

RecvDisconnect ==
    /\ pc[Receiver] = "reading"
    /\ kind = "Client" /\ hub /\ ~queued /\ Gone
    /\ NoticeBreak(Receiver)
    /\ UNCHANGED netVars

\* Drop waits for the lock like every writer.
CallDrop ==
    /\ pc[Receiver] = "idle"
    /\ Goto(Receiver, "dlock")
    /\ UNCHANGED <<ruleVars, lockVars, netVars, seen, dropped, joins>>

\* reader_close
DropReceiver ==
    /\ pc[Receiver] = "dlock"
    /\ writers = {} /\ readers = {}
    /\ hub' = FALSE
    /\ reader_closed' = TRUE
    /\ queued' = FALSE
    /\ dropped' = TRUE
    /\ Goto(Receiver, "gone")
    /\ UNCHANGED <<kind, epoch, lockVars, out, inn, spoilt, outbox, stuck, breaks, seen, joins>>

-----------------------------------------------------------------------------
Rejoin(t) == StartJoin(t) \/ SkipJoin(t) \/ JoinOk(t) \/ JoinErr(t)
Sending(t) == SendOk(t) \/ SendDisconnect(t)
Heeding == RecvWithoutHub \/ RecvMessage \/ RecvDisconnect
Receiving == Heeding \/ RecvTimeout
Controller == Take \/ Proceed

Next ==
    \/ \E t \in Threads : ReadLock(t) \/ WriteLock(t) \/ Rejoin(t)
    \/ \E t \in Senders : CallSend(t) \/ Sending(t) \/ SendRefused(t)
    \/ CallRecv \/ Receiving \/ RecvCut \/ CallDrop \/ DropReceiver
    \/ \E b \in Breaks : Break(b)
    \/ Arrive \/ Controller

Spec == Init /\ [][Next]_vars

\* What a thread does of itself once it was called.
Step(t) ==
    \/ ReadLock(t) \/ WriteLock(t) \/ Rejoin(t)
    \/ t \in Senders /\ Sending(t)
    \/ t = Receiver /\ (Heeding \/ DropReceiver)

\* A thread that can go on again and again does so: a lock that is free and room
\* on the connection are got in the end, and Rule::join comes back.  The
\* controller gets round to what is sent to it when it is not stuck.  Nobody has
\* to call anything, a call of recv need not have a timeout, and nothing need break
\* or be refused.
Fairness ==
    /\ \A t \in Threads : SF_vars(Step(t))
    /\ SF_vars(Take) /\ WF_vars(Proceed)

FairSpec == Spec /\ Fairness

-----------------------------------------------------------------------------
(* Properties *)

\* The read half is open exactly as long as the receiver lives, whichever thread
\* joined again in between: no unread messages pile up for a receiver that is
\* gone, and a receiver never meets "reader closed" (the expect in recv).
ReaderFollowsReceiver ==
    /\ reader_closed => dropped
    /\ dropped => ~hub
    /\ kind = "Server" /\ ~dropped => hub

\* A connection is given up only when one of its directions broke or when it has
\* itself refused a message: threads that saw an older one fail do not throw away the
\* new one.
HealthyKept ==
    [][\A t \in Threads : pc[t] = "check" /\ pc'[t] = "join" => ~out \/ ~inn \/ spoilt]_vars

\* The controller's own endpoint stays the controller's: a process that won the
\* election does not join a second time.
ServerForGood == [][kind = "Server" => kind' = "Server"]_vars

\* The receiver has the lock and waits for a message on a connection that works in
\* its direction; in the other it broke, or refused a message of a sender.
HalfBroken == pc[Receiver] = "reading" /\ inn /\ ~queued /\ (~out \/ spoilt)

\* The controller waits for a receiver that nobody calls recv of, be it dropped
\* or not.
Deaf == stuck /\ pc[Receiver] \in {"idle", "dlock"}

\* A sender whose message was refused waits for another one, which has the lock and
\* waits for the controller, which waits for the receiver, which waits behind the first.
Jammed ==
    /\ spoilt /\ stuck /\ outbox /\ pc[Receiver] = "rlock"
    /\ \E t, u \in Senders : pc[t] = "wlock" /\ pc[u] = "reading"

\* Thread t can take its next step, which is ENABLED Step(t) spelled out.
Moves(t) ==
    \/ pc[t] = "rlock" /\ writers = {} /\ \A u \in Threads : pc[u] \notin {"wlock", "dlock"}
    \/ pc[t] \in {"wlock", "dlock"} /\ writers = {} /\ readers = {}
    \/ pc[t] \in {"check", "join"}
    \/ t \in Senders /\ pc[t] = "reading" /\ (kind = "Client" => ~out \/ ~outbox)
    \/ t = Receiver /\ pc[t] = "reading" /\ hub /\ queued
    \/ t = Receiver /\ pc[t] = "reading" /\ kind = "Client" /\ (~hub \/ Gone)

ControllerMoves == IF stuck THEN ~hub \/ ~queued ELSE outbox

\* The receiver waits for a message, as it may, on a connection it thinks works.
Listens == pc[Receiver] = "reading" /\ hub /\ ~queued /\ (kind = "Client" => ~Gone)

\* Threads never wait in a circle, over the lock, the full connection and the
\* controller together: while one of them is in a call, one of them or the controller
\* can go on, but for the three situations that have a name.
NoCircle ==
    (\E t \in Threads : pc[t] \notin {"idle", "gone"} /\ ~(t = Receiver /\ Listens)) =>
        \/ \E t \in Threads : Moves(t)
        \/ ControllerMoves \/ HalfBroken \/ Deaf \/ Jammed

\* A call of send comes back, with Ok or with the error of a join, unless its message
\* is refused for ever (MaxBreaks), it is kept from joining by a receiver that waits
\* for ever, or the bus is by one that does not receive, or by the circle Jammed.
SendReturns ==
    \/ <>[]HalfBroken \/ <>[]Deaf \/ <>[]Jammed
    \/ \A t \in Senders : (pc[t] = "rlock") ~> (pc[t] = "idle")

\* An endpoint holds the controller up only while its receiver does not receive:
\* neither the lock, which the receiver needs to read, nor a sender that waits
\* with the lock, nor a broken connection does so for good, but for the circle Jammed.
BusGoesOn == <>[]Deaf \/ <>[]Jammed \/ (stuck ~> ~stuck)

\* Dropping the receiver comes to an end, unless a sender has the lock and waits
\* for the controller, which waits for the receiver.
DropReturns == <>[]Deaf \/ ((pc[Receiver] = "dlock") ~> dropped)

\* "dropping receiver will close underly receving kernel buffer"
\* (EndpointReceiver).
DropCloses == (pc[Receiver] = "dlock") ~> ~hub
=============================================================================
