-------------------------------- MODULE Join --------------------------------
(***************************************************************************)
(* Joining the bus (Rule::join in ipmb/src/lib.rs, look_up and register of *)
(* ipmb/src/platform): processes that look for a controller, become it     *)
(* when there is none, and start over when it dies.                        *)
(*                                                                         *)
(* The operating system gives the identifier to one process at a time.     *)
(* Linux does so before the socket can be connected to; macOS and Windows  *)
(* in one step.                                                            *)
(***************************************************************************)
EXTENDS Naturals

CONSTANTS
    Procs,          \* processes, each with one endpoint
    Affine,         \* those with controller_affinity
    Timed,          \* those that join with a timeout
    Unprivileged,   \* those the system may refuse
    Verdict,        \* Verdict[c][p]: what controller c makes of p's request
    Platform,       \* "linux", "macos" or "windows"
    Retries,        \* 5: how many timeouts and refusals join puts up with
    Prompt,         \* a living controller answers within the two seconds
    MaxFaults       \* bound: processes that die, connections that break

ASSUME ProcsAssumption ==
    /\ Affine \subseteq Procs /\ Timed \subseteq Procs /\ Unprivileged \subseteq Procs
ASSUME VerdictAssumption ==
    Verdict \in [Procs -> [Procs -> {"ok", "version", "token", "unreadable"}]]
ASSUME NumbersAssumption ==
    /\ Retries \in Nat /\ MaxFaults \in Nat
    /\ Prompt \in BOOLEAN
ASSUME PlatformAssumption == Platform \in {"linux", "macos", "windows"}

Nobody == "none"
ASSUME NobodyAssumption == Nobody \notin Procs

VARIABLES
    pc,             \* where every process is in Rule::join, or its rule
    owner,          \* the process that has the identifier
    listening,      \* it can be connected to
    host,           \* the process every other one is connected to
    intact,         \* that connection works
    answer,         \* what came back on it
    timeouts,       \* timeout_count
    denied,         \* permission_denied_count
    expired,        \* the timeout of join has passed
    error,          \* the JoinError it returned
    faults

nameVars == <<owner, listening>>
linkVars == <<host, intact, answer>>
countVars == <<timeouts, denied, expired>>
vars == <<pc, nameVars, linkVars, countVars, error, faults>>

\* look: at look_up.  request: connected, before ConnectMessage is sent.
\* ack: waits for the answer.  register, listen: in register.  wait: at wait!.
Joining == {"look", "request", "ack", "register", "listen", "wait"}

TypeOK ==
    /\ pc \in [Procs -> Joining \cup {"off", "client", "server", "failed"}]
    /\ owner \in Procs \cup {Nobody}
    /\ listening \in BOOLEAN
    /\ host \in [Procs -> Procs \cup {Nobody}]
    /\ intact \in [Procs -> BOOLEAN]
    /\ answer \in [Procs -> {"none", "ok", "version", "token"}]
    /\ timeouts \in [Procs -> 0 .. Retries + 1]
    /\ denied \in [Procs -> 0 .. Retries + 1]
    /\ expired \in [Procs -> BOOLEAN]
    /\ error \in [Procs -> {"none", "version", "token", "timeout", "denied"}]
    /\ faults \in 0 .. MaxFaults

Init ==
    /\ pc = [p \in Procs |-> "off"]
    /\ owner = Nobody /\ listening = FALSE
    /\ host = [p \in Procs |-> Nobody]
    /\ intact = [p \in Procs |-> FALSE]
    /\ answer = [p \in Procs |-> "none"]
    /\ timeouts = [p \in Procs |-> 0]
    /\ denied = [p \in Procs |-> 0]
    /\ expired = [p \in Procs |-> FALSE]
    /\ error = [p \in Procs |-> "none"]
    /\ faults = 0

Goto(p, l) == pc' = [pc EXCEPT ![p] = l]

\* The connection of an attempt that is over is dropped.
Unlink(p) ==
    /\ host' = [host EXCEPT ![p] = Nobody]
    /\ intact' = [intact EXCEPT ![p] = FALSE]
    /\ answer' = [answer EXCEPT ![p] = "none"]

Return(p, err) ==
    /\ Goto(p, "failed")
    /\ error' = [error EXCEPT ![p] = err]

-----------------------------------------------------------------------------
(* Rule::join is called, by join or by an endpoint whose connection broke. *)

Begin(p) ==
    /\ \/ pc[p] \in {"off", "failed"}
       \/ pc[p] = "client" /\ ~intact[p]
    /\ Goto(p, "look")
    /\ Unlink(p)
    /\ timeouts' = [timeouts EXCEPT ![p] = 0]
    /\ denied' = [denied EXCEPT ![p] = 0]
    /\ expired' = [expired EXCEPT ![p] = FALSE]
    /\ error' = [error EXCEPT ![p] = "none"]
    /\ UNCHANGED <<nameVars, faults>>

\* The timeout of the whole call passes at some time.
Expire(p) ==
    /\ p \in Timed /\ pc[p] \in Joining /\ ~expired[p]
    /\ expired' = [expired EXCEPT ![p] = TRUE]
    /\ UNCHANGED <<pc, nameVars, linkVars, timeouts, denied, error, faults>>

\* Mutant: wait! sleeps on after the timeout.
WaitOn(p) ==
    /\ pc[p] = "wait"
    /\ Goto(p, "look")
    /\ UNCHANGED <<nameVars, linkVars, countVars, error, faults>>

\* wait!: the only place where the timeout is looked at.
Wait(p) ==
    /\ pc[p] = "wait"
    /\ \/ expired[p] /\ Return(p, "timeout")
       \/ ~expired[p] /\ Goto(p, "look") /\ UNCHANGED error
    /\ UNCHANGED <<nameVars, linkVars, countVars, faults>>

-----------------------------------------------------------------------------
(* look_up *)

Connect(p) ==
    /\ pc[p] = "look"
    /\ owner # Nobody /\ listening
    /\ host' = [host EXCEPT ![p] = owner]
    /\ intact' = [intact EXCEPT ![p] = TRUE]
    /\ Goto(p, "request")
    /\ UNCHANGED <<nameVars, answer, countVars, error, faults>>

\* Nobody listens there: register, or wait for somebody else to do it.
NotInUse(p) ==
    /\ pc[p] = "look"
    /\ ~listening
    /\ Goto(p, IF p \in Affine THEN "register" ELSE "wait")
    /\ UNCHANGED <<nameVars, linkVars, countVars, error, faults>>

SendRequest(p) ==
    /\ pc[p] = "request" /\ intact[p]
    /\ Goto(p, "ack")
    /\ UNCHANGED <<nameVars, linkVars, countVars, error, faults>>

\* The controller died meanwhile; on macOS this is noticed while the answer is
\* waited for, too.
Disconnected(p) ==
    /\ ~intact[p]
    /\ pc[p] = "request" \/ (Platform = "macos" /\ pc[p] = "ack" /\ answer[p] = "none")
    /\ Unlink(p)
    /\ Goto(p, "wait")
    /\ UNCHANGED <<nameVars, countVars, error, faults>>

\* The controller takes the header of the request for that of an incompatible
\* version: it is thrown away before anybody knows whom to answer.
Unreadable(p) == Verdict[host[p]][p] = "unreadable"

\* The bus thread of the controller: endpoint_connect.
Answer(p) ==
    /\ pc[p] = "ack" /\ intact[p] /\ answer[p] = "none"
    /\ pc[host[p]] = "server" /\ ~Unreadable(p)
    /\ answer' = [answer EXCEPT ![p] = Verdict[host[p]][p]]
    /\ UNCHANGED <<pc, nameVars, host, intact, countVars, error, faults>>

\* Mutant: whatever came back is taken for Ok.
AcceptedAny(p) ==
    /\ pc[p] = "ack" /\ answer[p] # "none"
    /\ Goto(p, "client")
    /\ UNCHANGED <<nameVars, linkVars, countVars, error, faults>>

Accepted(p) ==
    /\ pc[p] = "ack" /\ answer[p] = "ok"
    /\ Goto(p, "client")
    /\ UNCHANGED <<nameVars, linkVars, countVars, error, faults>>

Rejected(p) ==
    /\ pc[p] = "ack" /\ answer[p] \in {"version", "token"}
    /\ Return(p, answer[p])
    /\ Unlink(p)
    /\ UNCHANGED <<nameVars, countVars, faults>>

\* No answer comes for two seconds.  On Linux and Windows the process has the
\* other end of its channel as well until look_up returns, and does not notice
\* that the controller is dead.
Unanswered(p) ==
    \/ intact[p] /\ (Prompt => Unreadable(p))
    \/ ~intact[p] /\ Platform # "macos"

\* Mutant: a timeout is not counted.
TimeoutUncounted(p) ==
    /\ pc[p] = "ack" /\ answer[p] = "none"
    /\ Unanswered(p)
    /\ Goto(p, "wait")
    /\ Unlink(p)
    /\ UNCHANGED <<nameVars, countVars, error, faults>>

\* After too many timeouts, join reports a version mismatch.
Timeout(p) ==
    /\ pc[p] = "ack" /\ answer[p] = "none"
    /\ Unanswered(p)
    /\ timeouts' = [timeouts EXCEPT ![p] = @ + 1]
    /\ IF timeouts[p] + 1 > Retries THEN Return(p, "version")
       ELSE Goto(p, "wait") /\ UNCHANGED error
    /\ Unlink(p)
    /\ UNCHANGED <<nameVars, denied, expired, faults>>

\* look_up or register is refused.
PermissionDenied(p) ==
    /\ pc[p] \in {"look", "register"} /\ p \in Unprivileged
    /\ denied' = [denied EXCEPT ![p] = @ + 1]
    /\ IF denied[p] + 1 > Retries THEN Return(p, "denied")
       ELSE Goto(p, "wait") /\ UNCHANGED error
    /\ UNCHANGED <<nameVars, linkVars, timeouts, expired, faults>>

-----------------------------------------------------------------------------
(* register *)

\* Mutant: a socket that does not listen yet is taken over.
FreeUnlessListening == ~listening

\* The system has the identifier to give.
Free == owner = Nobody

\* bootstrap_register, CreateNamedPipe with FIRST_PIPE_INSTANCE, or bind, after
\* which others still find nobody.
Register(p) ==
    /\ pc[p] = "register" /\ Free
    /\ owner' = p
    /\ listening' = (Platform # "linux")
    /\ Goto(p, IF Platform = "linux" THEN "listen" ELSE "server")
    /\ UNCHANGED <<linkVars, countVars, error, faults>>

\* listen; BusController::run starts a thread.
Listen(p) ==
    /\ pc[p] = "listen"
    /\ listening' = TRUE
    /\ Goto(p, "server")
    /\ UNCHANGED <<owner, linkVars, countVars, error, faults>>

\* Mutant: a process that lost the election waits for ever.
IdentifierInUseStuck(p) == FALSE

\* Somebody was faster: look for it at once.
IdentifierInUse(p) ==
    /\ pc[p] = "register" /\ ~Free
    /\ Goto(p, "look")
    /\ UNCHANGED <<nameVars, linkVars, countVars, error, faults>>

-----------------------------------------------------------------------------
\* A process dies; its identifier is free and its connections are broken.
Die(p) ==
    /\ pc[p] \notin {"off", "failed"} /\ faults < MaxFaults
    /\ faults' = faults + 1
    /\ pc' = [pc EXCEPT ![p] = "off"]
    /\ owner' = IF owner = p THEN Nobody ELSE owner
    /\ listening' = (listening /\ owner # p)
    /\ host' = [host EXCEPT ![p] = Nobody]
    /\ intact' = [q \in Procs |-> intact[q] /\ q # p /\ host[q] # p]
    /\ answer' = [answer EXCEPT ![p] = "none"]
    /\ UNCHANGED <<countVars, error>>

\* The controller drops an endpoint that is alive.
Drop(p) ==
    /\ pc[p] = "client" /\ intact[p] /\ faults < MaxFaults
    /\ faults' = faults + 1
    /\ intact' = [intact EXCEPT ![p] = FALSE]
    /\ UNCHANGED <<pc, nameVars, host, answer, countVars, error>>

LookUp(p) ==
    \/ Connect(p) \/ NotInUse(p) \/ SendRequest(p) \/ Disconnected(p)
    \/ Accepted(p) \/ Rejected(p) \/ Timeout(p)

Next ==
    \E p \in Procs :
        \/ Begin(p) \/ Expire(p) \/ Wait(p)
        \/ LookUp(p) \/ Answer(p) \/ PermissionDenied(p)
        \/ Register(p) \/ Listen(p) \/ IdentifierInUse(p)
        \/ Die(p) \/ Drop(p)

Spec == Init /\ [][Next]_vars

\* Every process calls join, and an endpoint is used, so that it notices that its
\* connection broke; calls of the system come back; the bus thread runs; the time
\* passes.
Fairness ==
    \A p \in Procs :
        /\ WF_vars(Begin(p)) /\ WF_vars(Expire(p)) /\ WF_vars(Wait(p))
        /\ WF_vars(LookUp(p)) /\ WF_vars(Answer(p))
        /\ WF_vars(Register(p) \/ IdentifierInUse(p)) /\ WF_vars(Listen(p))

FairSpec == Spec /\ Fairness

-----------------------------------------------------------------------------
(* Properties *)

\* Endpoints whose connections work are on the same bus, that of the one process
\* that has the identifier and runs the controller: a dead controller's members
\* never form a second bus beside the new one.
OneBus ==
    /\ \A p \in Procs : pc[p] = "server" <=> listening /\ owner = p
    /\ \A p \in Procs : intact[p] => host[p] = owner /\ listening /\ host[p] # p

\* Joining implements the abstract membership: elections happen only on a bus
\* without controller, and only the controller of the moment lets processes in.
Members == {p \in Procs : pc[p] = "client" /\ intact[p]}
Group == INSTANCE Membership WITH
    controller <- IF listening THEN owner ELSE Nobody,
    members <- Members,
    Compatible <- {cp \in Procs \X Procs : Verdict[cp[1]][cp[2]] = "ok"}
ImplementsMembership == Group!Spec

\* A call of join with a timeout returns, however the others fail meanwhile.
JoinReturns == \A p \in Timed : pc[p] \in Joining ~> pc[p] \notin Joining

\* A process whose version is that of nobody else never gets an answer, and is
\* told so in the end, whoever dies and is elected meanwhile.
Stranger(p) ==
    p \notin Affine /\ \A c \in Procs \ {p} : Verdict[c][p] = "unreadable"
MismatchReported ==
    \A p \in Procs : Stranger(p) => (pc[p] = "look" ~> error[p] = "version")

\* After the last fault all the processes that go together end up on one bus, and
\* stay there.
Converges ==
    <>[](\E c \in Procs :
            /\ pc[c] = "server"
            /\ \A p \in Procs \ {c} : Verdict[c][p] = "ok" => p \in Members)
=============================================================================
