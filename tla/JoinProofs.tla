----------------------------- MODULE JoinProofs -----------------------------
(***************************************************************************)
(* Proofs about Join: the type invariant, OneBus, and that Join implements *)
(* the abstract membership, for every set of processes, every platform and *)
(* every number of faults.                                                 *)
(*                                                                         *)
(* IInv says where an endpoint that is at a place of Rule::join may stand  *)
(* to the identifier (Naming), to its connection (Linked) and to the       *)
(* answer on it (Answers).                                                 *)
(***************************************************************************)
EXTENDS Join, TLAPS

Naming ==
    /\ owner = Nobody => ~listening
    /\ \A p \in Procs :
           /\ pc[p] = "server" <=> listening /\ owner = p
           /\ pc[p] = "listen" <=> ~listening /\ owner = p
           /\ pc[p] \in {"register", "listen", "server"} => p \in Affine

Linked ==
    \A p \in Procs : intact[p] =>
        /\ pc[p] \in {"request", "ack", "client"}
        /\ listening /\ host[p] = owner /\ host[p] # p

Answers ==
    \A p \in Procs :
        /\ pc[p] \notin {"ack", "client"} => answer[p] = "none"
        /\ pc[p] = "client" /\ intact[p] => answer[p] = "ok"
        /\ intact[p] /\ answer[p] # "none" => answer[p] = Verdict[host[p]][p]

Patience ==
    \A p \in Procs : pc[p] \in Joining => timeouts[p] <= Retries /\ denied[p] <= Retries

IInv == TypeOK /\ Patience /\ Naming /\ Linked /\ Answers

USE DEF Joining, Nobody

-----------------------------------------------------------------------------

LEMMA InitIInv == Init => IInv
<1> SUFFICES ASSUME Init PROVE IInv
  OBVIOUS
<1> USE NobodyAssumption, NumbersAssumption DEF Init
<1>1. 0 \in 0 .. Retries + 1 /\ faults \in 0 .. MaxFaults
  OBVIOUS
<1>2. TypeOK
  BY <1>1 DEF TypeOK
<1>3. Patience
  BY DEF Patience
<1>4. Naming
  BY DEF Naming
<1>5. Linked /\ Answers
  BY DEF Linked, Answers
<1> QED BY <1>2, <1>3, <1>4, <1>5 DEF IInv

LEMMA TypeStep == IInv /\ [Next]_vars => TypeOK' /\ Patience'
<1> SUFFICES ASSUME TypeOK, Patience, Naming, Linked, [Next]_vars PROVE TypeOK' /\ Patience'
  BY DEF IInv
<1> USE NumbersAssumption, VerdictAssumption, NobodyAssumption
        DEF TypeOK, Patience, nameVars, linkVars, countVars, Goto, Unlink, Return
<1>1. CASE UNCHANGED vars
  BY <1>1 DEF vars
<1>2. ASSUME NEW p \in Procs, Begin(p) PROVE TypeOK' /\ Patience'
  <2>1. /\ timeouts' \in [Procs -> 0 .. Retries + 1]
        /\ denied' \in [Procs -> 0 .. Retries + 1]
    BY <1>2 DEF Begin
  <2> QED BY <1>2, <2>1 DEF Begin
<1>3. ASSUME NEW p \in Procs, Expire(p) PROVE TypeOK' /\ Patience'
  BY <1>3 DEF Expire
<1>4. ASSUME NEW p \in Procs, Wait(p) PROVE TypeOK' /\ Patience'
  BY <1>4 DEF Wait
<1>5. ASSUME NEW p \in Procs, LookUp(p) PROVE TypeOK' /\ Patience'
  <2>1. CASE Connect(p) BY <2>1 DEF Connect
  <2>2. CASE NotInUse(p) BY <2>2 DEF NotInUse
  <2>3. CASE SendRequest(p) BY <2>3 DEF SendRequest
  <2>4. CASE Disconnected(p) BY <2>4 DEF Disconnected
  <2>5. CASE Accepted(p) BY <2>5 DEF Accepted
  <2>6. CASE Rejected(p) BY <2>6 DEF Rejected
  <2>7. CASE Timeout(p)
    <3>1. timeouts' \in [Procs -> 0 .. Retries + 1]
      BY <2>7 DEF Timeout
    <3>2. pc' \in [Procs -> Joining \cup {"off", "client", "server", "failed"}]
          /\ error' \in [Procs -> {"none", "version", "token", "timeout", "denied"}]
      BY <2>7 DEF Timeout
    <3>3. TypeOK'
      BY <2>7, <3>1, <3>2 DEF Timeout
    <3>4. Patience'
      BY <2>7, <3>1, <3>2 DEF Timeout
    <3> QED BY <3>3, <3>4
  <2> QED BY <1>5, <2>1, <2>2, <2>3, <2>4, <2>5, <2>6, <2>7 DEF LookUp
<1>6. ASSUME NEW p \in Procs, Answer(p) PROVE TypeOK' /\ Patience'
  <2>1. host[p] \in Procs
    BY <1>6 DEF Answer, Naming, Linked
  <2> QED BY <1>6, <2>1 DEF Answer, Unreadable
<1>7. ASSUME NEW p \in Procs, PermissionDenied(p) PROVE TypeOK' /\ Patience'
  <2>1. denied' \in [Procs -> 0 .. Retries + 1]
    BY <1>7 DEF PermissionDenied
  <2>2. pc' \in [Procs -> Joining \cup {"off", "client", "server", "failed"}]
        /\ error' \in [Procs -> {"none", "version", "token", "timeout", "denied"}]
    BY <1>7 DEF PermissionDenied
  <2>3. TypeOK'
    BY <1>7, <2>1, <2>2 DEF PermissionDenied
  <2>4. Patience'
    BY <1>7, <2>1, <2>2 DEF PermissionDenied
  <2> QED BY <2>3, <2>4
<1>8. ASSUME NEW p \in Procs, Register(p) \/ Listen(p) \/ IdentifierInUse(p)
      PROVE TypeOK' /\ Patience'
  BY <1>8 DEF Register, Listen, IdentifierInUse
<1>9. ASSUME NEW p \in Procs, Die(p) PROVE TypeOK' /\ Patience'
  <2>1. faults' \in 0 .. MaxFaults
    BY <1>9 DEF Die
  <2> QED BY <1>9, <2>1 DEF Die
<1>10. ASSUME NEW p \in Procs, Drop(p) PROVE TypeOK' /\ Patience'
  <2>1. faults' \in 0 .. MaxFaults
    BY <1>10 DEF Drop
  <2> QED BY <1>10, <2>1 DEF Drop
<1> QED
  BY <1>1, <1>2, <1>3, <1>4, <1>5, <1>6, <1>7, <1>8, <1>9, <1>10 DEF Next

LEMMA NamingStep == IInv /\ [Next]_vars => Naming'
<1> SUFFICES ASSUME IInv, [Next]_vars PROVE Naming'
  OBVIOUS
<1> USE NobodyAssumption, PlatformAssumption, VerdictAssumption
        DEF IInv, TypeOK, Naming, nameVars, linkVars, countVars,
            Goto, Unlink, Return
<1>1. CASE UNCHANGED vars
  BY <1>1 DEF vars
<1>2. ASSUME NEW p \in Procs, Begin(p) PROVE Naming'
  BY <1>2 DEF Begin
<1>3. ASSUME NEW p \in Procs, Expire(p) PROVE Naming'
  BY <1>3 DEF Expire
<1>4. ASSUME NEW p \in Procs, Wait(p) PROVE Naming'
  BY <1>4 DEF Wait
<1>5. ASSUME NEW p \in Procs, Connect(p) PROVE Naming'
  BY <1>5 DEF Connect
<1>6. ASSUME NEW p \in Procs, NotInUse(p) PROVE Naming'
  BY <1>6 DEF NotInUse
<1>7. ASSUME NEW p \in Procs, SendRequest(p) PROVE Naming'
  BY <1>7 DEF SendRequest
<1>8. ASSUME NEW p \in Procs, Disconnected(p) PROVE Naming'
  BY <1>8 DEF Disconnected
<1>9. ASSUME NEW p \in Procs, Accepted(p) PROVE Naming'
  BY <1>9 DEF Accepted
<1>10. ASSUME NEW p \in Procs, Rejected(p) PROVE Naming'
  BY <1>10 DEF Rejected
<1>11. ASSUME NEW p \in Procs, Timeout(p) PROVE Naming'
  BY <1>11 DEF Timeout
<1>12. ASSUME NEW p \in Procs, Answer(p) PROVE Naming'
  BY <1>12 DEF Answer
<1>13. ASSUME NEW p \in Procs, PermissionDenied(p) PROVE Naming'
  BY <1>13 DEF PermissionDenied
<1>14. ASSUME NEW p \in Procs, Register(p) PROVE Naming'
  <2>1. \A q \in Procs : pc[q] \notin {"server", "listen"}
    BY <1>14 DEF Register, Free
  <2>2. p \in Affine /\ owner' = p /\ p # Nobody
    BY <1>14 DEF Register
  <2>3. CASE Platform = "linux"
    <3>1. ~listening' /\ pc' = [pc EXCEPT ![p] = "listen"]
      BY <1>14, <2>3 DEF Register
    <3> QED BY <2>1, <2>2, <3>1
  <2>4. CASE Platform # "linux"
    <3>1. listening' /\ pc' = [pc EXCEPT ![p] = "server"]
      BY <1>14, <2>4 DEF Register
    <3> QED BY <2>1, <2>2, <3>1
  <2> QED BY <2>3, <2>4
<1>15. ASSUME NEW p \in Procs, Listen(p) PROVE Naming'
  BY <1>15 DEF Listen
<1>16. ASSUME NEW p \in Procs, IdentifierInUse(p) PROVE Naming'
  BY <1>16 DEF IdentifierInUse
<1>17. ASSUME NEW p \in Procs, Die(p) PROVE Naming'
  BY <1>17 DEF Die
<1>18. ASSUME NEW p \in Procs, Drop(p) PROVE Naming'
  BY <1>18 DEF Drop
<1> QED
  BY <1>1, <1>2, <1>3, <1>4, <1>5, <1>6, <1>7, <1>8, <1>9,
     <1>10, <1>11, <1>12, <1>13, <1>14, <1>15, <1>16, <1>17, <1>18 DEF Next, LookUp

LEMMA LinkedStep == IInv /\ [Next]_vars => Linked'
<1> SUFFICES ASSUME IInv, [Next]_vars PROVE Linked'
  OBVIOUS
<1> USE NobodyAssumption, PlatformAssumption, VerdictAssumption
        DEF IInv, TypeOK, Naming, Linked, nameVars, linkVars, countVars,
            Goto, Unlink, Return
<1>1. CASE UNCHANGED vars
  BY <1>1 DEF vars
<1>2. ASSUME NEW p \in Procs, Begin(p) PROVE Linked'
  BY <1>2 DEF Begin
<1>3. ASSUME NEW p \in Procs, Expire(p) PROVE Linked'
  BY <1>3 DEF Expire
<1>4. ASSUME NEW p \in Procs, Wait(p) PROVE Linked'
  BY <1>4 DEF Wait
<1>5. ASSUME NEW p \in Procs, Connect(p) PROVE Linked'
  BY <1>5 DEF Connect
<1>6. ASSUME NEW p \in Procs, NotInUse(p) PROVE Linked'
  BY <1>6 DEF NotInUse
<1>7. ASSUME NEW p \in Procs, SendRequest(p) PROVE Linked'
  BY <1>7 DEF SendRequest
<1>8. ASSUME NEW p \in Procs, Disconnected(p) PROVE Linked'
  BY <1>8 DEF Disconnected
<1>9. ASSUME NEW p \in Procs, Accepted(p) PROVE Linked'
  BY <1>9 DEF Accepted
<1>10. ASSUME NEW p \in Procs, Rejected(p) PROVE Linked'
  BY <1>10 DEF Rejected
<1>11. ASSUME NEW p \in Procs, Timeout(p) PROVE Linked'
  BY <1>11 DEF Timeout
<1>12. ASSUME NEW p \in Procs, Answer(p) PROVE Linked'
  BY <1>12 DEF Answer
<1>13. ASSUME NEW p \in Procs, PermissionDenied(p) PROVE Linked'
  BY <1>13 DEF PermissionDenied
<1>14. ASSUME NEW p \in Procs, Register(p) PROVE Linked'
  BY <1>14 DEF Register, Free
<1>15. ASSUME NEW p \in Procs, Listen(p) PROVE Linked'
  BY <1>15 DEF Listen
<1>16. ASSUME NEW p \in Procs, IdentifierInUse(p) PROVE Linked'
  BY <1>16 DEF IdentifierInUse
<1>17. ASSUME NEW p \in Procs, Die(p) PROVE Linked'
  BY <1>17 DEF Die
<1>18. ASSUME NEW p \in Procs, Drop(p) PROVE Linked'
  BY <1>18 DEF Drop
<1> QED
  BY <1>1, <1>2, <1>3, <1>4, <1>5, <1>6, <1>7, <1>8, <1>9,
     <1>10, <1>11, <1>12, <1>13, <1>14, <1>15, <1>16, <1>17, <1>18 DEF Next, LookUp

LEMMA AnswersStep == IInv /\ [Next]_vars => Answers'
<1> SUFFICES ASSUME IInv, [Next]_vars PROVE Answers'
  OBVIOUS
<1> USE NobodyAssumption, PlatformAssumption, VerdictAssumption
        DEF IInv, TypeOK, Linked, Answers, nameVars, linkVars, countVars,
            Goto, Unlink, Return
<1>1. CASE UNCHANGED vars
  BY <1>1 DEF vars
<1>2. ASSUME NEW p \in Procs, Begin(p) PROVE Answers'
  BY <1>2 DEF Begin
<1>3. ASSUME NEW p \in Procs, Expire(p) PROVE Answers'
  BY <1>3 DEF Expire
<1>4. ASSUME NEW p \in Procs, Wait(p) PROVE Answers'
  BY <1>4 DEF Wait
<1>5. ASSUME NEW p \in Procs, Connect(p) PROVE Answers'
  BY <1>5 DEF Connect
<1>6. ASSUME NEW p \in Procs, NotInUse(p) PROVE Answers'
  BY <1>6 DEF NotInUse
<1>7. ASSUME NEW p \in Procs, SendRequest(p) PROVE Answers'
  BY <1>7 DEF SendRequest
<1>8. ASSUME NEW p \in Procs, Disconnected(p) PROVE Answers'
  BY <1>8 DEF Disconnected
<1>9. ASSUME NEW p \in Procs, Accepted(p) PROVE Answers'
  BY <1>9 DEF Accepted
<1>10. ASSUME NEW p \in Procs, Rejected(p) PROVE Answers'
  BY <1>10 DEF Rejected
<1>11. ASSUME NEW p \in Procs, Timeout(p) PROVE Answers'
  BY <1>11 DEF Timeout
<1>12. ASSUME NEW p \in Procs, Answer(p) PROVE Answers'
  BY <1>12 DEF Answer
<1>13. ASSUME NEW p \in Procs, PermissionDenied(p) PROVE Answers'
  BY <1>13 DEF PermissionDenied
<1>14. ASSUME NEW p \in Procs, Register(p) PROVE Answers'
  BY <1>14 DEF Register, Free
<1>15. ASSUME NEW p \in Procs, Listen(p) PROVE Answers'
  BY <1>15 DEF Listen
<1>16. ASSUME NEW p \in Procs, IdentifierInUse(p) PROVE Answers'
  BY <1>16 DEF IdentifierInUse
<1>17. ASSUME NEW p \in Procs, Die(p) PROVE Answers'
  BY <1>17 DEF Die
<1>18. ASSUME NEW p \in Procs, Drop(p) PROVE Answers'
  BY <1>18 DEF Drop
<1> QED
  BY <1>1, <1>2, <1>3, <1>4, <1>5, <1>6, <1>7, <1>8, <1>9,
     <1>10, <1>11, <1>12, <1>13, <1>14, <1>15, <1>16, <1>17, <1>18 DEF Next, LookUp

LEMMA StepIInv == IInv /\ [Next]_vars => IInv'
  BY TypeStep, NamingStep, LinkedStep, AnswersStep DEF IInv

THEOREM SpecIInv == Spec => []IInv
<1>1. IInv /\ [Next]_vars => IInv'
  BY StepIInv
<1> QED BY <1>1, InitIInv, PTL DEF Spec

\* Every variable of a join stays within its range.
THEOREM TypeCorrect == Spec => []TypeOK
<1>1. IInv => TypeOK
  BY DEF IInv
<1> QED BY <1>1, SpecIInv, PTL

\* Every endpoint whose connection works is on the bus of the one process that
\* has the identifier and runs the controller, whatever dies and whenever.
THEOREM OneBusAlways == Spec => []OneBus
<1>1. IInv => OneBus
  BY DEF IInv, Naming, Linked, OneBus
<1> QED BY <1>1, SpecIInv, PTL

-----------------------------------------------------------------------------
(* The refinement *)

USE DEF Group!None

LEMMA GroupInit == Init => Group!Init
  BY DEF Init, Members, Group!Init

\* A step at which neither the controller nor the members change.
LEMMA GroupStutter ==
    ASSUME owner' = owner, listening' = listening, Members' = Members
    PROVE  UNCHANGED Group!vars
  BY DEF Group!vars

\* Every step of a join is a step of the abstract membership or none.
LEMMA GroupStep == IInv /\ IInv' /\ [Next]_vars => [Group!Next]_(Group!vars)
<1> SUFFICES ASSUME IInv, IInv', [Next]_vars
             PROVE  Group!Next \/ UNCHANGED Group!vars
  OBVIOUS
<1> USE NobodyAssumption
        DEF IInv, TypeOK, Members, nameVars, linkVars, countVars, Goto, Unlink, Return
<1>1. CASE UNCHANGED vars
  BY <1>1, GroupStutter DEF vars
<1>2. ASSUME NEW p \in Procs,
             Begin(p) \/ Expire(p) \/ Wait(p) \/ Answer(p) \/ PermissionDenied(p)
      PROVE  UNCHANGED Group!vars
  <2>1. owner' = owner /\ listening' = listening
    BY <1>2 DEF Begin, Expire, Wait, Answer, PermissionDenied
  <2>2. Members' = Members
    BY <1>2 DEF Begin, Expire, Wait, Answer, PermissionDenied
  <2> QED BY <2>1, <2>2, GroupStutter
<1>3. ASSUME NEW p \in Procs,
             \/ Connect(p) \/ NotInUse(p) \/ SendRequest(p) \/ Disconnected(p)
             \/ Rejected(p) \/ Timeout(p) \/ IdentifierInUse(p)
      PROVE  UNCHANGED Group!vars
  <2>1. owner' = owner /\ listening' = listening
    BY <1>3 DEF Connect, NotInUse, SendRequest, Disconnected, Rejected, Timeout,
                IdentifierInUse
  <2>2. pc[p] # "client" /\ pc' = [pc EXCEPT ![p] = pc'[p]] /\ pc'[p] # "client"
    BY <1>3 DEF Connect, NotInUse, SendRequest, Disconnected, Rejected, Timeout,
                IdentifierInUse
  <2>3. \A q \in Procs \ {p} : intact'[q] = intact[q]
    BY <1>3 DEF Connect, NotInUse, SendRequest, Disconnected, Rejected, Timeout,
                IdentifierInUse
  <2>4. Members' = Members
    BY <2>2, <2>3
  <2> QED BY <2>1, <2>4, GroupStutter
<1>4. ASSUME NEW p \in Procs, Accepted(p)
      PROVE  Group!Next \/ UNCHANGED Group!vars
  <2>1. owner' = owner /\ listening' = listening
    BY <1>4 DEF Accepted
  <2>2. CASE ~intact[p]
    <3>1. Members' = Members
      BY <1>4, <2>2 DEF Accepted
    <3> QED BY <2>1, <3>1, GroupStutter
  <2>3. CASE intact[p]
    <3>1. Members' = Members \cup {p} /\ p \notin Members
      BY <1>4, <2>3 DEF Accepted
    <3>2. listening /\ owner \in Procs /\ p # owner /\ Verdict[owner][p] = "ok"
      BY <1>4, <2>3 DEF Accepted, Naming, Linked, Answers
    <3>3. Group!Admit(p)
      BY <2>1, <3>1, <3>2 DEF Group!Admit
    <3> QED BY <3>3 DEF Group!Next
  <2> QED BY <2>2, <2>3
<1>5. ASSUME NEW p \in Procs, Register(p) \/ Listen(p)
      PROVE  Group!Next \/ UNCHANGED Group!vars
  <2>1. Members' = Members
    BY <1>5 DEF Register, Listen
  <2>2. ~listening /\ owner' = p /\ p \in Affine
    BY <1>5 DEF Register, Listen, Free, Naming
  <2>3. CASE listening'
    <3>1. Group!Elect(p)
      BY <2>1, <2>2, <2>3 DEF Group!Elect
    <3> QED BY <3>1 DEF Group!Next
  <2>4. CASE ~listening'
    BY <2>1, <2>2, <2>4 DEF Group!vars
  <2> QED BY <2>3, <2>4
<1>6. ASSUME NEW p \in Procs, Die(p)
      PROVE  Group!Next \/ UNCHANGED Group!vars
  <2>1. CASE owner = p
    <3>1. owner' = Nobody /\ ~listening'
      BY <1>6, <2>1 DEF Die
    <3>2. Members' = {}
      BY <3>1 DEF Linked
    <3>3. CASE listening
      <4>1. Group!Die
        BY <2>1, <3>1, <3>2, <3>3 DEF Group!Die
      <4> QED BY <4>1 DEF Group!Next
    <3>4. CASE ~listening
      <4>1. Members = {}
        BY <3>4 DEF Linked
      <4> QED BY <3>1, <3>2, <3>4, <4>1 DEF Group!vars
    <3> QED BY <3>3, <3>4
  <2>2. CASE owner # p
    <3>1. owner' = owner /\ listening' = listening
      BY <1>6, <2>2 DEF Die
    <3>2. \A q \in Procs : intact[q] => host[q] # p
      BY <2>2 DEF Linked
    <3>3. Members' = Members \ {p}
      BY <1>6, <3>2 DEF Die
    <3>4. CASE p \in Members
      <4>1. Group!Leave(p)
        BY <3>1, <3>3, <3>4 DEF Group!Leave
      <4> QED BY <4>1 DEF Group!Next
    <3>5. CASE p \notin Members
      <4>1. Members' = Members
        BY <3>3, <3>5
      <4> QED BY <3>1, <4>1, GroupStutter
    <3> QED BY <3>4, <3>5
  <2> QED BY <2>1, <2>2
<1>7. ASSUME NEW p \in Procs, Drop(p) PROVE Group!Next
  <2>1. owner' = owner /\ listening' = listening
    BY <1>7 DEF Drop
  <2>2. p \in Members /\ Members' = Members \ {p}
    BY <1>7 DEF Drop
  <2>3. Group!Leave(p)
    BY <2>1, <2>2 DEF Group!Leave
  <2> QED BY <2>3 DEF Group!Next
<1> QED
  BY <1>1, <1>2, <1>3, <1>4, <1>5, <1>6, <1>7 DEF Next, LookUp

\* Joining implements the abstract membership: a controller is elected only when
\* there is none, only the controller of the moment lets processes in, and all
\* of its members lose it when it dies.
THEOREM ImplementsMembershipAlways == Spec => ImplementsMembership
<1>1. IInv /\ IInv' /\ [Next]_vars => [Group!Next]_(Group!vars)
  BY GroupStep
<1>2. Init => Group!Init
  BY GroupInit
<1> QED BY <1>1, <1>2, SpecIInv, PTL DEF Spec, ImplementsMembership, Group!Spec
-----------------------------------------------------------------------------
(* What join reports *)

\* A controller other than p makes v of p's request.
Said(p, v) == \E c \in Procs \ {p} : Verdict[c][p] = v

\* What an attempt remembers comes from a controller, the caller or the system.
Grounded ==
    \A p \in Procs :
        /\ answer[p] # "none" => Said(p, answer[p])
        /\ pc[p] = "client" => Said(p, "ok")
        /\ expired[p] => p \in Timed
        /\ denied[p] > 0 => p \in Unprivileged

\* join fails for the reason it gives; the one false report is a version mismatch
\* after too many timeouts.
Reports ==
    \A p \in Procs :
        /\ pc[p] = "failed" <=> error[p] # "none"
        /\ error[p] = "token" => Said(p, "token")
        /\ error[p] = "version" => Said(p, "version") \/ timeouts[p] > Retries
        /\ error[p] = "timeout" => p \in Timed /\ expired[p]
        /\ error[p] = "denied" => p \in Unprivileged /\ denied[p] > Retries

\* A process nobody can read is never let in, and learns of it by timeouts only.
StrangersStayOut ==
    \A p \in Procs :
        (\A c \in Procs \ {p} : Verdict[c][p] = "unreadable") =>
            /\ pc[p] # "client" /\ error[p] # "token"
            /\ error[p] = "version" => timeouts[p] > Retries

LEMMA GroundedStep == IInv /\ Grounded /\ [Next]_vars => Grounded'
<1> SUFFICES ASSUME IInv, Grounded, [Next]_vars PROVE Grounded'
  OBVIOUS
<1> USE NumbersAssumption
        DEF IInv, TypeOK, Grounded, Said, nameVars, linkVars, countVars, Goto, Unlink, Return
<1>1. CASE UNCHANGED vars
  BY <1>1 DEF vars
<1>2. ASSUME NEW p \in Procs, Begin(p) PROVE Grounded'
  BY <1>2 DEF Begin
<1>3. ASSUME NEW p \in Procs, Expire(p) \/ Wait(p) PROVE Grounded'
  BY <1>3 DEF Expire, Wait
<1>4. ASSUME NEW p \in Procs, LookUp(p) PROVE Grounded'
  <2>1. CASE Connect(p) BY <2>1 DEF Connect
  <2>2. CASE NotInUse(p) BY <2>2 DEF NotInUse
  <2>3. CASE SendRequest(p) BY <2>3 DEF SendRequest
  <2>4. CASE Disconnected(p) BY <2>4 DEF Disconnected
  <2>5. CASE Accepted(p) BY <2>5 DEF Accepted
  <2>6. CASE Rejected(p) BY <2>6 DEF Rejected
  <2>7. CASE Timeout(p) BY <2>7 DEF Timeout
  <2> QED BY <1>4, <2>1, <2>2, <2>3, <2>4, <2>5, <2>6, <2>7 DEF LookUp
<1>5. ASSUME NEW p \in Procs, Answer(p) PROVE Grounded'
  <2>1. host[p] \in Procs \ {p}
    BY <1>5 DEF Answer, Naming, Linked
  <2>2. Said(p, Verdict[host[p]][p])
    BY <2>1
  <2> QED BY <1>5, <2>2 DEF Answer
<1>6. ASSUME NEW p \in Procs, PermissionDenied(p) PROVE Grounded'
  BY <1>6 DEF PermissionDenied
<1>7. ASSUME NEW p \in Procs, Register(p) \/ Listen(p) \/ IdentifierInUse(p)
      PROVE Grounded'
  BY <1>7 DEF Register, Listen, IdentifierInUse
<1>8. ASSUME NEW p \in Procs, Die(p) \/ Drop(p) PROVE Grounded'
  BY <1>8 DEF Die, Drop
<1> QED
  BY <1>1, <1>2, <1>3, <1>4, <1>5, <1>6, <1>7, <1>8 DEF Next

LEMMA ReportsStep == IInv /\ Grounded /\ Reports /\ [Next]_vars => Reports'
<1> SUFFICES ASSUME IInv, Grounded, Reports, [Next]_vars PROVE Reports'
  OBVIOUS
<1> USE NumbersAssumption
        DEF IInv, TypeOK, Reports, Said, nameVars, linkVars, countVars, Goto, Unlink, Return
<1>1. CASE UNCHANGED vars
  BY <1>1 DEF vars
<1>2. ASSUME NEW p \in Procs, Begin(p) PROVE Reports'
  BY <1>2 DEF Begin
<1>3. ASSUME NEW p \in Procs, Expire(p) PROVE Reports'
  BY <1>3 DEF Expire
<1>4. ASSUME NEW p \in Procs, Wait(p) PROVE Reports'
  BY <1>4 DEF Wait, Grounded
<1>5. ASSUME NEW p \in Procs, LookUp(p) PROVE Reports'
  <2>1. CASE Connect(p) BY <2>1 DEF Connect
  <2>2. CASE NotInUse(p) BY <2>2 DEF NotInUse
  <2>3. CASE SendRequest(p) BY <2>3 DEF SendRequest
  <2>4. CASE Disconnected(p) BY <2>4 DEF Disconnected
  <2>5. CASE Accepted(p) BY <2>5 DEF Accepted
  <2>6. CASE Rejected(p) BY <2>6 DEF Rejected, Grounded
  <2>7. CASE Timeout(p) BY <2>7 DEF Timeout
  <2> QED BY <1>5, <2>1, <2>2, <2>3, <2>4, <2>5, <2>6, <2>7 DEF LookUp
<1>6. ASSUME NEW p \in Procs, Answer(p) PROVE Reports'
  BY <1>6 DEF Answer
<1>7. ASSUME NEW p \in Procs, PermissionDenied(p) PROVE Reports'
  BY <1>7 DEF PermissionDenied
<1>8. ASSUME NEW p \in Procs, Register(p) \/ Listen(p) \/ IdentifierInUse(p)
      PROVE Reports'
  BY <1>8 DEF Register, Listen, IdentifierInUse
<1>9. ASSUME NEW p \in Procs, Die(p) \/ Drop(p) PROVE Reports'
  BY <1>9 DEF Die, Drop
<1> QED
  BY <1>1, <1>2, <1>3, <1>4, <1>5, <1>6, <1>7, <1>8, <1>9 DEF Next

LEMMA GroundedReports == Spec => [](Grounded /\ Reports)
<1>1. Init => Grounded /\ Reports
  BY DEF Init, Grounded, Reports
<1>2. IInv /\ Grounded /\ Reports /\ [Next]_vars => (Grounded /\ Reports)'
  BY GroundedStep, ReportsStep
<1> QED BY <1>1, <1>2, SpecIInv, PTL DEF Spec

\* The error of a join is what happened to it: the token was refused by a controller,
\* the caller's timeout passed, the system refused six times.  A version mismatch was
\* either said by a controller or guessed from six timeouts.
THEOREM ReportsAlways == Spec => []Reports
BY GroundedReports, PTL

\* Whoever is controller, whatever dies meanwhile and however often it tries, a
\* process of a version nobody can read is not let in, and nobody tells it why.
THEOREM StrangersStayOutAlways == Spec => []StrangersStayOut
<1>1. Grounded /\ Reports => StrangersStayOut
  BY DEF Grounded, Reports, StrangersStayOut, Said
<1> QED BY <1>1, GroundedReports, PTL
=============================================================================
