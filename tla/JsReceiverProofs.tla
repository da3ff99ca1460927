-------------------------- MODULE JsReceiverProofs --------------------------
(***************************************************************************)
(* Proofs about the JavaScript receiver, for any number of promises and    *)
(* items: of messages and promises one waits for the other, no promise     *)
(* waits for a thread that is gone, and the receiver implements the        *)
(* abstract queue of promises.                                             *)
(***************************************************************************)
EXTENDS JsReceiver, SubsequencesProofs

-----------------------------------------------------------------------------
(* Types *)

\* The actions can be told apart.
LEMMA ActionsDiffer ==
    /\ CloseAction # CleanTimeout
    /\ \A i \in Items : CloseAction # ItemAction(i)
<1>1. CloseAction.action = "Close" /\ CleanTimeout.action = "CleanTimeout"
  BY DEF CloseAction, CleanTimeout
<1>2. \A i \in Items : ItemAction(i).action = "Recv"
  BY DEF ItemAction
<1> QED BY <1>1, <1>2

\* Every variable keeps its type: retain leaves a sequence of promises.
THEOREM TypeCorrect == Spec => []TypeOK
<1>1. Init => TypeOK
  <2> SUFFICES ASSUME Init PROVE TypeOK
    OBVIOUS
  <2>1. received \in 0..MaxItems
    BY BoundsAssumption DEF Init
  <2>2. outcome \in [Promises -> Outcomes] /\ got \in [Promises -> Items \cup {0}]
    BY DEF Init, Outcomes
  <2>3. messages \in Seq(Items) /\ tsfn \in Seq(Actions) /\ deferred_list \in Seq(Promises)
    BY DEF Init
  <2> QED BY <2>1, <2>2, <2>3 DEF Init, TypeOK
<1>2. TypeOK /\ [Next]_vars => TypeOK'
  <2> SUFFICES ASSUME TypeOK, [Next]_vars
               PROVE  TypeOK'
    OBVIOUS
  <2>1. ASSUME NEW p \in Promises, Recv(p) PROVE TypeOK'
    <3>1. CASE Refused(p) \/ PutOff(p)
      <4>1. /\ \E o \in {"refused", "pending"} : Settle({p}, o)
            /\ deferred_list' = deferred_list \/ deferred_list' = Append(deferred_list, p)
            /\ UNCHANGED messages
        BY <3>1 DEF Refused, PutOff
      <4>2. deferred_list' \in Seq(Promises)
        BY <4>1 DEF TypeOK
      <4>3. outcome' \in [Promises -> Outcomes] /\ UNCHANGED got
        BY <4>1 DEF Settle, TypeOK, Outcomes
      <4> QED BY <2>1, <4>1, <4>2, <4>3 DEF Recv, TypeOK
    <3>2. CASE Answered(p)
      <4>1. Head(messages) \in Items /\ Tail(messages) \in Seq(Items)
        BY <3>2 DEF Answered, TypeOK
      <4> QED BY <2>1, <3>2, <4>1 DEF Recv, Answered, Consume, TypeOK, Outcomes
    <3> QED BY <2>1, <3>1, <3>2 DEF Recv
  <2>2. CASE Delegate
    <3>1. /\ tsfn' \in Seq(Actions)
          /\ UNCHANGED <<expired, js, thread, received>>
      BY <2>2 DEF Delegate, TypeOK
    <3>2. CASE CloseLocal
      <4>1. outcome' \in [Promises -> Outcomes] /\ UNCHANGED got
        BY <3>2 DEF CloseLocal, Settle, TypeOK, Outcomes
      <4>2. deferred_list' \in Seq(Promises)
        BY <3>2 DEF CloseLocal
      <4> QED BY <3>1, <3>2, <4>1, <4>2 DEF CloseLocal, TypeOK
    <3>3. CASE Clean
      <4>1. deferred_list' \in Seq(Promises)
        BY <3>3, FilterType DEF Clean, TypeOK
      <4> QED BY <3>1, <3>3, <4>1 DEF Clean, Settle, TypeOK, Outcomes
    <3>4. ASSUME NEW i \in Items, Deliver(i) PROVE TypeOK'
      <4>1. messages' \in Seq(Items) /\ deferred_list' \in Seq(Promises)
        <5>1. messages \in Seq(Items) /\ deferred_list \in Seq(Promises)
          BY DEF TypeOK
        <5>2. CASE deferred_list = <<>>
          BY <3>4, <5>1, <5>2 DEF Deliver
        <5>3. CASE deferred_list # <<>>
          BY <3>4, <5>1, <5>3 DEF Deliver
        <5> QED BY <5>2, <5>3
      <4>2. outcome' \in [Promises -> Outcomes] /\ got' \in [Promises -> Items \cup {0}]
        BY <3>4 DEF Deliver, Consume, TypeOK, Outcomes
      <4> QED BY <3>1, <3>4, <4>1, <4>2 DEF Deliver, TypeOK
    <3> QED BY <2>2, <3>2, <3>3, <3>4 DEF Delegate
  <2>3. CASE Polled
    <3>1. received + 1 \in Items
      BY <2>3, BoundsAssumption DEF Polled, TypeOK, Items
    <3>2. ItemAction(received + 1) \in Actions
      BY <3>1 DEF Actions
    <3> QED BY <2>3, <3>1, <3>2 DEF Polled, TypeOK, Items, localVars
  <2>4. CASE PolledNothing \/ Signalled \/ End \/ Close \/ CloseReturns
    BY <2>4 DEF PolledNothing, Signalled, End, Close, CloseReturns, TypeOK, localVars
  <2>5. CASE NotSignalled
    <3>1. CleanTimeout \in Actions
      BY DEF Actions
    <3> QED BY <2>5, <3>1 DEF NotSignalled, TypeOK, localVars
  <2>6. CASE Destroy
    <3>1. CloseAction \in Actions
      BY DEF Actions
    <3> QED BY <2>6, <3>1 DEF Destroy, TypeOK, localVars
  <2>7. ASSUME NEW p \in Timed, Expire(p) PROVE TypeOK'
    BY <2>7 DEF Expire, TypeOK, localVars
  <2>8. CASE UNCHANGED vars
    BY <2>8 DEF vars, TypeOK, localVars
  <2> QED
    BY <2>1, <2>2, <2>3, <2>4, <2>5, <2>6, <2>7, <2>8 DEF Next, Poll
<1> QED BY <1>1, <1>2, PTL DEF Spec

-----------------------------------------------------------------------------
(* Messages and promises *)

\* recv puts a promise off only when there is no message, delegate_receiver keeps
\* a message only when there is no promise.
THEOREM OneListEmptyAlways == Spec => []OneListEmpty
<1>1. Init => OneListEmpty
  BY DEF Init, OneListEmpty
<1>2. TypeOK /\ OneListEmpty /\ [Next]_vars => OneListEmpty'
  <2> SUFFICES ASSUME TypeOK, OneListEmpty, [Next]_vars
               PROVE  OneListEmpty'
    OBVIOUS
  <2>1. CASE UNCHANGED localVars
    BY <2>1 DEF localVars, OneListEmpty
  <2>2. CASE \E p \in Promises : Recv(p)
    BY <2>2 DEF Recv, Refused, Answered, PutOff, OneListEmpty
  <2>3. CASE Close
    BY <2>3 DEF Close, OneListEmpty
  <2>4. CASE Delegate
    BY <2>4 DEF Delegate, CloseLocal, Clean, Deliver, OneListEmpty
  <2> QED
    BY <2>1, <2>2, <2>3, <2>4
       DEF Next, Poll, Expire, CloseReturns, Polled, PolledNothing, Signalled,
           NotSignalled, Destroy, End, vars
<1> QED BY <1>1, <1>2, TypeCorrect, PTL DEF Spec

\* Once the thread is gone and its Close was delegated, the receiver is closed
\* and nothing is put off any more.
Settling ==
    thread \in {"drop", "ended"} /\ CloseAction \notin ToSet(tsfn)
        => closed /\ deferred_list = <<>>

\* A promise is put off only while the receiver is open, and destroy is the last
\* thing the thread does with the queue: its Close rejects whatever waits then.
THEOREM SomebodyAnswersAlways == Spec => []SomebodyAnswers
<1>1. Init => Settling
  BY DEF Init, Settling
<1>2. TypeOK /\ Settling /\ [Next]_vars => Settling'
  <2> SUFFICES ASSUME TypeOK, Settling, [Next]_vars,
                      thread' \in {"drop", "ended"}, CloseAction \notin ToSet(tsfn')
               PROVE  closed' /\ deferred_list' = <<>>
    BY DEF Settling
  <2>1. CASE UNCHANGED <<localVars, tsfn, thread>>
    BY <2>1 DEF localVars, Settling
  <2>2. CASE \E p \in Promises : Recv(p)
    BY <2>2 DEF Recv, Refused, Answered, PutOff, Settling
  <2>3. CASE Close
    BY <2>3 DEF Close, Settling
  <2>4. CASE Delegate
    <3>1. CASE Head(tsfn) = CloseAction
      BY <2>4, <3>1, ActionsDiffer DEF Delegate, CloseLocal
    <3>2. CASE Head(tsfn) # CloseAction
      <4>1. CloseAction \notin ToSet(tsfn)
        BY <2>4, <3>2, TailRange DEF Delegate, TypeOK
      <4>2. closed /\ deferred_list = <<>>
        BY <2>4, <4>1 DEF Delegate, Settling
      <4> QED
        BY <2>4, <3>2, <4>2 DEF Delegate, Clean, Deliver
    <3> QED BY <3>1, <3>2
  <2>5. CASE Polled \/ PolledNothing \/ Signalled \/ NotSignalled
    BY <2>5 DEF Polled, PolledNothing, Signalled, NotSignalled
  <2>6. CASE Destroy
    <3>1. CloseAction \in ToSet(tsfn')
      BY <2>6, AppendRange DEF Destroy, TypeOK, Actions
    <3> QED BY <3>1
  <2>7. CASE End
    BY <2>7 DEF End, localVars, Settling, TypeOK
  <2> QED
    BY <2>1, <2>2, <2>3, <2>4, <2>5, <2>6, <2>7
       DEF Next, Poll, Expire, CloseReturns, vars
<1>3. TypeOK /\ Settling => SomebodyAnswers
  BY DEF TypeOK, Settling, SomebodyAnswers
<1> QED BY <1>1, <1>2, <1>3, TypeCorrect, PTL DEF Spec

-----------------------------------------------------------------------------
(* The abstract queue *)

\* The items in a queue of actions.
ItemsIn(q) ==
    LET a == Filter(q, {ItemAction(i) : i \in Items}) IN [k \in DOMAIN a |-> a[k].item]

LEMMA ItemsInType ==
    ASSUME NEW q \in Seq(Actions) PROVE ItemsIn(q) \in Seq(Items)
<1> DEFINE a == Filter(q, {ItemAction(i) : i \in Items})
<1>1. a \in Seq(Actions) /\ ToSet(a) \subseteq {ItemAction(i) : i \in Items}
  BY FilterType
<1> HIDE DEF a
<1>2. \A k \in 1..Len(a) : a[k] \in {ItemAction(i) : i \in Items}
  BY <1>1 DEF ToSet
<1>3. \A k \in 1..Len(a) : a[k].item \in Items
  BY <1>2 DEF ItemAction
<1> DEFINE b == [k \in DOMAIN a |-> a[k].item]
<1>4. b \in Seq(Items)
  BY <1>1, <1>3
<1> QED BY <1>4 DEF ItemsIn, a

LEMMA ItemsInAppend ==
    ASSUME NEW q \in Seq(Actions)
    PROVE  /\ \A i \in Items : ItemsIn(Append(q, ItemAction(i))) = Append(ItemsIn(q), i)
           /\ ItemsIn(Append(q, CleanTimeout)) = ItemsIn(q)
           /\ ItemsIn(Append(q, CloseAction)) = ItemsIn(q)
<1> DEFINE R == {ItemAction(i) : i \in Items}
           a == Filter(q, R)
<1>1. a \in Seq(Actions) /\ ItemsIn(q) = [k \in DOMAIN a |-> a[k].item]
  BY FilterType DEF ItemsIn
<1>2. CleanTimeout \notin R /\ CloseAction \notin R
  BY DEF CleanTimeout, CloseAction, ItemAction
<1>3. CleanTimeout \in Actions /\ CloseAction \in Actions
  BY DEF Actions
<1>4. Filter(Append(q, CleanTimeout), R) = a /\ Filter(Append(q, CloseAction), R) = a
  <2> HIDE DEF R
  <2> QED BY <1>2, <1>3, FilterAppend
<1>5. ItemsIn(Append(q, CleanTimeout)) = ItemsIn(q) /\ ItemsIn(Append(q, CloseAction)) = ItemsIn(q)
  BY <1>4 DEF ItemsIn
<1>6. ASSUME NEW i \in Items PROVE ItemsIn(Append(q, ItemAction(i))) = Append(ItemsIn(q), i)
  <2> DEFINE x == ItemAction(i)
             b == Append(a, x)
             c == [k \in DOMAIN b |-> b[k].item]
             n == Len(a)
  <2>1. x \in R /\ x \in Actions /\ x.item = i
    BY DEF Actions, ItemAction
  <2>2. Filter(Append(q, x), R) = b
    <3> HIDE DEF R, x
    <3> QED BY <2>1, FilterAppend
  <2>3. ItemsIn(Append(q, x)) = c
    BY <2>2 DEF ItemsIn
  <2> HIDE DEF x, a
  <2>4. ItemsIn(q) \in Seq(Items) /\ Len(ItemsIn(q)) = n /\ \A k \in 1..n : ItemsIn(q)[k] = a[k].item
    <3>1. ItemsIn(q) \in Seq(Items)
      BY ItemsInType
    <3>2. n \in Nat /\ DOMAIN a = 1..n /\ Len(ItemsIn(q)) \in Nat
      BY <1>1, <3>1
    <3>3. DOMAIN ItemsIn(q) = 1..n /\ \A k \in 1..n : ItemsIn(q)[k] = a[k].item
      BY <1>1, <3>2
    <3> QED BY <3>1, <3>2, <3>3
  <2>5. /\ DOMAIN b = 1..(n + 1) /\ b[n + 1] = x /\ \A k \in 1..n : b[k] = a[k]
        /\ n \in Nat
    BY <1>1, <2>1
  <2>6. c \in Seq(Items)
    <3>1. Append(q, x) \in Seq(Actions)
      BY <2>1
    <3> QED BY <2>3, <3>1, ItemsInType
  <2>7. /\ Append(ItemsIn(q), i) \in Seq(Items) /\ Len(Append(ItemsIn(q), i)) = n + 1
        /\ Append(ItemsIn(q), i)[n + 1] = i
        /\ \A k \in 1..n : Append(ItemsIn(q), i)[k] = a[k].item
    BY <2>4, AppendProperties
  <2> HIDE DEF b
  <2>8. Len(c) = n + 1 /\ \A k \in 1..(n + 1) : c[k] = b[k].item
    BY <2>5, <2>6
  <2>9. \A k \in 1..(n + 1) : c[k] = Append(ItemsIn(q), i)[k]
    BY <2>1, <2>5, <2>7, <2>8
  <2>10. c = Append(ItemsIn(q), i)
    BY <2>6, <2>7, <2>8, <2>9, SeqEqual
  <2> QED BY <2>3, <2>10 DEF x
<1> QED BY <1>5, <1>6

LEMMA ItemsInTail ==
    ASSUME NEW q \in Seq(Actions), q # <<>>
    PROVE  /\ \A i \in Items : Head(q) = ItemAction(i) =>
                  /\ ItemsIn(q) # <<>> /\ Head(ItemsIn(q)) = i
                  /\ Tail(ItemsIn(q)) = ItemsIn(Tail(q))
           /\ Head(q) \in {CleanTimeout, CloseAction} => ItemsIn(q) = ItemsIn(Tail(q))
<1> DEFINE R == {ItemAction(i) : i \in Items}
           a == Filter(q, R)
           t == Tail(q)
<1>1. a \in Seq(Actions) /\ ItemsIn(q) = [k \in DOMAIN a |-> a[k].item]
  BY FilterType DEF ItemsIn
<1>2. CleanTimeout \notin R /\ CloseAction \notin R
  BY DEF CleanTimeout, CloseAction, ItemAction
<1>3. t \in Seq(Actions)
  OBVIOUS
<1>4. Head(q) \in {CleanTimeout, CloseAction} => ItemsIn(q) = ItemsIn(t)
  <2>1. Head(q) \notin R => Filter(q, R) = Filter(t, R)
    <3> HIDE DEF R
    <3> QED BY FilterTail
  <2> QED BY <1>2, <2>1 DEF ItemsIn
<1>5. ASSUME NEW i \in Items, Head(q) = ItemAction(i)
      PROVE  /\ ItemsIn(q) # <<>> /\ Head(ItemsIn(q)) = i
             /\ Tail(ItemsIn(q)) = ItemsIn(t)
  <2> DEFINE b == Filter(t, R)
             n == Len(b)
  <2>1. Head(q) \in R /\ Head(q).item = i
    BY <1>5 DEF ItemAction
  <2>2. a # <<>> /\ Head(a) = Head(q) /\ Tail(a) = b
    <3> HIDE DEF R
    <3> QED BY <2>1, FilterTail
  <2>3. b \in Seq(Actions) /\ ItemsIn(t) = [k \in DOMAIN b |-> b[k].item]
    BY <1>3, FilterType DEF ItemsIn
  <2> HIDE DEF a, b
  <2>4. ItemsIn(q) \in Seq(Items) /\ ItemsIn(t) \in Seq(Items)
    BY <1>3, ItemsInType
  <2>5. n \in Nat /\ Len(a) = n + 1 /\ a[1] = Head(q) /\ \A k \in 1..n : b[k] = a[k + 1]
    <3>1. n \in Nat /\ Len(a) = n + 1 /\ Head(a) = a[1]
      BY <1>1, <2>2, <2>3
    <3>2. \A k \in 1..n : Tail(a)[k] = a[k + 1]
      BY <1>1, <2>2, <3>1, HeadTailProperties
    <3> QED BY <2>2, <3>1, <3>2
  <2>6. Len(ItemsIn(q)) = n + 1 /\ \A k \in 1..(n + 1) : ItemsIn(q)[k] = a[k].item
    BY <1>1, <2>4, <2>5
  <2>7. Len(ItemsIn(t)) = n /\ \A k \in 1..n : ItemsIn(t)[k] = b[k].item
    BY <2>3, <2>4
  <2> DEFINE u == ItemsIn(q)
             v == ItemsIn(t)
  <2> HIDE DEF u, v
  <2>8. u \in Seq(Items) /\ Len(u) = n + 1 /\ \A k \in 1..(n + 1) : u[k] = a[k].item
    BY <2>4, <2>6 DEF u
  <2>9. v \in Seq(Items) /\ Len(v) = n /\ \A k \in 1..n : v[k] = b[k].item
    BY <2>4, <2>7 DEF v
  <2>10. u # <<>> /\ Head(u) = u[1] /\ Tail(u) \in Seq(Items) /\ Len(Tail(u)) = n
    BY <2>5, <2>8
  <2>11. \A k \in 1..n : Tail(u)[k] = u[k + 1] /\ k + 1 \in 1..(n + 1)
    BY <2>5, <2>8
  <2>12. \A k \in 1..n : Tail(u)[k] = v[k]
    BY <2>5, <2>8, <2>9, <2>11
  <2>13. Tail(u) = v
    BY <2>9, <2>10, <2>12, SeqEqual
  <2>14. u[1] = i
    BY <2>1, <2>5, <2>8
  <2> QED BY <2>10, <2>13, <2>14 DEF u, v
<1> QED BY <1>4, <1>5

LEMMA ConcatMoves ==
    ASSUME NEW T, NEW s \in Seq(T), NEW t \in Seq(T), NEW a \in T
    PROVE  /\ s # <<>> => /\ s \o t # <<>> /\ Head(s \o t) = Head(s)
                         /\ Tail(s \o t) = Tail(s) \o t
           /\ s \o Append(t, a) = Append(s \o t, a)
           /\ t # <<>> /\ Head(t) = a => s \o t = Append(s, a) \o Tail(t)
<1>1. <<a>> \in Seq(T) /\ s \o t \in Seq(T)
  OBVIOUS
<1>2. s \o Append(t, a) = Append(s \o t, a)
  BY <1>1, AppendIsConcat, ConcatAssociative
<1>3. ASSUME t # <<>>, Head(t) = a PROVE s \o t = Append(s, a) \o Tail(t)
  <2>1. Tail(t) \in Seq(T) /\ t = <<a>> \o Tail(t)
    BY <1>3
  <2>2. s \o (<<a>> \o Tail(t)) = (s \o <<a>>) \o Tail(t)
    BY <1>1, <2>1, ConcatAssociative
  <2>3. Append(s, a) = s \o <<a>>
    BY AppendIsConcat
  <2> QED BY <2>1, <2>2, <2>3
<1>4. ASSUME s # <<>>
      PROVE  s \o t # <<>> /\ Head(s \o t) = Head(s) /\ Tail(s \o t) = Tail(s) \o t
  <2> DEFINE u == s \o t
             v == Tail(s) \o t
  <2>1. /\ Len(s) \in Nat \ {0} /\ Len(t) \in Nat /\ Len(u) = Len(s) + Len(t)
        /\ u[1] = s[1] /\ Head(s) = s[1]
    BY <1>4
  <2>2. u # <<>> /\ Head(u) = u[1]
    BY <1>1, <2>1
  <2>3. /\ Tail(s) \in Seq(T) /\ Len(Tail(s)) = Len(s) - 1
        /\ \A k \in 1..(Len(s) - 1) : Tail(s)[k] = s[k + 1]
    BY <1>4, HeadTailProperties
  <2>4. v \in Seq(T) /\ Len(v) = Len(s) - 1 + Len(t)
    BY <2>1, <2>3, ConcatProperties
  <2>5. Tail(u) \in Seq(T) /\ Len(Tail(u)) = Len(s) - 1 + Len(t)
    BY <1>1, <2>1, <2>2
  <2>6. ASSUME NEW k \in 1..(Len(s) - 1 + Len(t)) PROVE Tail(u)[k] = v[k]
    <3>1. Tail(u)[k] = u[k + 1]
      BY <1>1, <2>1, <2>2, <2>5, HeadTailProperties
    <3>2. CASE k <= Len(s) - 1
      BY <2>1, <2>3, <3>1, <3>2, ConcatProperties
    <3>3. CASE ~(k <= Len(s) - 1)
      <4>1. u[k + 1] = t[k + 1 - Len(s)]
        BY <2>1, <3>3, ConcatProperties
      <4>2. v[k] = t[k - (Len(s) - 1)]
        BY <2>1, <2>3, <3>3, ConcatProperties
      <4>3. k + 1 - Len(s) = k - (Len(s) - 1)
        BY <2>1
      <4> QED BY <3>1, <4>1, <4>2, <4>3
    <3> QED BY <3>2, <3>3
  <2>7. Tail(u) = v
    <3> HIDE DEF u, v
    <3> QED BY <2>4, <2>5, <2>6, SeqEqual
  <2> QED BY <2>1, <2>2, <2>7
<1> QED BY <1>2, <1>3, <1>4

\* A promise that waits is pending and waits once; only one that is answered has
\* an item.
Asking ==
    /\ OneEach(deferred_list)
    /\ \A p \in ToSet(deferred_list) : outcome[p] = "pending"
    /\ \A p \in Promises : outcome[p] # "item" => got[p] = 0

LEMMA StepAsking == TypeOK /\ Asking /\ [Next]_vars => Asking'
<1> SUFFICES ASSUME TypeOK, Asking, [Next]_vars PROVE Asking'
  OBVIOUS
<1>t. /\ deferred_list \in Seq(Promises) /\ ToSet(deferred_list) \subseteq Promises
      /\ outcome \in [Promises -> Outcomes] /\ got \in [Promises -> Items \cup {0}]
  BY DEF TypeOK, ToSet
\* Nobody who has an item is settled otherwise.
<1>s. ASSUME NEW S \in SUBSET Promises, NEW o, Settle(S, o), \A p \in S : outcome[p] # "item",
             OneEach(deferred_list'), ToSet(deferred_list') \subseteq Promises,
             \A p \in ToSet(deferred_list') : o = "pending" \/ p \notin S,
             \A p \in ToSet(deferred_list') : p \in S \/ p \in ToSet(deferred_list)
      PROVE  Asking'
  <2>1. \A p \in Promises : outcome'[p] = IF p \in S THEN o ELSE outcome[p]
    BY <1>s DEF Settle
  <2>2. got' = got
    BY <1>s DEF Settle
  <2>3. \A p \in ToSet(deferred_list') : outcome'[p] = "pending"
    BY <1>s, <2>1 DEF Asking
  <2>4. \A p \in Promises : outcome'[p] # "item" => got'[p] = 0
    BY <1>s, <2>1, <2>2 DEF Asking
  <2> QED BY <1>s, <2>3, <2>4 DEF Asking
<1>c. ASSUME NEW p \in Promises, NEW i, Consume(p, i),
             OneEach(deferred_list'), ToSet(deferred_list') \subseteq ToSet(deferred_list) \ {p}
      PROVE  Asking'
  <2>1. /\ outcome'[p] = "item"
        /\ \A q \in Promises \ {p} : outcome'[q] = outcome[q] /\ got'[q] = got[q]
    BY <1>t, <1>c DEF Consume
  <2> QED BY <1>t, <1>c, <2>1 DEF Asking
<1>1. ASSUME NEW p \in Promises, Recv(p) PROVE Asking'
  <2>1. outcome[p] = "none" /\ p \notin ToSet(deferred_list)
    BY <1>1 DEF Recv, Asking
  <2>2. CASE Refused(p)
    BY <1>t, <1>s, <2>1, <2>2 DEF Refused, Asking
  <2>3. CASE Answered(p)
    BY <1>c, <2>1, <2>3 DEF Answered, Asking
  <2>4. CASE PutOff(p)
    <3>1. deferred_list' = Append(deferred_list, p) /\ Settle({p}, "pending")
      BY <2>4 DEF PutOff
    <3>2. ToSet(deferred_list') = ToSet(deferred_list) \cup {p}
      BY <1>t, <3>1, AppendRange
    <3>3. OneEach(deferred_list')
      BY <1>t, <2>1, <3>1, AppendOneEach DEF Asking
    <3> QED BY <1>t, <1>s, <2>1, <3>1, <3>2, <3>3
  <2> QED BY <1>1, <2>2, <2>3, <2>4 DEF Recv
<1>2. CASE Delegate
  <2>1. CASE CloseLocal
    <3>1. deferred_list' = <<>> /\ Settle(ToSet(deferred_list), "closed")
      BY <2>1 DEF CloseLocal
    <3>2. OneEach(deferred_list') /\ ToSet(deferred_list') = {}
      BY <3>1 DEF OneEach, ToSet
    <3>3. \A p \in ToSet(deferred_list) : outcome[p] # "item"
      BY DEF Asking
    <3> QED BY <1>t, <1>s, <3>1, <3>2, <3>3
  <2>2. CASE Clean
    <3>1. CASE deferred_list = <<>>
      BY <2>2, <3>1 DEF Clean, Asking
    <3>2. CASE deferred_list # <<>>
      <4> DEFINE S == expired \cap ToSet(deferred_list)
      <4>1. Settle(S, "timeout") /\ deferred_list' = Filter(deferred_list, Promises \ expired)
        BY <2>2, <3>2 DEF Clean
      <4>2. ToSet(deferred_list') = ToSet(deferred_list) \ S
        BY <1>t, <4>1, FilterType
      <4>3. OneEach(deferred_list')
        BY <1>t, <4>1, FilterOneEach DEF Asking
      <4>4. \A p \in S : outcome[p] # "item"
        BY DEF Asking
      <4>5. S \in SUBSET Promises
        BY <1>t
      <4> HIDE DEF S
      <4> QED BY <1>t, <1>s, <4>1, <4>2, <4>3, <4>4, <4>5
    <3> QED BY <3>1, <3>2
  <2>3. ASSUME NEW i \in Items, Deliver(i) PROVE Asking'
    <3>1. CASE deferred_list = <<>>
      BY <2>3, <3>1 DEF Deliver, Asking
    <3>2. CASE deferred_list # <<>>
      <4> DEFINE p == Head(deferred_list)
      <4>1. Consume(p, i) /\ deferred_list' = Tail(deferred_list)
        BY <2>3, <3>2 DEF Deliver
      <4>2. p \in Promises /\ ToSet(deferred_list) = {p} \cup ToSet(deferred_list')
        BY <1>t, <3>2, <4>1, TailRange
      <4>3. OneEach(deferred_list') /\ p \notin ToSet(deferred_list')
        BY <1>t, <3>2, <4>1, TailOneEach DEF Asking
      <4> HIDE DEF p
      <4> QED BY <1>c, <4>1, <4>2, <4>3
    <3> QED BY <3>1, <3>2
  <2> QED BY <1>2, <2>1, <2>2, <2>3 DEF Delegate
<1>3. CASE Close
  BY <1>3 DEF Close, Asking
<1>4. CASE UNCHANGED localVars
  BY <1>4 DEF localVars, Asking
<1> QED
  BY <1>1, <1>2, <1>3, <1>4
  DEF Next, Poll, Expire, CloseReturns, Polled, PolledNothing, Signalled, NotSignalled,
      Destroy, End, vars

LEMMA InitAsking == Init => Asking
<1> SUFFICES ASSUME Init PROVE Asking
  OBVIOUS
<1>1. deferred_list = <<>> /\ \A p \in Promises : got[p] = 0
  BY DEF Init
<1> QED BY <1>1 DEF Asking, OneEach, ToSet

LEMMA NotHandedOutIs ==
    NotHandedOut = messages \o ItemsIn(tsfn) /\ NotHandedOut' = messages' \o ItemsIn(tsfn')
BY DEF NotHandedOut, ItemActions, ItemsIn

queueVars == <<received, NotHandedOut, deferred_list, outcome, got, closed>>

LEMMA StepQueue ==
    TypeOK /\ OneListEmpty /\ Asking /\ [Next]_vars => [Queue!Next]_(Queue!vars)
<1> SUFFICES ASSUME TypeOK, OneListEmpty, Asking, [Next]_vars
             PROVE  Queue!Next \/ UNCHANGED queueVars
  BY DEF queueVars, Queue!vars
<1>t. /\ deferred_list \in Seq(Promises) /\ ToSet(deferred_list) \subseteq Promises
      /\ outcome \in [Promises -> Outcomes] /\ got \in [Promises -> Items \cup {0}]
      /\ messages \in Seq(Items) /\ tsfn \in Seq(Actions) /\ ItemsIn(tsfn) \in Seq(Items)
      /\ closed \in BOOLEAN
  BY ItemsInType DEF TypeOK, ToSet
\* Who is not answered has no item, and Settle says so of the abstract queue too.
<1>s. ASSUME NEW S \in SUBSET Promises, NEW o, Settle(S, o), \A p \in S : outcome[p] # "item"
      PROVE  Queue!Settle(S, o, 0)
  <2>1. \A p \in S : got[p] = 0
    BY <1>s DEF Asking
  <2>2. got = [p \in Promises |-> IF p \in S THEN 0 ELSE got[p]]
    BY <1>t, <2>1
  <2> QED BY <1>s, <2>2 DEF Settle, Queue!Settle
<1>c. ASSUME NEW p \in Promises, NEW i, Consume(p, i)
      PROVE  Queue!Settle({p}, "item", i)
  <2>1. outcome' = [q \in Promises |-> IF q \in {p} THEN "item" ELSE outcome[q]]
    BY <1>t, <1>c DEF Consume
  <2>2. got' = [q \in Promises |-> IF q \in {p} THEN i ELSE got[q]]
    BY <1>t, <1>c DEF Consume
  <2> QED BY <2>1, <2>2 DEF Queue!Settle
<1>k. ASSUME UNCHANGED <<messages, tsfn>> PROVE UNCHANGED NotHandedOut
  BY <1>k, NotHandedOutIs
<1>1. ASSUME NEW p \in Promises, Recv(p) PROVE Queue!Next
  <2>1. outcome[p] = "none" /\ UNCHANGED <<closed, tsfn, received>>
    BY <1>1 DEF Recv
  <2>2. CASE Refused(p)
    <3>1. Queue!Settle({p}, "refused", 0) /\ UNCHANGED NotHandedOut
      BY <1>s, <1>k, <2>1, <2>2 DEF Refused
    <3>2. Queue!Refuse(p)
      BY <2>1, <2>2, <3>1 DEF Refused, Queue!Refuse
    <3> QED BY <3>2 DEF Queue!Next
  <2>3. CASE Answered(p)
    <3>1. /\ ~closed /\ messages # <<>> /\ Consume(p, Head(messages))
          /\ messages' = Tail(messages) /\ UNCHANGED deferred_list
      BY <2>3 DEF Answered
    <3>2. deferred_list = <<>>
      BY <3>1 DEF OneListEmpty
    <3>3. /\ NotHandedOut # <<>> /\ Head(NotHandedOut) = Head(messages)
          /\ NotHandedOut' = Tail(NotHandedOut)
      <4>1. Head(messages) \in Items
        BY <1>t, <3>1
      <4> QED BY <1>t, <2>1, <3>1, <4>1, ConcatMoves, NotHandedOutIs
    <3>4. Queue!Settle({p}, "item", Head(NotHandedOut))
      BY <1>c, <3>1, <3>3
    <3>5. Queue!AskAndServe(p)
      BY <2>1, <3>1, <3>2, <3>3, <3>4 DEF Queue!AskAndServe
    <3> QED BY <3>5 DEF Queue!Next
  <2>4. CASE PutOff(p)
    <3>1. Queue!Settle({p}, "pending", 0) /\ UNCHANGED NotHandedOut
      BY <1>s, <1>k, <2>1, <2>4 DEF PutOff
    <3>2. Queue!Ask(p)
      BY <2>1, <2>4, <3>1 DEF PutOff, Queue!Ask
    <3> QED BY <3>2 DEF Queue!Next
  <2> QED BY <1>1, <2>2, <2>3, <2>4 DEF Recv
<1>2. CASE Close
  <2>1. closed' = TRUE /\ UNCHANGED <<received, NotHandedOut, deferred_list, outcome, got>>
    BY <1>2, <1>k DEF Close
  <2>2. Queue!Shut
    BY <2>1 DEF Queue!Shut
  <2> QED BY <2>2 DEF Queue!Next
<1>3. CASE Delegate
  <2>1. tsfn # <<>> /\ tsfn' = Tail(tsfn) /\ UNCHANGED <<expired, received>>
    BY <1>3 DEF Delegate
  <2>2. ASSUME Head(tsfn) \in {CleanTimeout, CloseAction}, UNCHANGED messages
        PROVE  UNCHANGED NotHandedOut
    BY <1>t, <2>1, <2>2, ItemsInTail, NotHandedOutIs
  <2>3. CASE Head(tsfn) = CloseAction /\ CloseLocal
    <3>1. /\ closed' = TRUE /\ Settle(ToSet(deferred_list), "closed") /\ deferred_list' = <<>>
          /\ UNCHANGED messages
      BY <2>3 DEF CloseLocal
    <3>2. Queue!Settle(ToSet(deferred_list), "closed", 0)
      <4>1. \A p \in ToSet(deferred_list) : outcome[p] # "item"
        BY DEF Asking
      <4> QED BY <1>t, <1>s, <3>1, <4>1
    <3>3. Queue!RejectAll
      BY <2>1, <2>2, <2>3, <3>1, <3>2 DEF Queue!RejectAll, Queue!ToSet, ToSet
    <3> QED BY <3>3 DEF Queue!Next
  <2>4. CASE Head(tsfn) = CleanTimeout /\ Clean
    <3>1. UNCHANGED <<closed, messages, NotHandedOut>>
      BY <2>2, <2>4 DEF Clean
    <3>2. CASE deferred_list = <<>>
      BY <2>1, <2>4, <3>1, <3>2 DEF Clean, queueVars
    <3>3. CASE deferred_list # <<>>
      <4> DEFINE S == expired \cap ToSet(deferred_list)
      <4>1. Settle(S, "timeout") /\ deferred_list' = Filter(deferred_list, Promises \ expired)
        BY <2>4, <3>3 DEF Clean
      <4>2. S \in SUBSET (ToSet(deferred_list) \cap Timed) /\ S \in SUBSET Promises
        BY <1>t DEF TypeOK
      <4>3. ToSet(deferred_list) \cap (Promises \ expired) = ToSet(deferred_list) \cap (Promises \ S)
        OBVIOUS
      <4>4. deferred_list' = Filter(deferred_list, Promises \ S)
        <5> HIDE DEF S
        <5> QED BY <1>t, <4>1, <4>3, FilterSame
      <4>5. \A p \in S : outcome[p] # "item"
        BY DEF Asking
      <4> HIDE DEF S
      <4>6. Queue!Settle(S, "timeout", 0)
        BY <1>s, <4>1, <4>2, <4>5
      <4>7. Queue!TimeOut
        BY <2>1, <3>1, <4>2, <4>4, <4>6
           DEF Queue!TimeOut, Queue!ToSet, ToSet, Queue!Filter, Filter
      <4> QED BY <4>7 DEF Queue!Next
    <3> QED BY <3>2, <3>3
  <2>5. ASSUME NEW i \in Items, Head(tsfn) = ItemAction(i), Deliver(i)
        PROVE  Queue!Next \/ UNCHANGED queueVars
    <3>1. /\ ItemsIn(tsfn) # <<>> /\ Head(ItemsIn(tsfn)) = i
          /\ Tail(ItemsIn(tsfn)) = ItemsIn(tsfn')
      BY <1>t, <2>1, <2>5, ItemsInTail
    <3>2. CASE deferred_list = <<>>
      <4>1. /\ messages' = Append(messages, i)
            /\ UNCHANGED <<deferred_list, outcome, got, closed>>
        BY <2>5, <3>2 DEF Deliver
      <4>2. messages \o ItemsIn(tsfn) = Append(messages, i) \o Tail(ItemsIn(tsfn))
        BY <1>t, <3>1, ConcatMoves
      <4>3. UNCHANGED NotHandedOut
        BY <3>1, <4>1, <4>2, NotHandedOutIs
      <4> QED BY <2>1, <4>1, <4>3 DEF queueVars
    <3>3. CASE deferred_list # <<>>
      <4> DEFINE p == Head(deferred_list)
      <4>1. /\ Consume(p, i) /\ deferred_list' = Tail(deferred_list)
            /\ UNCHANGED <<messages, closed>>
        BY <2>5, <3>3 DEF Deliver
      <4>2. p \in Promises /\ messages = <<>>
        BY <1>t, <3>3 DEF OneListEmpty
      <4>3. NotHandedOut = ItemsIn(tsfn) /\ NotHandedOut' = Tail(ItemsIn(tsfn))
        <5>1. Tail(ItemsIn(tsfn)) \in Seq(Items)
          BY <1>t, <3>1
        <5> QED BY <1>t, <3>1, <4>1, <4>2, <5>1, NotHandedOutIs, ConcatEmptySeq
      <4>4. Queue!Settle({p}, "item", i)
        BY <1>c, <4>1, <4>2
      <4>5. Queue!Serve
        BY <2>1, <3>1, <3>3, <4>1, <4>3, <4>4 DEF Queue!Serve
      <4> QED BY <4>5 DEF Queue!Next
    <3> QED BY <3>2, <3>3
  <2> QED BY <1>3, <2>3, <2>4, <2>5 DEF Delegate
<1>4. CASE Polled
  <2> DEFINE i == received + 1
  <2>1. /\ received' = i /\ tsfn' = Append(tsfn, ItemAction(i))
        /\ UNCHANGED <<messages, deferred_list, outcome, got, closed>>
    BY <1>4 DEF Polled, localVars
  <2>2. i \in Items
    BY <1>4, BoundsAssumption DEF Polled, TypeOK, Items
  <2> HIDE DEF i
  <2>3. NotHandedOut' = Append(NotHandedOut, i)
    <3>1. ItemsIn(tsfn') = Append(ItemsIn(tsfn), i)
      BY <1>t, <2>1, <2>2, ItemsInAppend
    <3>2. messages \o Append(ItemsIn(tsfn), i) = Append(messages \o ItemsIn(tsfn), i)
      BY <1>t, <2>2, ConcatMoves
    <3> QED BY <2>1, <3>1, <3>2, NotHandedOutIs
  <2>4. Queue!Give
    BY <2>1, <2>3 DEF Queue!Give, i
  <2> QED BY <2>4 DEF Queue!Next
<1>5. CASE NotSignalled \/ Destroy
  <2>1. /\ tsfn' = Append(tsfn, CleanTimeout) \/ tsfn' = Append(tsfn, CloseAction)
        /\ UNCHANGED <<localVars, received>>
    BY <1>5 DEF NotSignalled, Destroy
  <2>2. ItemsIn(tsfn') = ItemsIn(tsfn)
    BY <1>t, <2>1, ItemsInAppend
  <2>3. UNCHANGED NotHandedOut
    BY <2>1, <2>2, NotHandedOutIs DEF localVars
  <2> QED BY <2>1, <2>3 DEF localVars, queueVars
<1>6. CASE UNCHANGED <<localVars, tsfn, received>>
  BY <1>6, <1>k DEF localVars, queueVars
<1> QED
  BY <1>1, <1>2, <1>3, <1>4, <1>5, <1>6
  DEF Next, Poll, Expire, CloseReturns, PolledNothing, Signalled, End, vars

LEMMA InitQueue == Init => Queue!Init
<1> SUFFICES ASSUME Init PROVE Queue!Init
  OBVIOUS
<1>1. NotHandedOut = <<>>
  <2>1. messages = <<>> /\ tsfn = <<>>
    BY DEF Init
  <2>2. ItemsIn(<<>>) = <<>>
    BY FilterEmpty DEF ItemsIn
  <2> QED BY <2>1, <2>2, NotHandedOutIs
<1> QED BY <1>1 DEF Init, Queue!Init

\* Whatever the order of recv, close, deadlines and items, the k-th item answers the
\* k-th promise that is neither rejected nor answered by then.
THEOREM ImplementsPromiseQueueAlways == Spec => ImplementsPromiseQueue
<1>1. TypeOK /\ OneListEmpty /\ Asking /\ [Next]_vars => [Queue!Next]_(Queue!vars)
  BY StepQueue
<1>2. Init => Queue!Init
  BY InitQueue
<1> QED
  BY <1>1, <1>2, InitAsking, StepAsking, TypeCorrect, OneListEmptyAlways, PTL
  DEF Spec, ImplementsPromiseQueue, Queue!Spec
=============================================================================
