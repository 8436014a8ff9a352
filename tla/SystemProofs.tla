----------------------------- MODULE SystemProofs -----------------------------
(***************************************************************************)
(* Proofs about the TPU client with what surrounds it: the history of      *)
(* what its workers are given (Delivery), the refresh thread (Iris) and    *)
(* the servers (Pipeline).  Each of them is a behaviour of the client, so  *)
(* the client's invariant is the starting point of all three.  They hold   *)
(* for every window, capacity and number of transactions and requests;     *)
(* WindowsAssumption is used for the deliveries only.                      *)
(***************************************************************************)
EXTENDS Delivery, Iris, Pipeline, TpuClientProofs, FiniteSetTheorems

-------------------------------------------------------------------------------
(* Deliveries: what a leader loses, and in which order it is given the rest. *)

\* A delivery is a behaviour of the client.
LEMMA DeliveryIsClient == DeliverySpec => Spec
<1>1. DeliveryInit => Init
  BY DEF DeliveryInit
<1>2. [DeliveryNext]_dvars => [Next]_vars
  BY DEF DeliveryNext, dvars
<1> QED  BY <1>1, <1>2, PTL DEF DeliverySpec, Spec

-------------------------------------------------------------------------------
(* Deliveries: the inductive invariant of a call. *)

CallTypes ==
    /\ targets \subseteq Addrs
    /\ turns \in Nat
    /\ given \in [Addrs -> Nat]
    /\ room \in [Addrs -> Int]
    /\ kept \in [Addrs -> BOOLEAN]

\* A worker that has lived through the call has gained no more than it was
\* given.
RoomLeft ==
    \A a \in Addrs :
        kept[a] => /\ worker[a] = "live"
                   /\ ~cancelled
                   /\ Len(inbox[a]) + room[a] <= WorkerChannelSize + given[a]

\* The worker of a was given n transactions of this call, or all it had room
\* for.
Got(a, n) == kept[a] => given[a] >= n \/ given[a] >= room[a]

\* The same of the next state, for an address and a number of this one.
GotNext(a, n) == kept'[a] => given'[a] >= n \/ given'[a] >= room'[a]

\* Within the loop, the leaders before the cursor have had their chance of
\* the present transaction too.
Progress ==
    /\ pc = "send" =>
           /\ targets = {window[k] : k \in DOMAIN window}
           /\ \A k \in DOMAIN window : /\ Got(window[k], turns)
                                       /\ k < cursor => Got(window[k], turns + 1)
    /\ pc # "send" => \A a \in targets : Got(a, turns)

CallInv == CallTypes /\ RoomLeft /\ Progress

-------------------------------------------------------------------------------
(* Steps. *)

\* A step puts at most one transaction into the channel of a worker, only
\* the loop does, and only for the leader at the cursor.
LEMMA InboxStep ==
    ASSUME TypeOK, TypeOK', [Next]_vars, NEW a \in Addrs
    PROVE  /\ Len(inbox[a]) \in Nat /\ Len(inbox'[a]) \in Nat
           /\ \/ Len(inbox'[a]) <= Len(inbox[a])
              \/ /\ Offer /\ a = window[cursor]
                 /\ Len(inbox'[a]) = Len(inbox[a]) + 1
                 /\ inbox'[a][Len(inbox'[a])] = Head(ready)
<1> USE DEF schedulerVars, workerVars, historyVars, stats
<1>1. inbox[a] \in Seq(Wires) /\ inbox'[a] \in Seq(Wires) /\ inbox \in [Addrs -> Seq(Wires)]
  BY DEF TypeOK
<1>2. Len(inbox[a]) \in Nat /\ Len(inbox'[a]) \in Nat
  BY <1>1, LenProperties
<1>3. CASE Offer
  <2>1. Head(ready) \in Wires
    BY <1>3, HeadTailProperties DEF Offer, TypeOK
  <2>2. \/ inbox'[a] = inbox[a]
        \/ a = window[cursor] /\ inbox'[a] = Append(inbox[a], Head(ready))
    BY <1>1, <1>3 DEF Offer
  <2>3. /\ Len(Append(inbox[a], Head(ready))) = Len(inbox[a]) + 1
        /\ Append(inbox[a], Head(ready))[Len(inbox[a]) + 1] = Head(ready)
    BY <1>1, <2>1, AppendProperties
  <2>4. CASE inbox'[a] = inbox[a]
    BY <1>2, <2>4
  <2>5. CASE a = window[cursor] /\ inbox'[a] = Append(inbox[a], Head(ready))
    BY <1>2, <1>3, <2>3, <2>5
  <2> QED  BY <2>2, <2>4, <2>5
<1>4. ASSUME NEW b \in Addrs, WorkerTransmit(b) \/ WorkerEnd(b)
      PROVE  Len(inbox'[a]) <= Len(inbox[a])
  <2>1. \/ inbox'[a] = inbox[a]
        \/ inbox'[a] = << >>
        \/ inbox[a] # << >> /\ inbox'[a] = Tail(inbox[a])
    BY <1>1, <1>4 DEF WorkerTransmit, WorkerEnd
  <2>2. inbox[a] # << >> => Len(Tail(inbox[a])) = Len(inbox[a]) - 1
    BY <1>1, HeadTailProperties
  <2>3. CASE inbox'[a] = inbox[a]
    BY <1>2, <2>3
  <2>4. CASE inbox'[a] = << >>
    BY <1>2, <2>4
  <2>5. CASE inbox[a] # << >> /\ inbox'[a] = Tail(inbox[a])
    BY <1>2, <2>2, <2>5
  <2> QED  BY <2>1, <2>3, <2>4, <2>5
<1>5. CASE UNCHANGED inbox
  BY <1>2, <1>5
<1>6. \/ Offer
      \/ \E b \in Addrs : WorkerTransmit(b) \/ WorkerEnd(b)
      \/ UNCHANGED inbox
  BY DEF Next, ClientNext, Enqueue, Drop, FlushTick, FlushStop, Recv, send_to_workers,
         OfferToNobody, SchedulerExit, Rotate, Cancel, StoreBlocked, vars
<1> QED  BY <1>2, <1>3, <1>4, <1>5, <1>6

\* Where the scheduler may go in a step.
LEMMA SchedulerStep ==
    ASSUME TypeOK, [Next]_vars
    PROVE  \/ UNCHANGED schedulerVars
           \/ pc = "recv" /\ pc' \in {"evaluate", "exited"} /\ UNCHANGED ready
           \/ send_to_workers
           \/ Offer
           \/ OfferToNobody
  BY DEF Next, ClientNext, Enqueue, Drop, FlushTick, FlushStop, Recv, SchedulerExit,
         WorkerTransmit, WorkerEnd, Rotate, Cancel, StoreBlocked, vars,
         schedulerVars, workerVars, historyVars, stats

\* What a step leaves of the batch while the loop runs.
LEMMA ReadyStep ==
    ASSUME TypeOK, TypeOK', [Next]_vars, pc = "send"
    PROVE  /\ Len(ready) \in Nat /\ Len(ready') \in Nat
           /\ \/ ready' = ready
              \/ Len(ready') = Len(ready) - 1
<1>1. ready \in Seq(Wires) /\ ready' \in Seq(Wires) /\ ready # << >>
  BY DEF TypeOK
<1>2. Len(Tail(ready)) = Len(ready) - 1
  BY <1>1, HeadTailProperties
<1>3. ready' = ready \/ ready' = Tail(ready)
  BY SchedulerStep DEF schedulerVars, send_to_workers, Offer, OfferToNobody, FinishTurn
<1> QED  BY <1>1, <1>2, <1>3, LenProperties

\* A turn takes one transaction off the batch.
LEMMA TurnOver ==
    ASSUME TypeOK, FinishTurn, pc = "send"
    PROVE  Len(ready) \in Nat /\ Len(ready') = Len(ready) - 1
BY HeadTailProperties, LenProperties DEF FinishTurn, TypeOK

\* The addresses of a window are addresses.
LEMMA WindowAddrs ==
    ASSUME TypeOK
    PROVE  \A k \in DOMAIN window : window[k] \in Addrs
<1>1. window \in Seq(Addrs)
  BY ConstantsAssumption, EmptySeq DEF ConstantsAssumption, TypeOK
<1> QED  BY <1>1, ElementOfSeq, LenProperties

\* The first step of a call leaves the worker channels alone.
LEMMA BeginsStep ==
    ASSUME TypeOK, [Next]_vars, Begins
    PROVE  send_to_workers /\ UNCHANGED workerVars
BY SchedulerStep DEF Begins, send_to_workers, Offer, OfferToNobody, schedulerVars, TypeOK

\* The history variables keep their types.
LEMMA CallTypesStep ==
    ASSUME TypeOK, TypeOK', CallTypes, [Next]_vars, Observe
    PROVE  CallTypes'
<1> USE DEF CallTypes
<1>1. \A a \in Addrs : Len(inbox[a]) \in Nat
  BY InboxStep
<1>2. WorkerChannelSize \in Nat
  BY ConstantsAssumption DEF ConstantsAssumption
<1>3. targets' \subseteq Addrs
  BY WindowAddrs DEF Observe
<1>4. turns' \in Nat
  BY ReadyStep DEF Observe
<1>5. given' \in [Addrs -> Nat]
  BY DEF Observe
<1>6. room' \in [Addrs -> Int]
  BY <1>1, <1>2 DEF Observe
<1>7. kept' \in [Addrs -> BOOLEAN]
  BY DEF Observe
<1> QED  BY <1>3, <1>4, <1>5, <1>6, <1>7

\* Within a call, what a worker was given only grows.
LEMMA CallStep ==
    ASSUME TypeOK, CallTypes, Observe, ~Begins, NEW a \in Addrs
    PROVE  /\ given[a] \in Nat
           /\ given'[a] = IF Gets(a) THEN given[a] + 1 ELSE given[a]
           /\ room[a] \in Int
           /\ room'[a] = room[a]
           /\ kept'[a] => kept[a] /\ worker'[a] = "live" /\ ~cancelled'
BY DEF Observe, CallTypes

\* What a worker has room for.
LEMMA RoomLeftStep ==
    ASSUME TypeOK, TypeOK', CallTypes, RoomLeft, [Next]_vars, Observe
    PROVE  RoomLeft'
<1> SUFFICES ASSUME NEW a \in Addrs, kept'[a]
             PROVE  /\ worker'[a] = "live"
                    /\ ~cancelled'
                    /\ Len(inbox'[a]) + room'[a] <= WorkerChannelSize + given'[a]
  BY DEF RoomLeft
<1>1. worker'[a] = "live" /\ ~cancelled'
  BY DEF Observe
<1>2. /\ Len(inbox[a]) \in Nat /\ Len(inbox'[a]) \in Nat
      /\ Len(inbox'[a]) <= Len(inbox[a]) + 1
      /\ WorkerChannelSize \in Nat
  BY InboxStep, ConstantsAssumption DEF ConstantsAssumption
<1>3. CASE Begins
  <2>1. inbox'[a] = inbox[a]
    BY <1>3, BeginsStep DEF workerVars
  <2>2. room'[a] = WorkerChannelSize - Len(inbox[a]) /\ given'[a] = 0
    BY <1>3 DEF Observe
  <2> QED  BY <1>1, <1>2, <2>1, <2>2
<1>4. CASE ~Begins
  <2>1. Len(inbox[a]) + room[a] <= WorkerChannelSize + given[a]
    BY <1>4, CallStep DEF RoomLeft
  <2>2. /\ room'[a] = room[a] /\ room[a] \in Int
        /\ given[a] \in Nat
        /\ given'[a] = IF Gets(a) THEN given[a] + 1 ELSE given[a]
    BY <1>4, CallStep
  <2>3. CASE Gets(a)
    BY <1>1, <1>2, <2>1, <2>2, <2>3
  <2>4. CASE ~Gets(a)
    <3>1. Len(inbox'[a]) <= Len(inbox[a])
      BY <1>2, <2>4 DEF Gets
    <3> QED  BY <1>1, <1>2, <2>1, <2>2, <2>4, <3>1
  <2> QED  BY <2>3, <2>4
<1> QED  BY <1>3, <1>4

\* Within a call nobody loses what it got.
LEMMA GotStep ==
    ASSUME TypeOK, CallTypes, Observe, ~Begins, NEW a \in Addrs, NEW n \in Nat, Got(a, n)
    PROVE  GotNext(a, n)
BY CallStep DEF Got, GotNext, Gets

\* After its offer the leader at the cursor has had its chance of the present
\* transaction: its worker took it, or has no room, or is no longer there.
LEMMA OfferStep ==
    ASSUME TypeOK, TypeOK', CallTypes, RoomLeft, [Next]_vars, Observe, Offer,
           Got(window[cursor], turns)
    PROVE  GotNext(window[cursor], turns + 1)
<1> DEFINE a == window[cursor]
<1>1. ~Begins /\ turns \in Nat
  BY DEF Begins, Offer, CallTypes
<1>2. a \in Addrs
  <2>1. window \in Seq(Addrs) /\ cursor \in 1..Len(window)
    BY ConstantsAssumption DEF ConstantsAssumption, Offer, TypeOK
  <2> QED  BY <2>1, ElementOfSeq
<1>3. /\ inbox[a] \in Seq(Wires) /\ Len(inbox[a]) \in Nat
      /\ WorkerChannelSize \in Nat
      /\ inbox \in [Addrs -> Seq(Wires)]
      /\ worker \in [Addrs -> {"none", "live", "gone"}]
  BY <1>2, InboxStep, ConstantsAssumption DEF ConstantsAssumption, TypeOK
<1>4. CASE try_send_transaction_to_address(a) = "Ok"
  <2>1. Len(inbox'[a]) = Len(inbox[a]) + 1
    <3>1. Head(ready) \in Wires
      BY HeadTailProperties DEF Offer, TypeOK
    <3>2. inbox'[a] = Append(inbox[a], Head(ready))
      BY <1>2, <1>3, <1>4 DEF Offer
    <3> QED  BY <1>3, <3>1, <3>2, AppendProperties
  <2>2. Gets(a)
    BY <1>3, <2>1 DEF Gets
  <2> QED  BY <1>1, <1>2, <2>2, CallStep DEF Got, GotNext
<1>5. CASE try_send_transaction_to_address(a) # "Ok"
  <2> SUFFICES ASSUME kept'[a] PROVE GotNext(a, turns + 1)
    BY DEF GotNext
  <2>1. kept[a] /\ worker'[a] = "live" /\ ~cancelled'
    BY <1>1, <1>2, CallStep
  <2>2. worker[a] = "live" /\ ~cancelled /\ Len(inbox[a]) + room[a] <= WorkerChannelSize + given[a]
    BY <1>2, <2>1 DEF RoomLeft
  <2>3. ~(Len(inbox[a]) < WorkerChannelSize)
    BY <1>5, <2>2 DEF try_send_transaction_to_address
  <2>4. given[a] >= room[a]
    BY <1>1, <1>2, <1>3, <2>2, <2>3, CallStep
  <2> QED  BY <1>1, <1>2, <2>4, CallStep DEF GotNext
<1> QED  BY <1>4, <1>5

\* What the leaders of the call have had, step by step.
LEMMA ProgressStep ==
    ASSUME TypeOK, TypeOK', CallInv, [Next]_vars, Observe
    PROVE  Progress'
<1> USE DEF CallInv
<1>1. turns \in Nat /\ CallTypes' /\ \A k \in DOMAIN window : window[k] \in Addrs
  BY CallTypesStep, WindowAddrs DEF CallTypes
<1>2. CASE Begins
  <2>1. /\ targets' = {window[k] : k \in DOMAIN window}
        /\ turns' = 0
        /\ \A a \in Addrs : given'[a] = 0
    BY <1>2 DEF Observe
  <2>2. \A a \in Addrs : GotNext(a, 0)
    BY <2>1 DEF GotNext
  <2>3. pc' = "send" => window' = window /\ cursor' = 1
    BY <1>2, BeginsStep DEF send_to_workers, TypeOK
  <2>4. pc' = "send" =>
            \A k \in DOMAIN window' : /\ Got(window[k], turns)'
                                      /\ ~(k < cursor')
    <3>1. \A k \in DOMAIN window : ~(k < 1)
      <4>1. window \in Seq(Addrs)
        BY ConstantsAssumption, EmptySeq DEF ConstantsAssumption, TypeOK
      <4> QED  BY <4>1, LenProperties
    <3> QED  BY <1>1, <2>1, <2>2, <2>3, <3>1 DEF Got, GotNext
  <2> QED  BY <1>1, <2>1, <2>2, <2>3, <2>4 DEF Progress, Got, GotNext
<1>3. CASE ~Begins /\ pc # "send"
  <2>1. pc' # "send" /\ UNCHANGED <<targets, turns>>
    BY <1>3, SchedulerStep
       DEF Begins, Observe, schedulerVars, send_to_workers, Offer, OfferToNobody
  <2>2. \A a \in targets : GotNext(a, turns)
    BY <1>1, <1>3, GotStep DEF Progress, CallTypes
  <2> QED  BY <2>1, <2>2 DEF Progress, Got, GotNext
<1>4. CASE pc = "send"
  <2>1. ~Begins /\ targets' = targets /\ targets = {window[k] : k \in DOMAIN window}
    BY <1>4 DEF Begins, Observe, Progress
  <2>2. \A k \in DOMAIN window : /\ GotNext(window[k], turns)
                                 /\ k < cursor => GotNext(window[k], turns + 1)
    BY <1>1, <1>4, <2>1, GotStep DEF Progress
  <2>3. CASE UNCHANGED schedulerVars
    <3>1. turns' = turns
      BY <1>1, <1>4, <2>1, <2>3, ReadyStep DEF schedulerVars, Observe
    <3> QED  BY <1>4, <2>1, <2>2, <2>3, <3>1 DEF schedulerVars, Progress, Got, GotNext
  <2>4. CASE Offer
    <3>1. /\ window \in Seq(Addrs) /\ cursor \in 1..Len(window)
          /\ DOMAIN window = 1..Len(window) /\ Len(window) \in Nat
      BY <2>4, ConstantsAssumption, LenProperties DEF ConstantsAssumption, Offer, TypeOK
    <3>2. GotNext(window[cursor], turns + 1)
      BY <1>4, <2>4, <3>1, OfferStep DEF Progress
    <3>3. CASE cursor < Len(window) /\ cursor' = cursor + 1
                /\ UNCHANGED <<ready, pc, window>>
      <4>1. turns' = turns
        BY <1>1, <1>4, <2>1, <3>3, ReadyStep DEF Observe
      <4>2. \A k \in DOMAIN window : k < cursor + 1 => GotNext(window[k], turns + 1)
        <5>1. \A k \in DOMAIN window : k < cursor + 1 => k < cursor \/ k = cursor
          BY <3>1
        <5> QED  BY <2>2, <3>2, <5>1
      <4> QED  BY <1>4, <2>1, <2>2, <3>3, <4>1, <4>2 DEF Progress, Got, GotNext
    <3>4. CASE cursor = Len(window) /\ FinishTurn
      <4>1. turns' = turns + 1
        <5>1. Len(ready) \in Nat /\ Len(ready') = Len(ready) - 1
          BY <1>4, <3>4, TurnOver
        <5>2. turns' = turns + Len(ready) - Len(ready')
          BY <1>4, <2>1 DEF Observe
        <5> QED  BY <1>1, <5>1, <5>2
      <4>2. \A k \in DOMAIN window : GotNext(window[k], turns + 1)
        <5>1. \A k \in DOMAIN window : k < cursor \/ k = cursor
          BY <3>1, <3>4
        <5> QED  BY <2>2, <3>2, <5>1
      <4>3. pc' = "send" => window' = window /\ cursor' = 1
        BY <3>4 DEF FinishTurn
      <4>4. pc' = "send" =>
                \A k \in DOMAIN window' : Got(window[k], turns)' /\ ~(k < cursor')
        BY <3>1, <4>1, <4>2, <4>3 DEF Got, GotNext
      <4> QED  BY <2>1, <4>1, <4>2, <4>3, <4>4 DEF Progress, Got, GotNext
    <3> QED  BY <2>4, <3>3, <3>4 DEF Offer
  <2>5. CASE OfferToNobody
    <3>1. DOMAIN window = {} /\ (pc' = "send" => window' = window)
      BY <2>5 DEF OfferToNobody, FinishTurn
    <3> QED  BY <2>1, <3>1 DEF Progress
  <2> QED  BY <1>4, <2>3, <2>4, <2>5, SchedulerStep DEF send_to_workers
<1> QED  BY <1>2, <1>3, <1>4

-------------------------------------------------------------------------------
(* What a leader loses. *)

\* What the workers of a call's leaders were given, in every state.
THEOREM CallInvCorrect == DeliverySpec => []CallInv
<1>1. DeliveryInit => CallInv
  <2> SUFFICES ASSUME DeliveryInit PROVE CallInv
    OBVIOUS
  <2>1. CallTypes
    BY DEF DeliveryInit, CallTypes
  <2>2. RoomLeft
    BY DEF DeliveryInit, RoomLeft
  <2>3. Progress
    BY DEF DeliveryInit, Init, Progress
  <2> QED  BY <2>1, <2>2, <2>3 DEF CallInv
<1>2. CallInv /\ TypeOK /\ TypeOK' /\ [DeliveryNext]_dvars => CallInv'
  <2> SUFFICES ASSUME CallInv, TypeOK, TypeOK', [DeliveryNext]_dvars PROVE CallInv'
    OBVIOUS
  <2>1. CASE DeliveryNext
    <3>1. [Next]_vars /\ Observe
      BY <2>1 DEF DeliveryNext
    <3> QED  BY <3>1, CallTypesStep, RoomLeftStep, ProgressStep DEF CallInv
  <2>2. CASE UNCHANGED dvars
    BY <2>2 DEF dvars, vars, callVars, schedulerVars, workerVars,
                CallInv, CallTypes, RoomLeft, Progress, Got
  <2> QED  BY <2>1, <2>2
<1>3. DeliverySpec => []TypeOK
  BY DeliveryIsClient, TypeCorrect, PTL
<1> QED  BY <1>1, <1>2, <1>3, PTL DEF DeliverySpec

\* Of a call of send_to_workers, a leader whose worker lives through it loses
\* no more than what exceeds the room of that worker: for every window, every
\* capacity, every batch and every fate of the other leaders' workers.
THEOREM LossIsOwnCorrect == DeliverySpec => []LossIsOwn
<1>1. CallInv /\ TypeOK => LossIsOwn
  <2> SUFFICES ASSUME CallInv, TypeOK, NEW a \in targets
               PROVE  Got(a, turns)
    BY DEF LossIsOwn, Got
  <2> QED  BY DEF CallInv, Progress
<1>2. DeliverySpec => []TypeOK
  BY DeliveryIsClient, TypeCorrect, PTL
<1> QED  BY <1>1, <1>2, CallInvCorrect, PTL

-------------------------------------------------------------------------------
(* What a worker is given over the whole run. *)

\* The transactions the worker of a may have been given: those whose turn is
\* over, and the present one once the cursor has passed a.
Past(a) ==
    {n \in 1..MaxEnqueued :
        \/ n \in handled
        \/ /\ ready # << >>
           /\ n = Head(ready)[1]
           /\ \E l \in DOMAIN window : l < cursor /\ window[l] = a}

\* The history is one of past transactions, each class in order.  That the
\* present transaction is not past before the cursor comes to a is what makes
\* the order strict, and rests on the window naming an address once.
GivenInv ==
    /\ sent \in [Addrs -> Seq(Nat)]
    /\ \A a \in Addrs : \A k \in DOMAIN sent[a] : sent[a][k] \in Past(a)
    /\ GivenInOrder

\* The present transaction, while there is one.
LEMMA Present ==
    ASSUME TypeOK, Inv, ready # << >>
    PROVE  /\ Head(ready)[1] \in 1..MaxEnqueued
           /\ Head(ready)[1] \in InBatch
           /\ Head(ready)[1] \in Turns
<1>1. ready \in Seq(Wires) /\ Head(ready) \in Wires
  BY HeadTailProperties DEF TypeOK
<1>2. Head(ready) # Flush /\ Head(ready)[1] \in 1..MaxEnqueued
  BY <1>1, WireForm
<1>3. Numbers(<<Head(ready)>>) = {Head(ready)[1]}
  BY <1>2, NumbersOne
<1>4. Head(ready)[1] \in InBatch
  BY <1>1, <1>3, NumbersTail DEF InBatch
<1> QED  BY <1>2, <1>4 DEF Turns

\* What is past stays past, and keeps its class.
LEMMA PastGrows ==
    ASSUME TypeOK, TypeOK', Inv, [Next]_vars, NEW a \in Addrs
    PROVE  /\ Past(a) \subseteq Past(a)'
           /\ \A m, n \in Past(a) : SameClass(m, n)' <=> SameClass(m, n)
<1>1. Past(a) \subseteq Turns
  BY DEF Past, Turns
<1>2. \A m, n \in Past(a) : SameClass(m, n)' <=> SameClass(m, n)
  BY <1>1, TurnsGrow
<1>3. CASE UNCHANGED <<ready, handled, window, cursor>>
  BY <1>2, <1>3 DEF Past
<1>4. CASE ready = << >> /\ UNCHANGED handled
  BY <1>2, <1>4 DEF Past
<1>5. CASE FinishTurn
  BY <1>2, <1>5 DEF FinishTurn, Past
<1>6. CASE Offer /\ cursor' = cursor + 1 /\ UNCHANGED <<ready, handled, window>>
  <2>1. window \in Seq(Addrs) /\ cursor \in Nat
    BY ConstantsAssumption, EmptySeq DEF ConstantsAssumption, TypeOK
  <2>2. \A l \in DOMAIN window : l < cursor => l < cursor + 1
    BY <2>1, LenProperties
  <2> QED  BY <1>2, <1>6, <2>2 DEF Past
<1>7. \/ UNCHANGED <<ready, handled, window, cursor>>
      \/ ready = << >> /\ UNCHANGED handled
      \/ FinishTurn
      \/ Offer /\ cursor' = cursor + 1 /\ UNCHANGED <<ready, handled, window>>
  <2>1. CASE Offer \/ OfferToNobody
    BY <2>1 DEF Offer, OfferToNobody
  <2>2. CASE Recv \/ send_to_workers \/ SchedulerExit
    BY <2>2 DEF Recv, send_to_workers, SchedulerExit, historyVars, TypeOK
  <2>3. \/ Offer \/ OfferToNobody \/ Recv \/ send_to_workers \/ SchedulerExit
        \/ UNCHANGED <<ready, handled, window, cursor>>
    BY DEF Next, ClientNext, Enqueue, Drop, FlushTick, FlushStop, WorkerTransmit,
           WorkerEnd, Rotate, Cancel, StoreBlocked, vars, schedulerVars, historyVars
  <2> QED  BY <2>1, <2>2, <2>3
<1> QED  BY <1>2, <1>3, <1>4, <1>5, <1>6, <1>7

\* When the worker of a is given a transaction, everything it was given
\* before and is of its class has a smaller number, and the transaction is
\* past after the step.
LEMMA GivenNext ==
    ASSUME TypeOK, TypeOK', Inv, Offer, NEW a \in Addrs, a = window[cursor]
    PROVE  /\ Head(ready)[1] \in Past(a)'
           /\ \A m \in Past(a) : SameClass(m, Head(ready)[1]) => m < Head(ready)[1]
<1> DEFINE n == Head(ready)[1]
<1>1. /\ ready # << >> /\ window # << >> /\ window \in Windows
      /\ window \in Seq(Addrs) /\ cursor \in DOMAIN window /\ cursor \in Nat
      /\ DOMAIN window = 1..Len(window)
  BY ConstantsAssumption, LenProperties DEF ConstantsAssumption, Offer, TypeOK
<1>2. n \in 1..MaxEnqueued /\ n \in InBatch
  BY <1>1, Present
<1>3. \A l \in DOMAIN window : window[l] = a => l = cursor
  BY <1>1, WindowsAssumption DEF WindowsAssumption
<1>4. n \in Past(a)'
  <2>1. CASE cursor' = cursor + 1 /\ UNCHANGED <<ready, window>>
    BY <1>1, <1>2, <2>1 DEF Past
  <2>2. CASE FinishTurn
    BY <1>2, <2>2 DEF FinishTurn, Past
  <2> QED  BY <2>1, <2>2 DEF Offer
<1>5. \A m \in Past(a) : m \in handled
  BY <1>1, <1>3 DEF Past
<1>6. \A m \in handled : SameClass(m, n) => m < n
  BY <1>2 DEF Inv, Batch
<1> QED  BY <1>4, <1>5, <1>6

\* For every window without repetition, every capacity and every number of
\* transactions, a worker is given each transaction at most once and each
\* class in the order of acceptance, over the whole run.
THEOREM GivenInOrderCorrect == DeliverySpec => []GivenInOrder
<1>1. DeliveryInit => GivenInv
  BY EmptySeq DEF DeliveryInit, GivenInv, GivenInOrder
<1>2. GivenInv /\ TypeOK /\ TypeOK' /\ Inv /\ [DeliveryNext]_dvars => GivenInv'
  <2> SUFFICES ASSUME GivenInv, TypeOK, TypeOK', Inv, [DeliveryNext]_dvars PROVE GivenInv'
    OBVIOUS
  <2>1. CASE UNCHANGED dvars
    BY <2>1 DEF dvars, vars, schedulerVars, historyVars, GivenInv, GivenInOrder, Past, SameClass
  <2>2. CASE DeliveryNext
    <3>1. [Next]_vars /\ Observe
      BY <2>2 DEF DeliveryNext
    <3>2. ASSUME NEW a \in Addrs
          PROVE  /\ sent'[a] \in Seq(Nat)
                 /\ \A k \in DOMAIN sent'[a] : sent'[a][k] \in Past(a)'
                 /\ \A k, l \in DOMAIN sent'[a] :
                        k < l /\ SameClass(sent[a][k], sent[a][l])' => sent'[a][k] < sent'[a][l]
      <4> DEFINE s == sent[a]
      <4>1. /\ s \in Seq(Nat) /\ Len(s) \in Nat /\ DOMAIN s = 1..Len(s)
            /\ \A k \in DOMAIN s : s[k] \in Past(a)
            /\ \A k, l \in DOMAIN s : k < l /\ SameClass(s[k], s[l]) => s[k] < s[l]
        BY LenProperties DEF GivenInv, GivenInOrder
      <4>2. /\ Past(a) \subseteq Past(a)'
            /\ \A m, n \in Past(a) : SameClass(m, n)' <=> SameClass(m, n)
        BY <3>1, PastGrows
      <4>3. CASE ~Gets(a)
        <5>1. sent'[a] = s
          BY <3>1, <4>3 DEF Observe
        <5> QED  BY <4>1, <4>2, <5>1
      <4>4. CASE Gets(a)
        <5> DEFINE n == Head(ready)[1]
        <5>1. Offer /\ a = window[cursor] /\ inbox'[a][Len(inbox'[a])] = Head(ready)
          BY <3>1, <4>4, InboxStep DEF Gets
        <5>2. n \in Past(a)' /\ \A m \in Past(a) : SameClass(m, n) => m < n
          BY <5>1, GivenNext
        <5>3. ready # << >> /\ UNCHANGED protected
          BY <5>1 DEF Offer, TypeOK
        <5>4. n \in Nat
          BY <5>3, Present
        <5>5. sent'[a] = Append(s, n)
          BY <3>1, <4>4, <5>1 DEF Observe
        <5> HIDE DEF n, s
        <5>6. /\ sent'[a] \in Seq(Nat)
              /\ DOMAIN sent'[a] = 1..(Len(s) + 1)
              /\ \A k \in 1..Len(s) : sent'[a][k] = s[k]
              /\ sent'[a][Len(s) + 1] = n
          BY <4>1, <5>4, <5>5, AppendProperties, LenProperties
        <5>7. \A k \in 1..(Len(s) + 1) : k \in 1..Len(s) \/ k = Len(s) + 1
          BY <4>1
        <5>8. \A k \in DOMAIN sent'[a] : sent'[a][k] \in Past(a)'
          BY <4>1, <4>2, <5>2, <5>6, <5>7
        <5>9. ASSUME NEW k \in DOMAIN sent'[a], NEW l \in DOMAIN sent'[a], k < l,
                     SameClass(sent'[a][k], sent'[a][l])
              PROVE  sent'[a][k] < sent'[a][l]
          <6>1. k \in 1..Len(s)
            BY <4>1, <5>6, <5>9
          <6>2. CASE l \in 1..Len(s)
            BY <4>1, <5>6, <5>9, <6>1, <6>2
          <6>3. CASE l = Len(s) + 1
            BY <4>1, <5>2, <5>6, <5>9, <6>1, <6>3
          <6> QED  BY <5>6, <5>7, <6>2, <6>3
        <5>10. \A i, j : SameClass(i, j)' <=> SameClass(i, j)
          BY <5>3 DEF SameClass
        <5> QED  BY <5>6, <5>8, <5>9, <5>10 DEF SameClass
      <4> QED  BY <4>3, <4>4
    <3>3. sent' \in [Addrs -> Seq(Nat)]
      BY <3>1, <3>2 DEF Observe
    <3> QED  BY <3>2, <3>3 DEF GivenInv, GivenInOrder
  <2> QED  BY <2>1, <2>2
<1>3. DeliverySpec => [](TypeOK /\ Inv)
  BY DeliveryIsClient, TypeCorrect, InvCorrect, PTL
<1>4. GivenInv => GivenInOrder
  BY DEF GivenInv
<1> QED  BY <1>1, <1>2, <1>3, <1>4, PTL DEF DeliverySpec

-------------------------------------------------------------------------------
(* The client and the refresh thread. *)

SP == INSTANCE ShieldProofs

\* The assumptions the shield's theorems rest on.
LEMMA ShieldConstants == SP!ShieldAssumption
BY IrisAssumption DEF SP!ShieldAssumption

\* The composition is a shield: the client never touches what the refresh
\* thread works with.
THEOREM IrisIsShield == IrisSpec => SP!Spec
<1>1. IrisInit => SP!Init
  BY DEF IrisInit, S!Init, SP!Init
<1>2. [IrisNext]_irisVars => [SP!Next]_(SP!vars)
  <2> SUFFICES ASSUME [IrisNext]_irisVars
               PROVE  SP!Next \/ UNCHANGED SP!vars
    OBVIOUS
  <2> USE DEF S!Denied, SP!Denied, S!Readable, SP!Readable, S!LEN, SP!LEN, S!Panics, SP!Panics,
              S!Policy_LEN, SP!Policy_LEN, S!PolicyV2_LEN, SP!PolicyV2_LEN,
              S!get_blocked_ips, SP!get_blocked_ips,
              S!try_deserialize_identities, SP!try_deserialize_identities
  <2>1. CASE ClientNext /\ UNCHANGED shieldVars
    <3>1. UNCHANGED <<blocked, cancelled>> \/ Cancel
      BY <2>1 DEF ClientNext, Enqueue, Drop, FlushTick, FlushStop, Recv, send_to_workers,
                  Offer, OfferToNobody, SchedulerExit, WorkerTransmit, WorkerEnd, Rotate
    <3> QED  BY <2>1, <3>1 DEF Cancel, shieldVars, SP!Next, SP!Cancel, SP!shieldVars, SP!vars
  <2>2. CASE S!StoreBlocked
    <3>1. SP!StoreBlocked
      BY <2>2 DEF S!StoreBlocked, SP!StoreBlocked
    <3> QED  BY <3>1 DEF SP!Next
  <2>3. CASE S!Quiet
    <3>1. SP!Quiet
      BY <2>3 DEF S!Quiet, SP!Quiet, S!Tick, SP!Tick, S!get_cluster_nodes, SP!get_cluster_nodes,
                  S!RefreshFails, SP!RefreshFails, S!Panic, SP!Panic, S!Stop, SP!Stop
    <3> QED  BY <3>1 DEF SP!Next
  <2>4. CASE S!Cluster
    <3>1. SP!Cluster
      BY <2>4 DEF S!Cluster, SP!Cluster, S!Publish, SP!Publish, S!Move, SP!Move
    <3> QED  BY <3>1 DEF SP!Next
  <2>5. CASE UNCHANGED irisVars
    BY <2>5 DEF irisVars, vars, shieldVars, SP!vars, SP!shieldVars
  <2> QED  BY <2>1, <2>2, <2>3, <2>4, <2>5 DEF IrisNext
<1> QED  BY <1>1, <1>2, PTL DEF IrisSpec, SP!Spec

\* What holds of every shield holds in the composition.
LEMMA IrisShieldInvariants == IrisSpec => [](SP!TypeOK /\ SP!SteadyBlocked)
<1>1. SP!Spec => []SP!TypeOK
  BY ShieldConstants, SP!TypeCorrect
<1>2. SP!Spec => []SP!SteadyBlocked
  BY ShieldConstants, SP!SteadyBlockedCorrect
<1> QED  BY <1>1, <1>2, IrisIsShield, PTL

\* The composition is a client: to the client, the refresh thread is someone
\* who replaces the blocked set at any time by any set of addresses.  So
\* every theorem about the client holds of the composition.
THEOREM IrisIsClient == IrisSpec => Spec
<1>1. IrisInit => Init
  BY DEF IrisInit
<1>2. SP!TypeOK' /\ [IrisNext]_irisVars => [Next]_vars
  <2> SUFFICES ASSUME SP!TypeOK', [IrisNext]_irisVars PROVE [Next]_vars
    OBVIOUS
  <2>1. CASE ClientNext
    BY <2>1 DEF Next
  <2>2. CASE S!StoreBlocked /\ UNCHANGED clientVars
    <3>1. StoreBlocked(blocked')
      BY <2>2 DEF StoreBlocked, clientVars
    <3>2. blocked' \in SUBSET Addrs
      BY DEF SP!TypeOK
    <3> QED  BY <3>1, <3>2 DEF Next
  <2>3. CASE UNCHANGED vars
    BY <2>3
  <2> QED  BY <2>1, <2>2, <2>3 DEF IrisNext, irisVars
<1> QED  BY <1>1, <1>2, IrisShieldInvariants, PTL DEF IrisSpec, Spec

\* In the composition no batch of protected transactions is released to a
\* leader denied since before the last successful refresh began, whatever the
\* refresh thread does meanwhile.
THEOREM ShieldedReleaseCorrect == IrisSpec => ShieldedRelease
<1>1. TypeOK /\ SafeRelease' /\ SP!SteadyBlocked /\ [IrisNext]_irisVars =>
          [(pc = "evaluate" /\ \E n \in Numbers(ready') : n \in protected)
               => ~Reaches(window, steady)]_irisVars
  <2> SUFFICES ASSUME TypeOK, SafeRelease', SP!SteadyBlocked, IrisNext,
                      pc = "evaluate",
                      NEW n \in Numbers(ready'), n \in protected
               PROVE  ~Reaches(window, steady)
    OBVIOUS
  <2>1. ready = << >> /\ ready' # << >>
    BY NumbersOne DEF TypeOK
  <2>2. send_to_workers
    BY <2>1 DEF IrisNext, ClientNext, Enqueue, Drop, FlushTick, FlushStop, Recv, Offer,
                OfferToNobody, SchedulerExit, WorkerTransmit, WorkerEnd, Rotate, Cancel,
                schedulerVars, clientVars, vars
  <2>3. snapshot' = blocked /\ window' = window /\ UNCHANGED protected
    BY <2>1, <2>2 DEF send_to_workers, historyVars
  <2>4. ~has_blocked_send_target(window, blocked)
    BY <2>3 DEF SafeRelease, has_blocked_send_target
  <2> QED  BY <2>4 DEF Reaches, has_blocked_send_target, SP!SteadyBlocked
<1> QED
  BY <1>1, IrisIsClient, IrisShieldInvariants, TypeCorrect, SafeReleaseCorrect, PTL
     DEF IrisSpec, ShieldedRelease

-------------------------------------------------------------------------------
(* The servers and the client. *)

\* The servers with their theorems; those about the size limits are not used
\* here, so their constants do not matter.
IP == INSTANCE IngressProofs WITH
          pc <- task, channel <- inlet, Sizes <- {}, Bytes <- {}, Overhead <- 0

\* The assumptions the theorems about the servers rest on.
LEMMA ServerConstants == IP!IngressAssumption /\ IP!DecodeAssumption
BY PipelineAssumption, ConstantsAssumption 
   DEF IP!IngressAssumption, IP!DecodeAssumption, IsFiniteSet, IP!IsFiniteSet

\* Both parts count alike.
LEMMA SameCardinality == \A set : IP!Cardinality(set) = Cardinality(set)
BY DEF IP!Cardinality, Cardinality, IP!IsFiniteSet, IsFiniteSet

-------------------------------------------------------------------------------
(* The composition is a client and a pair of servers. *)

\* The composition is a TPU client: the servers are one way to call
\* send_transaction, so every theorem about the client holds of it.
THEOREM PipelineIsClient == PipelineSpec => Spec
<1>1. PipelineInit => Init
  BY DEF PipelineInit
<1>2. [PipelineNext]_pvars => [Next]_vars
  <2> SUFFICES ASSUME [PipelineNext]_pvars PROVE Next \/ UNCHANGED vars
    OBVIOUS
  <2>1. ASSUME NEW r \in Requests, SendTransaction(r) PROVE Next
    <3>1. I!MevProtect(r) \in BOOLEAN
      BY DEF I!MevProtect
    <3> QED  BY <2>1, <3>1 DEF SendTransaction, Next, ClientNext
  <2>2. CASE Shared
    BY <2>2 DEF Shared, Next, ClientNext
  <2>3. CASE Servers
    BY <2>3 DEF Servers
  <2>4. CASE Client
    BY <2>4 DEF Client, Next, ClientNext
  <2>5. CASE UNCHANGED pvars
    BY <2>5 DEF pvars
  <2> QED  BY <2>1, <2>2, <2>3, <2>4, <2>5 DEF PipelineNext
<1> QED  BY <1>1, <1>2, PTL DEF PipelineSpec, Spec

\* The composition is a pair of servers: the TPU client is one way to empty
\* the channel, so every theorem about the servers holds of it.
THEOREM PipelineIsIngress == PipelineSpec => IP!Spec
<1>1. PipelineInit => IP!Init
  BY DEF PipelineInit, I!Init, IP!Init, I!NoBody, IP!NoBody, I!Counters, IP!Counters
<1>2. [PipelineNext]_pvars => [IP!Next]_(IP!vars)
  <2> SUFFICES ASSUME [PipelineNext]_pvars PROVE IP!Next \/ UNCHANGED IP!vars
    OBVIOUS
  <2> USE DEF I!Goto, IP!Goto, I!fetch_add, IP!fetch_add, I!MevProtect, IP!MevProtect,
              I!CanSend, IP!CanSend
  <2>1. ASSUME NEW r \in Requests, SendTransaction(r) PROVE IP!Next
    <3>1. I!Send(r) => IP!Send(r)
      BY DEF I!Send, IP!Send, I!Wire, IP!Wire, I!new, IP!new, I!MEV_PROTECTED, IP!MEV_PROTECTED
    <3>2. I!CountDropped(r) => IP!CountDropped(r)
      BY DEF I!CountDropped, IP!CountDropped
    <3> QED  BY <2>1, <3>1, <3>2 DEF SendTransaction, IP!Next, IP!Task
  <2>2. CASE Shared
    <3>1. I!FlushTick => IP!FlushTick
      BY DEF I!FlushTick, IP!FlushTick, I!Flush, IP!Flush
    <3>2. I!Recv => IP!Recv
      BY DEF I!Recv, IP!Recv
    <3>3. I!ReceiverGone => IP!ReceiverGone
      BY DEF I!ReceiverGone, IP!ReceiverGone, I!Range, IP!Range
    <3>4. I!Cancel => IP!Cancel
      BY DEF I!Cancel, IP!Cancel, I!Ended, IP!Ended
    <3> QED  BY <2>2, <3>1, <3>2, <3>3, <3>4 DEF Shared, IP!Next
  <2>3. CASE Servers
    <3>1. ASSUME NEW k \in Conns, I!AcceptConnection(k) \/ I!Connecting(k) \/ I!ConnectionEnds(k)
          PROVE  IP!Next
      <4>1. IP!AcceptConnection(k) \/ IP!Connecting(k) \/ IP!ConnectionEnds(k)
        BY <3>1 DEF I!AcceptConnection, IP!AcceptConnection, I!Connecting, IP!Connecting,
                    I!ConnectionEnds, IP!ConnectionEnds
      <4> QED  BY <4>1 DEF IP!Next
    <3>2. ASSUME NEW k \in Conns, NEW r \in Requests, I!AcceptUni(k, r) PROVE IP!Next
      <4>1. IP!AcceptUni(k, r)
        BY <3>2 DEF I!AcceptUni, IP!AcceptUni
      <4> QED  BY <4>1 DEF IP!Next
    <3>3. ASSUME NEW r \in Requests,
                 \/ I!ReadFails(r) \/ I!CountReceived(r) \/ I!CountFlag(r)
                 \/ I!CountInvalid(r) \/ I!CountEnqueued(r)
          PROVE  IP!Next
      <4>1. IP!Task(r)
        BY <3>3 DEF IP!Task, I!ReadFails, IP!ReadFails, I!CountReceived, IP!CountReceived,
                    I!CountFlag, IP!CountFlag, I!CountInvalid, IP!CountInvalid,
                    I!CountEnqueued, IP!CountEnqueued
      <4> QED  BY <4>1 DEF IP!Next
    <3>4. ASSUME NEW r \in Requests, NEW b \in Bodies \cap I!QuicBodies, I!ReadToEnd(r, b)
          PROVE  IP!Next
      <4>1. b \in IP!QuicBodies /\ IP!ReadToEnd(r, b)
        BY <3>4 DEF I!QuicBodies, IP!QuicBodies, I!ReadToEnd, IP!ReadToEnd
      <4> QED  BY <4>1 DEF IP!Next
    <3>5. ASSUME NEW r \in Requests, NEW b \in Bodies \cap I!RpcBodies, I!CallRpc(r, b)
          PROVE  IP!Next
      <4>1. b \in IP!RpcBodies /\ IP!CallRpc(r, b)
        BY <3>5 DEF I!RpcBodies, IP!RpcBodies, I!CallRpc, IP!CallRpc
      <4> QED  BY <4>1 DEF IP!Next
    <3>6. CASE I!QuicStops \/ I!RpcStops
      BY <3>6 DEF I!QuicStops, IP!QuicStops, I!RpcStops, IP!RpcStops, IP!Next
    <3> QED  BY <2>3, <3>1, <3>2, <3>3, <3>4, <3>5, <3>6 DEF Servers
  <2>4. CASE Client
    <3>1. UNCHANGED cancelled
      BY <2>4 DEF Client, FlushStop, send_to_workers, Offer, OfferToNobody, WorkerTransmit,
                  WorkerEnd, Rotate, StoreBlocked
    <3> QED  BY <2>4, <3>1 DEF Client, serverVars, IP!vars
  <2>5. CASE UNCHANGED pvars
    BY <2>5 DEF pvars, vars, serverVars, IP!vars
  <2> QED  BY <2>1, <2>2, <2>3, <2>4, <2>5 DEF PipelineNext
<1> QED  BY <1>1, <1>2, PTL DEF PipelineSpec, IP!Spec

\* What holds of every client and of every pair of servers holds in the
\* composition.
LEMMA PipelineTypes == PipelineSpec => [](TypeOK /\ Inv /\ IP!TypeOK)
<1>1. IP!Spec => []IP!TypeOK
  BY ServerConstants, IP!TypeCorrect
<1> QED  BY <1>1, PipelineIsClient, PipelineIsIngress, TypeCorrect, InvCorrect, PTL

-------------------------------------------------------------------------------
(* The request behind a transaction. *)

\* Of the n-th transaction the n-th request is the source, its task has passed
\* the channel, the transaction is protected exactly when the request asked
\* for it, and no request is the source of two transactions.
Traced ==
    /\ source \in Seq(Requests) /\ Len(source) = tpu_enqueued
    /\ \A n \in 1..tpu_enqueued :
           /\ task[source[n]] \in {"enqueued", "accepted"}
           /\ n \in protected <=> I!MevProtect(source[n])
    /\ \A m, n \in 1..tpu_enqueued : source[m] = source[n] => m = n

\* A task that has passed the channel never goes back, and nothing changes
\* what its client sent.
LEMMA SentStays ==
    ASSUME IP!TypeOK, [PipelineNext]_pvars,
           NEW q \in Requests, task[q] \in {"enqueued", "accepted"}
    PROVE  task'[q] \in {"enqueued", "accepted"} /\ body'[q] = body[q]
<1> USE DEF I!Goto
<1>1. task \in [Requests -> IP!Labels] /\ body \in [Requests -> IP!QuicBodies \cup IP!RpcBodies \cup {IP!NoBody}]
  BY DEF IP!TypeOK
<1>2. ASSUME NEW r \in Requests,
             \/ I!Send(r) \/ I!CountDropped(r) \/ I!ReadFails(r) \/ I!CountReceived(r)
             \/ I!CountFlag(r) \/ I!CountInvalid(r)
             \/ \E k \in Conns : I!AcceptUni(k, r)
             \/ \E b : I!ReadToEnd(r, b) \/ I!CallRpc(r, b)
      PROVE  task'[q] = task[q] /\ body'[q] = body[q]
  <2>1. task[r] \notin {"enqueued", "accepted"}
    BY <1>2 DEF I!Send, I!CountDropped, I!ReadFails, I!CountReceived, I!CountFlag,
                I!CountInvalid, I!AcceptUni, I!ReadToEnd, I!CallRpc
  <2>2. \E label : task' = [task EXCEPT ![r] = label]
    BY <1>2 DEF I!Send, I!CountDropped, I!ReadFails, I!CountReceived, I!CountFlag,
                I!CountInvalid, I!AcceptUni, I!ReadToEnd, I!CallRpc
  <2>3. body' = body \/ \E b : body' = [body EXCEPT ![r] = b]
    BY <1>2 DEF I!Send, I!CountDropped, I!ReadFails, I!CountReceived, I!CountFlag,
                I!CountInvalid, I!AcceptUni, I!ReadToEnd, I!CallRpc
  <2> QED  BY <1>1, <2>1, <2>2, <2>3
<1>3. ASSUME NEW r \in Requests, I!CountEnqueued(r)
      PROVE  task'[q] \in {"enqueued", "accepted"} /\ body'[q] = body[q]
  BY <1>1, <1>3 DEF I!CountEnqueued
<1>4. CASE UNCHANGED <<task, body>>
  BY <1>4
<1>5. ASSUME Shared \/ Client \/ UNCHANGED pvars PROVE UNCHANGED <<task, body>>
  BY <1>5 DEF Shared, Client, pvars, serverVars, I!FlushTick, I!Recv, I!ReceiverGone, I!Cancel
<1>6. ASSUME I!QuicStops \/ I!RpcStops
             \/ \E k \in Conns : I!AcceptConnection(k) \/ I!Connecting(k) \/ I!ConnectionEnds(k)
      PROVE  UNCHANGED <<task, body>>
  BY <1>6 DEF I!QuicStops, I!RpcStops, I!AcceptConnection, I!Connecting, I!ConnectionEnds
<1>7. CASE Servers
  BY <1>2, <1>3, <1>4, <1>6, <1>7 DEF Servers
<1>8. CASE \E r \in Requests : SendTransaction(r)
  BY <1>2, <1>8 DEF SendTransaction
<1> QED  BY <1>4, <1>5, <1>7, <1>8 DEF PipelineNext

\* Apart from an acceptance no step touches the accepted transactions.
LEMMA AcceptedStay ==
    ASSUME [PipelineNext]_pvars,
           ~\E r \in Requests : I!Send(r) /\ Enqueue(I!MevProtect(r)) /\ source' = Append(source, r)
    PROVE  UNCHANGED <<source, protected, tpu_enqueued>>
<1> USE DEF historyVars, stats
<1>1. CASE \E r \in Requests : SendTransaction(r)
  BY <1>1 DEF SendTransaction, Drop
<1>2. CASE Shared
  BY <1>2 DEF Shared, FlushTick, Recv, SchedulerExit, Cancel
<1>3. CASE Servers
  BY <1>3 DEF Servers, vars
<1>4. CASE Client
  BY <1>4 DEF Client, FlushStop, send_to_workers, MevStats, Offer, OfferToNobody,
              WorkerTransmit, WorkerEnd, Rotate, StoreBlocked
<1>5. CASE UNCHANGED pvars
  BY <1>5 DEF pvars, vars
<1> QED  BY <1>1, <1>2, <1>3, <1>4, <1>5 DEF PipelineNext

\* Acceptance is the only way into the channel, and the number a transaction
\* gets there stays with its request.
LEMMA TracedCorrect == PipelineSpec => []Traced
<1>1. PipelineInit => Traced
  BY EmptySeq DEF PipelineInit, Init, Traced
<1>2. TypeOK /\ Inv /\ IP!TypeOK /\ Traced /\ [PipelineNext]_pvars => Traced'
  <2> SUFFICES ASSUME TypeOK, Inv, IP!TypeOK, Traced, [PipelineNext]_pvars PROVE Traced'
    OBVIOUS
  <2>1. /\ source \in Seq(Requests) /\ Len(source) = tpu_enqueued
        /\ tpu_enqueued \in Nat
        /\ \A n \in 1..tpu_enqueued : source[n] \in Requests
    BY ElementOfSeq, LenProperties DEF Traced
  <2>2. \A n \in 1..tpu_enqueued :
            /\ task'[source[n]] \in {"enqueued", "accepted"}
            /\ body'[source[n]] = body[source[n]]
    BY <2>1, SentStays DEF Traced
  <2>3. ASSUME NEW r \in Requests, I!Send(r), Enqueue(I!MevProtect(r)),
               source' = Append(source, r)
        PROVE  Traced'
    <3> DEFINE tx == tpu_enqueued + 1
    <3>1. /\ source' \in Seq(Requests) /\ Len(source') = tx
          /\ \A n \in 1..tpu_enqueued : source'[n] = source[n]
          /\ source'[tx] = r
      BY <2>1, <2>3, AppendProperties
    <3>2. /\ tpu_enqueued' = tx
          /\ protected' = IF I!MevProtect(r) THEN protected \cup {tx} ELSE protected
          /\ tx \notin protected
      BY <2>1, <2>3 DEF Enqueue, Inv, Known
    <3>3. task[r] = "send" /\ task'[r] = "enqueued" /\ body' = body
      BY <2>3 DEF I!Send, I!Goto, IP!TypeOK
    <3>4. \A n \in 1..tx : n \in 1..tpu_enqueued \/ n = tx
      BY <2>1
    <3>5. \A n \in 1..tpu_enqueued : n # tx
      BY <2>1
    <3> HIDE DEF tx
    <3>6. \A n \in 1..tpu_enqueued : /\ source'[n] # r
                                     /\ (n \in protected' <=> n \in protected)
      BY <3>1, <3>2, <3>3, <3>5 DEF Traced
    <3>7. \A n \in 1..tx : /\ task'[source'[n]] \in {"enqueued", "accepted"}
                           /\ n \in protected' <=> body'[source'[n]].mev_protect = "true"
      <4>1. ASSUME NEW n \in 1..tpu_enqueued
            PROVE  /\ task'[source'[n]] \in {"enqueued", "accepted"}
                   /\ n \in protected' <=> body'[source'[n]].mev_protect = "true"
        BY <2>2, <3>1, <3>6 DEF Traced, I!MevProtect
      <4>2. tx \in protected' <=> body'[source'[tx]].mev_protect = "true"
        BY <3>1, <3>2, <3>3 DEF I!MevProtect
      <4> QED  BY <3>1, <3>3, <3>4, <4>1, <4>2
    <3>8. \A m, n \in 1..tx : source'[m] = source'[n] => m = n
      BY <3>1, <3>4, <3>6 DEF Traced
    <3> QED  BY <3>1, <3>2, <3>7, <3>8 DEF Traced, I!MevProtect
  <2>4. CASE UNCHANGED <<source, protected, tpu_enqueued>>
    BY <2>1, <2>2, <2>4 DEF Traced, I!MevProtect
  <2> QED  BY <2>3, <2>4, AcceptedStay
<1> QED  BY <1>1, <1>2, PipelineTypes, PTL DEF PipelineSpec

\* The wish of a client is respected from its request to the leaders: while
\* its transaction is going out, no leader of the window was in the set that
\* send_to_workers loaded.
THEOREM WishRespectedCorrect == PipelineSpec => []WishRespected
<1>1. Inv /\ Traced => WishRespected
  <2> SUFFICES ASSUME Inv, Traced, NEW n \in Numbers(ready), I!MevProtect(source[n])
               PROVE  \A k \in DOMAIN window : window[k] \notin snapshot
    BY DEF WishRespected
  <2>1. n \in 1..tpu_enqueued
    BY DEF Inv, Known, InBatch
  <2>2. n \in protected
    BY <2>1 DEF Traced
  <2> QED  BY <2>2 DEF Inv, SafeRelease
<1> QED  BY <1>1, PipelineTypes, TracedCorrect, PTL

\* Only transactions of clients that asked for protection wait in the buffer.
THEOREM OnlyOnWishCorrect == PipelineSpec => []OnlyOnWish
<1>1. Inv /\ Traced => OnlyOnWish
  BY DEF Inv, Known, Waiting, InBuffer, Traced, OnlyOnWish
<1> QED  BY <1>1, PipelineTypes, TracedCorrect, PTL

-------------------------------------------------------------------------------
(* The channel as the two parts see it. *)

\* It is closed for the servers exactly when the scheduler is gone, it holds
\* as many messages on both sides, and at the same place the servers have put
\* a flush message or the request behind the transaction the client sees.
OneChannel ==
    /\ closed <=> pc = "exited"
    /\ Len(inlet) = Len(channel)
    /\ \A i \in 1..Len(channel) :
           owner[i] = IF channel[i] = Flush THEN FlushTask ELSE source[channel[i][1]]

\* Both ends of the channel agree about it: it is full or closed for both or
\* for none, so a send that one part takes for possible is never held up by
\* the other's view of the channel.
THEOREM OneChannelCorrect == PipelineSpec => [](OneChannel /\ (I!CanSend <=> CanSend))
<1>1. PipelineInit => OneChannel
  BY EmptySeq DEF PipelineInit, Init, I!Init, OneChannel
<1>2. TypeOK /\ Inv /\ IP!TypeOK /\ Traced /\ OneChannel /\ [PipelineNext]_pvars => OneChannel'
  <2> SUFFICES ASSUME TypeOK, Inv, IP!TypeOK, Traced, OneChannel, [PipelineNext]_pvars
               PROVE  OneChannel'
    OBVIOUS
  <2> USE DEF schedulerVars, workerVars, historyVars, stats
  <2>1. /\ channel \in Seq(Messages) /\ inlet \in Seq(IP!Messages)
        /\ owner \in Seq(Requests \cup {FlushTask})
        /\ Len(channel) \in Nat /\ Len(inlet) = Len(channel) /\ Len(owner) = Len(channel)
        /\ source \in Seq(Requests) /\ tpu_enqueued \in Nat /\ Len(source) = tpu_enqueued
    BY LenProperties DEF TypeOK, IP!TypeOK, OneChannel, Traced
  <2>2. \A i \in 1..Len(channel) : channel[i] # Flush => channel[i][1] \in 1..tpu_enqueued
    <3>1. DOMAIN channel = 1..Len(channel)
      BY <2>1, LenProperties
    <3> QED  BY <3>1, NumbersIn DEF Inv, Known, InChannel
  <2>3. \A i \in 1..(Len(channel) + 1) : i \in 1..Len(channel) \/ i = Len(channel) + 1
    BY <2>1
  <2>4. ASSUME NEW m \in Messages, NEW x \in IP!Messages, NEW o \in Requests \cup {FlushTask},
               channel' = Append(channel, m), inlet' = Append(inlet, x),
               owner' = Append(owner, o), UNCHANGED <<closed, pc>>,
               \A n \in 1..tpu_enqueued : source'[n] = source[n],
               o = IF m = Flush THEN FlushTask ELSE source'[m[1]]
        PROVE  OneChannel'
    <3>1. /\ Len(channel') = Len(channel) + 1 /\ Len(inlet') = Len(channel) + 1
          /\ \A i \in 1..Len(channel) : channel'[i] = channel[i] /\ owner'[i] = owner[i]
          /\ channel'[Len(channel) + 1] = m /\ owner'[Len(channel) + 1] = o
      BY <2>1, <2>4, AppendProperties
    <3>2. ASSUME NEW i \in 1..Len(channel)
          PROVE  owner'[i] = IF channel'[i] = Flush THEN FlushTask ELSE source'[channel'[i][1]]
      <4>1. channel'[i] = channel[i] /\ owner'[i] = owner[i]
        BY <3>1
      <4>2. owner[i] = IF channel[i] = Flush THEN FlushTask ELSE source[channel[i][1]]
        BY DEF OneChannel
      <4>3. channel[i] # Flush => source'[channel[i][1]] = source[channel[i][1]]
        BY <2>2, <2>4
      <4> QED  BY <4>1, <4>2, <4>3
    <3>3. \A i \in 1..(Len(channel) + 1) :
              owner'[i] = IF channel'[i] = Flush THEN FlushTask ELSE source'[channel'[i][1]]
      BY <2>3, <2>4, <3>1, <3>2
    <3> QED  BY <2>4, <3>1, <3>3 DEF OneChannel
  <2>5. ASSUME NEW r \in Requests, SendTransaction(r) PROVE OneChannel'
    <3>1. CASE I!Send(r) /\ Enqueue(I!MevProtect(r)) /\ source' = Append(source, r)
      <4> DEFINE tx == tpu_enqueued + 1
                 m  == new(<<tx>>, I!MevProtect(r))
                 x  == I!new(I!Wire(r), I!MevProtect(r))
      <4>1. tx \in 1..MaxEnqueued /\ I!MevProtect(r) \in BOOLEAN
        BY <2>1, <3>1 DEF Enqueue, I!MevProtect
      <4>2. m \in Messages /\ m # Flush /\ m[1] = tx
        BY <4>1, MessageOf
      <4>3. x \in IP!Messages
        <5>1. IP!new(IP!Wire(r), I!MevProtect(r)) \in IP!Messages
          BY <4>1, ServerConstants, IP!WireOf
        <5>2. x = IP!new(IP!Wire(r), I!MevProtect(r))
          BY DEF I!Wire, IP!Wire, I!new, IP!new, I!MEV_PROTECTED, IP!MEV_PROTECTED
        <5> QED  BY <5>1, <5>2
      <4>4. /\ \A n \in 1..tpu_enqueued : source'[n] = source[n]
            /\ source'[tx] = r
        BY <2>1, <3>1, AppendProperties
      <4>5. /\ channel' = Append(channel, m) /\ inlet' = Append(inlet, x)
            /\ owner' = Append(owner, r) /\ UNCHANGED <<closed, pc>>
        BY <3>1 DEF Enqueue, I!Send
      <4> HIDE DEF m, x, tx
      <4> QED  BY <2>4, <4>2, <4>3, <4>4, <4>5, PipelineAssumption
    <3>2. CASE I!CountDropped(r) /\ Drop /\ UNCHANGED source
      BY <3>2 DEF I!CountDropped, Drop, OneChannel
    <3> QED  BY <2>5, <3>1, <3>2 DEF SendTransaction
  <2>6. CASE Shared
    <3>1. CASE I!FlushTick /\ FlushTick /\ UNCHANGED source
      <4>1. Flush \in Messages /\ I!Flush \in IP!Messages
        BY DEF Messages, IP!Messages, I!Flush, IP!Flush
      <4>2. /\ channel' = Append(channel, Flush) /\ inlet' = Append(inlet, I!Flush)
            /\ owner' = Append(owner, FlushTask) /\ UNCHANGED <<closed, pc, source>>
        BY <3>1 DEF FlushTick, I!FlushTick
      <4> QED  BY <2>4, <4>1, <4>2
    <3>2. CASE I!Recv /\ Recv /\ UNCHANGED source
      <4>1. /\ channel # << >> /\ inlet # << >> /\ channel' = Tail(channel)
            /\ inlet' = Tail(inlet) /\ owner' = Tail(owner)
            /\ UNCHANGED <<closed, source>> /\ pc # "exited" /\ pc' # "exited"
        BY <3>2 DEF Recv, I!Recv
      <4>2. owner # << >>
        BY <2>1, <4>1, EmptySeq
      <4>3. /\ Len(channel') = Len(channel) - 1 /\ Len(inlet') = Len(channel) - 1
            /\ \A i \in 1..(Len(channel) - 1) :
                   channel'[i] = channel[i + 1] /\ owner'[i] = owner[i + 1]
        BY <2>1, <4>1, <4>2, HeadTailProperties
      <4>4. \A i \in 1..(Len(channel) - 1) : i + 1 \in 1..Len(channel)
        BY <2>1
      <4>5. ASSUME NEW i \in 1..(Len(channel) - 1)
            PROVE  owner'[i] = IF channel'[i] = Flush THEN FlushTask ELSE source'[channel'[i][1]]
        <5>1. owner[i + 1] = IF channel[i + 1] = Flush THEN FlushTask
                                                       ELSE source[channel[i + 1][1]]
          BY <4>4 DEF OneChannel
        <5>2. channel'[i] = channel[i + 1] /\ owner'[i] = owner[i + 1] /\ source' = source
          BY <4>1, <4>3
        <5> QED  BY <5>1, <5>2
      <4>6. closed' <=> pc' = "exited"
        BY <4>1 DEF OneChannel
      <4> QED  BY <4>3, <4>5, <4>6 DEF OneChannel
    <3>3. CASE I!ReceiverGone /\ SchedulerExit /\ UNCHANGED source
      BY <3>3, EmptySeq DEF I!ReceiverGone, SchedulerExit, OneChannel
    <3>4. CASE I!Cancel /\ Cancel /\ UNCHANGED source
      BY <3>4 DEF I!Cancel, Cancel, OneChannel
    <3> QED  BY <2>6, <3>1, <3>2, <3>3, <3>4 DEF Shared
  <2>7. CASE Servers
    <3>1. UNCHANGED <<inlet, owner, closed, channel, pc, source>>
      BY <2>7 DEF Servers, vars, I!AcceptConnection, I!Connecting, I!ConnectionEnds, I!AcceptUni,
                  I!ReadFails, I!CountReceived, I!CountFlag, I!CountInvalid, I!CountEnqueued,
                  I!ReadToEnd, I!CallRpc, I!QuicStops, I!RpcStops
    <3> QED  BY <3>1 DEF OneChannel
  <2>8. CASE Client
    <3>1. UNCHANGED <<inlet, owner, closed, channel, source>>
      BY <2>8 DEF Client, serverVars, FlushStop, send_to_workers, Offer, OfferToNobody,
                  WorkerTransmit, WorkerEnd, Rotate, StoreBlocked
    <3>2. pc' = "exited" <=> pc = "exited"
      BY <2>8 DEF Client, FlushStop, send_to_workers, Offer, OfferToNobody, FinishTurn,
                  WorkerTransmit, WorkerEnd, Rotate, StoreBlocked
    <3> QED  BY <3>1, <3>2 DEF OneChannel
  <2>9. CASE UNCHANGED pvars
    BY <2>9 DEF pvars, vars, serverVars, OneChannel
  <2> QED  BY <2>5, <2>6, <2>7, <2>8, <2>9 DEF PipelineNext
<1>3. OneChannel => (I!CanSend <=> CanSend)
  BY DEF OneChannel, I!CanSend, CanSend
<1> QED  BY <1>1, <1>2, <1>3, PipelineTypes, TracedCorrect, PTL DEF PipelineSpec

-------------------------------------------------------------------------------
(* The statistics of the two parts. *)

\* The protected transactions that send_to_workers has evaluated.
Evaluated == protected \cap (InBuffer \cup InBatch \cup handled)

\* A transaction is buffered at most once, when it is evaluated.
BufferedCounted == mev_buffered <= Cardinality(Evaluated)

\* Sets of accepted transactions are finite.
LEMMA FiniteAccepted ==
    ASSUME TypeOK, Inv
    PROVE  /\ IsFiniteSet(protected) /\ IsFiniteSet(Evaluated)
           /\ Cardinality(Evaluated) <= Cardinality(protected)
           /\ Cardinality(Evaluated) \in Nat /\ Cardinality(protected) \in Nat
<1>1. IsFiniteSet(1..MaxEnqueued)
  BY ConstantsAssumption, FS_Interval
<1>2. IsFiniteSet(protected)
  BY <1>1, FS_Subset DEF TypeOK
<1>3. Evaluated \in SUBSET protected
  BY DEF Evaluated
<1> QED  BY <1>2, <1>3, FS_Subset, FS_CardinalityType

\* While the scheduler runs, what it does moves transactions forward only: the
\* evaluated ones stay evaluated, and send_to_workers adds the one in hand.
LEMMA EvaluatedGrows ==
    ASSUME TypeOK, Inv, Inv', pc' # "exited",
           UNCHANGED <<channel, protected, tpu_enqueued>>, InHand' = {}
    PROVE  Evaluated \cup (InHand \cap protected) \subseteq Evaluated'
<1> SUFFICES ASSUME NEW n \in protected, n \in InHand \cup InBuffer \cup InBatch \cup handled
             PROVE  n \in InBuffer' \cup InBatch' \cup handled'
  BY DEF Evaluated
<1>1. n \in 1..tpu_enqueued
  BY DEF Inv, Known
<1>2. n \notin InChannel
  <2>1. ~(n < n)
    BY <1>1
  <2> QED  BY <2>1 DEF Inv, Staged
<1>3. n \notin InChannel'
  BY <1>2 DEF InChannel
<1> QED  BY <1>1, <1>3 DEF Inv, Covered

\* No transaction is counted twice as buffered, however often the leaders of
\* the moment are blocked and unblocked.
LEMMA BufferedCountedCorrect == Spec => []BufferedCounted
<1>1. Init => BufferedCounted
  <2> SUFFICES ASSUME Init PROVE BufferedCounted
    OBVIOUS
  <2>1. Evaluated = {} /\ mev_buffered = 0
    BY DEF Init, Evaluated
  <2> QED  BY <2>1, FS_EmptySet DEF BufferedCounted
<1>2. TypeOK /\ TypeOK' /\ Inv /\ Inv' /\ BufferedCounted /\ [Next]_vars => BufferedCounted'
  <2> SUFFICES ASSUME TypeOK, TypeOK', Inv, Inv', BufferedCounted, [Next]_vars
               PROVE  BufferedCounted'
    OBVIOUS
  <2> USE DEF schedulerVars, workerVars, historyVars, stats
  <2>1. /\ IsFiniteSet(Evaluated) /\ Cardinality(Evaluated) \in Nat
        /\ IsFiniteSet(Evaluated') /\ Cardinality(Evaluated') \in Nat
    <3>1. IsFiniteSet(Evaluated) /\ Cardinality(Evaluated) \in Nat
      BY FiniteAccepted
    <3>2. IsFiniteSet(1..MaxEnqueued)
      BY ConstantsAssumption, FS_Interval
    <3>3. Evaluated' \in SUBSET (1..MaxEnqueued)
      BY DEF TypeOK, Evaluated
    <3>4. IsFiniteSet(Evaluated')
      BY <3>2, <3>3, FS_Subset
    <3> QED  BY <3>1, <3>4, FS_CardinalityType
  <2>2. ASSUME Evaluated \subseteq Evaluated', UNCHANGED mev_buffered
        PROVE  BufferedCounted'
    <3>1. Cardinality(Evaluated) <= Cardinality(Evaluated')
      BY <2>1, <2>2, FS_Subset
    <3> QED  BY <2>1, <2>2, <3>1 DEF BufferedCounted, TypeOK
  <2>3. ASSUME NEW mev_protect \in BOOLEAN, Enqueue(mev_protect) PROVE BufferedCounted'
    <3>1. Evaluated \subseteq Evaluated' /\ UNCHANGED mev_buffered
      BY <2>3 DEF Enqueue, Evaluated, InBuffer, InBatch
    <3> QED  BY <2>2, <3>1
  <2>4. CASE send_to_workers
    <3> DEFINE is_blocked == has_blocked_send_target(window, blocked)
    <3>1. /\ pc' # "exited" /\ current' = Flush
          /\ UNCHANGED <<channel, protected, tpu_enqueued>>
          /\ mev_buffered' = mev_buffered + (IF Withheld(current, is_blocked) THEN 1 ELSE 0)
      BY <2>4 DEF send_to_workers, MevStats
    <3> HIDE DEF is_blocked
    <3>2. InHand' = {}
      BY <3>1, NumbersOne DEF InHand
    <3>3. Evaluated \cup (InHand \cap protected) \subseteq Evaluated'
      BY <3>1, <3>2, EvaluatedGrows
    <3>4. CASE ~Withheld(current, is_blocked)
      <4>1. UNCHANGED mev_buffered
        BY <3>1, <3>4 DEF TypeOK
      <4> QED  BY <2>2, <3>3, <4>1
    <3>5. CASE Withheld(current, is_blocked)
      <4> DEFINE n == current[1]
      <4>1. InHand = {n} /\ n \in protected
        BY <3>5, NumbersOne DEF Withheld, decode, InHand, Inv, Flagged, FlagTrue
      <4>2. n \in 1..tpu_enqueued
        BY <4>1 DEF Inv, Known
      <4>3. n \notin Evaluated
        <5>1. ~(n < n)
          BY <4>2
        <5> QED  BY <4>1, <5>1 DEF Evaluated, Inv, Staged
      <4> HIDE DEF n
      <4>4. /\ IsFiniteSet(Evaluated \cup {n})
            /\ Cardinality(Evaluated \cup {n}) = Cardinality(Evaluated) + 1
        BY <2>1, <4>3, FS_AddElement
      <4>5. Cardinality(Evaluated \cup {n}) <= Cardinality(Evaluated')
        BY <2>1, <3>3, <4>1, FS_Subset
      <4>6. mev_buffered' = mev_buffered + 1
        BY <3>1, <3>5
      <4> QED  BY <2>1, <4>4, <4>5, <4>6 DEF BufferedCounted, TypeOK
    <3> QED  BY <3>4, <3>5
  <2>5. CASE pc = "send" /\ FinishTurn
             /\ UNCHANGED <<channel, current, protected, tpu_enqueued, mev_buffered>>
    <3>1. pc' # "exited" /\ current = Flush
      BY <2>5 DEF FinishTurn, TypeOK
    <3>2. InHand' = {}
      BY <2>5, <3>1, NumbersOne DEF InHand
    <3>3. Evaluated \subseteq Evaluated'
      BY <2>5, <3>1, <3>2, EvaluatedGrows
    <3> QED  BY <2>2, <2>5, <3>3
  <2>6. CASE UNCHANGED <<buffered, ready, handled, protected, mev_buffered>>
    BY <2>2, <2>6 DEF Evaluated, InBuffer, InBatch
  <2>7. \/ \E mev_protect \in BOOLEAN : Enqueue(mev_protect)
        \/ send_to_workers
        \/ pc = "send" /\ FinishTurn
             /\ UNCHANGED <<channel, current, protected, tpu_enqueued, mev_buffered>>
        \/ UNCHANGED <<buffered, ready, handled, protected, mev_buffered>>
    BY DEF Next, ClientNext, Drop, FlushTick, FlushStop, Recv, Offer, OfferToNobody,
           SchedulerExit, WorkerTransmit, WorkerEnd, Rotate, Cancel, StoreBlocked, vars
  <2> QED  BY <2>3, <2>4, <2>5, <2>6, <2>7
<1> QED  BY <1>1, <1>2, TypeCorrect, InvCorrect, PTL DEF Spec

\* The counters agree at every moment, whatever the order in which the threads
\* write them: at most as many transactions were buffered as were counted as
\* protected, and at most as many released as buffered.
THEOREM StatsOrderedCorrect == PipelineSpec => []StatsOrdered
<1>1. TypeOK /\ BufferAccounting => mev_released <= mev_buffered
  <2> SUFFICES ASSUME TypeOK, BufferAccounting PROVE mev_released <= mev_buffered
    OBVIOUS
  <2>1. Len(buffered) \in Nat /\ mev_buffered - mev_released = Len(buffered)
    BY LenProperties DEF TypeOK, BufferAccounting
  <2> QED  BY <2>1 DEF TypeOK
<1>2. TypeOK /\ Inv /\ Traced /\ IP!TypeOK /\ IP!FlagsCounted
          => Cardinality(protected) <= counter["mev_protected_received"]
  <2> SUFFICES ASSUME TypeOK, Inv, Traced, IP!TypeOK, IP!FlagsCounted
               PROVE  Cardinality(protected) <= counter["mev_protected_received"]
    OBVIOUS
  <2> DEFINE f == [n \in protected |-> source[n]]
  <2>1. IsFiniteSet(IP!Counted) /\ Cardinality(IP!Counted) \in Nat
    <3>1. IP!Counted \in SUBSET Requests
      BY DEF IP!Counted
    <3> QED  BY <3>1, PipelineAssumption, FS_Subset, FS_CardinalityType
  <2>2. IsFiniteSet(protected) /\ Cardinality(protected) \in Nat
    BY FiniteAccepted
  <2>3. ASSUME NEW n \in protected PROVE n \in 1..tpu_enqueued /\ source[n] \in IP!Counted
    <3>1. n \in 1..tpu_enqueued
      BY DEF Inv, Known
    <3>2. source[n] \in Requests
      BY <3>1, ElementOfSeq DEF Traced
    <3> QED  BY <3>1, <3>2 DEF Traced, IP!Counted, I!MevProtect, IP!MevProtect
  <2>4. f \in [protected -> IP!Counted]
    BY <2>3
  <2>5. \A m, n \in protected : f[m] = f[n] => m = n
    BY <2>3 DEF Traced
  <2> HIDE DEF f
  <2>6. ~(Cardinality(IP!Counted) < Cardinality(protected))
    BY <2>1, <2>2, <2>4, <2>5, FS_PigeonHole
  <2>7. counter["mev_protected_received"] = Cardinality(IP!Counted)
    BY SameCardinality DEF IP!FlagsCounted
  <2> QED  BY <2>1, <2>2, <2>6, <2>7
<1>3. TypeOK /\ Inv /\ BufferedCounted => mev_buffered <= Cardinality(protected)
  BY FiniteAccepted DEF BufferedCounted, TypeOK
<1>4. ASSUME TypeOK, Inv, Traced, BufferAccounting, BufferedCounted, IP!TypeOK, IP!FlagsCounted
      PROVE  StatsOrdered
  <2>1. Cardinality(protected) \in Nat /\ mev_buffered \in Nat
    BY <1>4, FiniteAccepted DEF TypeOK
  <2>2. counter["mev_protected_received"] \in Nat
    BY <1>4 DEF IP!TypeOK, IP!Counters
  <2> QED  BY <1>1, <1>2, <1>3, <1>4, <2>1, <2>2 DEF StatsOrdered
<1>5. IP!Spec => []IP!FlagsCounted
  BY ServerConstants, IP!FlagsCountedCorrect
<1> QED
  BY <1>4, <1>5, PipelineIsClient, PipelineIsIngress, PipelineTypes, TracedCorrect,
     BufferAccountingCorrect, BufferedCountedCorrect, PTL
===============================================================================
