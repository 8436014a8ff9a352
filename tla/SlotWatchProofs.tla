--------------------------- MODULE SlotWatchProofs ----------------------------
(***************************************************************************)
(* Proofs about the slot-update task, for every channel size and every     *)
(* number of notifications.                                                *)
(***************************************************************************)
EXTENDS SlotWatch, SequenceTheorems, TLAPS

\* Every variable keeps its type, and the task holds an event exactly while
\* it forwards one.
THEOREM TypeCorrect == Spec => []TypeOK
<1> DEFINE Updates == [kind : Kinds, number : 1..MaxUpdates]
<1>1. Init => TypeOK
  <2>1. 0 \in 0..MaxUpdates /\ 0 <= ChannelSize
    BY SlotWatchAssumption DEF SlotWatchAssumption
  <2>2. Init => /\ arrived \in Seq(Updates)
                /\ channel \in Seq(1..MaxUpdates) /\ Len(channel) <= ChannelSize
    BY <2>1, EmptySeq DEF Init
  <2> QED  BY <2>1, <2>2 DEF Init, TypeOK
<1>2. TypeOK /\ [Next]_vars => TypeOK'
  <2> SUFFICES ASSUME TypeOK, [Next]_vars PROVE TypeOK'
    OBVIOUS
  <2> USE SlotWatchAssumption DEF SlotWatchAssumption, TypeOK
  <2>1. CASE Connect \/ Closed \/ TimerElapses \/ Stalled \/ CancelSeen \/ Close
    BY <2>1 DEF Connect, Closed, TimerElapses, Stalled, CancelSeen, Close, Waiting
  <2>2. CASE NextNotification
    <3>1. Head(arrived) \in Updates /\ arrived' \in Seq(Updates)
      BY <2>2, HeadTailProperties DEF NextNotification
    <3>2. Head(arrived).number \in 1..MaxUpdates
      BY <3>1
    <3>3. /\ event' \in 0..MaxUpdates
          /\ task' \in {"wait", "send"}
          /\ task' = "send" <=> event' # 0
      BY <2>2, <3>2 DEF NextNotification, Waiting
    <3> QED  BY <2>2, <3>1, <3>3 DEF NextNotification
  <2>3. CASE SendOk
    <3>1. event \in 1..MaxUpdates /\ Len(channel) \in Nat
      BY <2>3, LenProperties DEF SendOk
    <3>2. channel' \in Seq(1..MaxUpdates) /\ Len(channel') = Len(channel) + 1
      BY <2>3, <3>1, AppendProperties DEF SendOk
    <3>3. Len(channel') <= ChannelSize
      BY <2>3, <3>1, <3>2 DEF SendOk
    <3> QED  BY <2>3, <3>2, <3>3 DEF SendOk
  <2>4. CASE SendTimeout \/ SendClosed
    BY <2>4 DEF SendTimeout, SendClosed
  <2>5. ASSUME NEW kind \in Kinds, Notify(kind) PROVE TypeOK'
    <3>1. updates + 1 \in 1..MaxUpdates
      BY <2>5 DEF Notify
    <3>2. [kind |-> kind, number |-> updates + 1] \in Updates
      BY <3>1
    <3>3. arrived' \in Seq(Updates)
      BY <2>5, <3>2, AppendProperties DEF Notify
    <3> QED  BY <2>5, <3>1, <3>3 DEF Notify
  <2>6. CASE Consume
    <3>1. /\ Head(channel) \in 1..MaxUpdates /\ channel' \in Seq(1..MaxUpdates)
          /\ Len(channel') = Len(channel) - 1 /\ Len(channel) \in Nat
      BY <2>6, HeadTailProperties, LenProperties DEF Consume
    <3>2. Len(channel') <= ChannelSize
      BY <3>1
    <3> QED  BY <2>6, <3>1, <3>2 DEF Consume
  <2>7. CASE ConsumerStops
    <3>1. channel' \in Seq(1..MaxUpdates) /\ Len(channel') = 0
      BY <2>7, EmptySeq DEF ConsumerStops
    <3> QED  BY <2>7, <3>1 DEF ConsumerStops
  <2>8. CASE EndSubscription \/ Cancel \/ StopCalled \/ ServiceStopped \/ Joined
    BY <2>8 DEF EndSubscription, Cancel, StopCalled, ServiceStopped, Joined
  <2>9. CASE UNCHANGED vars
    BY <2>9 DEF vars
  <2> QED  BY <2>1, <2>2, <2>3, <2>4, <2>5, <2>6, <2>7, <2>8, <2>9 DEF Next, Loop
<1> QED  BY <1>1, <1>2, PTL DEF Spec

\* The numbers below a bound, above another, and increasing.
Between(low, s, high) ==
    /\ \A k \in DOMAIN s : low < s[k] /\ s[k] <= high
    /\ \A k, l \in DOMAIN s : k < l => s[k] < s[l]

\* The numbers of what has arrived.
Arrivals == [k \in DOMAIN arrived |-> arrived[k].number]

\* The largest number that left the arrivals: every arrival is above it, and
\* so will be what is appended to the channel from the hand.
InHand == IF event = 0 THEN taken ELSE event

\* What was taken, what waits, what is in hand and what has arrived follow
\* one another, and nothing has a number that was not yet given out.
Queued ==
    /\ taken <= updates /\ InHand <= updates
    /\ event # 0 => taken < event
    /\ Between(taken, channel, updates)
    /\ event # 0 => \A k \in DOMAIN channel : channel[k] < event
    /\ Between(InHand, Arrivals, updates)
    /\ \A k \in DOMAIN channel, l \in DOMAIN arrived : channel[k] < Arrivals[l]

\* A number behind all others, and above them, may be appended.
LEMMA BetweenAppend ==
    ASSUME NEW low \in Int, NEW high \in Int, NEW top \in Int, NEW s \in Seq(Nat), NEW x \in Nat,
           Between(low, s, high), high <= top, low < x, x <= top,
           \A k \in DOMAIN s : s[k] < x
    PROVE  Between(low, Append(s, x), top)
<1> DEFINE t == Append(s, x)
<1>1. /\ Len(s) \in Nat /\ DOMAIN s = 1..Len(s) /\ DOMAIN t = 1..(Len(s) + 1)
      /\ \A k \in 1..Len(s) : t[k] = s[k] /\ s[k] \in Nat
      /\ t[Len(s) + 1] = x
  BY AppendProperties, LenProperties, ElementOfSeq
<1> HIDE DEF t
<1>2. \A k \in 1..(Len(s) + 1) : k \in 1..Len(s) \/ k = Len(s) + 1
  BY <1>1
<1>3. \A k \in 1..(Len(s) + 1) : low < t[k] /\ t[k] <= top
  BY <1>1, <1>2 DEF Between
<1>4. ASSUME NEW k \in 1..(Len(s) + 1), NEW l \in 1..(Len(s) + 1), k < l
      PROVE  t[k] < t[l]
  <2>1. k \in 1..Len(s)
    BY <1>1, <1>4
  <2>2. CASE l \in 1..Len(s)
    BY <1>1, <1>4, <2>1, <2>2 DEF Between
  <2>3. CASE l = Len(s) + 1
    BY <1>1, <2>1, <2>3
  <2> QED  BY <1>2, <2>2, <2>3
<1>5. Between(low, t, top)
  BY <1>1, <1>3, <1>4 DEF Between
<1> QED  BY <1>5 DEF t

\* Behind the head everything is above the head.
LEMMA BetweenTail ==
    ASSUME NEW low \in Int, NEW high \in Int, NEW s \in Seq(Nat), s # << >>,
           Between(low, s, high)
    PROVE  /\ low < Head(s) /\ Head(s) <= high /\ Head(s) \in Nat
           /\ Between(Head(s), Tail(s), high)
<1> DEFINE t == Tail(s)
<1>1. /\ Len(s) \in Nat /\ Len(s) >= 1 /\ DOMAIN s = 1..Len(s) /\ DOMAIN t = 1..(Len(s) - 1)
      /\ \A k \in 1..(Len(s) - 1) : t[k] = s[k + 1]
      /\ Head(s) = s[1] /\ Head(s) \in Nat
  BY HeadTailProperties, LenProperties, EmptySeq
<1> HIDE DEF t
<1>2. 1 \in DOMAIN s /\ \A k \in 1..(Len(s) - 1) : k + 1 \in DOMAIN s /\ 1 < k + 1
  BY <1>1
<1>3. low < Head(s) /\ Head(s) <= high
  BY <1>1, <1>2 DEF Between
<1>4. \A k \in 1..(Len(s) - 1) : Head(s) < t[k] /\ t[k] <= high
  BY <1>1, <1>2 DEF Between
<1>5. ASSUME NEW k \in 1..(Len(s) - 1), NEW l \in 1..(Len(s) - 1), k < l
      PROVE  t[k] < t[l]
  <2>1. k + 1 < l + 1
    BY <1>5
  <2> QED  BY <1>1, <1>2, <2>1 DEF Between
<1>6. Between(Head(s), t, high)
  BY <1>1, <1>4, <1>5 DEF Between
<1> QED  BY <1>1, <1>3, <1>6 DEF t

\* A lower bound may be lowered.
LEMMA BetweenLower ==
    ASSUME NEW low \in Int, NEW lower \in Int, NEW high \in Int, NEW s \in Seq(Nat),
           Between(low, s, high), lower <= low
    PROVE  Between(lower, s, high)
<1>1. \A k \in DOMAIN s : s[k] \in Nat
  BY ElementOfSeq, LenProperties
<1> QED  BY <1>1 DEF Between

\* The numbers of what has arrived, and what taking one and adding one does
\* to them.
LEMMA ArrivalSteps ==
    ASSUME TypeOK, TypeOK'
    PROVE  /\ Arrivals \in Seq(Nat) /\ DOMAIN Arrivals = DOMAIN arrived
           /\ NextNotification => /\ Arrivals # << >>
                                  /\ Head(arrived).number = Head(Arrivals)
                                  /\ Arrivals' = Tail(Arrivals)
           /\ \A kind \in Kinds :
                Notify(kind) => Arrivals' = Append(Arrivals, updates + 1)
<1> DEFINE Updates == [kind : Kinds, number : 1..MaxUpdates]
<1>1. /\ arrived \in Seq(Updates) /\ Len(arrived) \in Nat /\ DOMAIN arrived = 1..Len(arrived)
      /\ arrived' \in Seq(Updates) /\ DOMAIN arrived' = 1..Len(arrived')
      /\ Len(arrived') \in Nat
  BY LenProperties DEF TypeOK
<1>2. \A k \in DOMAIN arrived : arrived[k].number \in Nat
  <2>1. \A k \in DOMAIN arrived : arrived[k] \in Updates
    BY <1>1, ElementOfSeq
  <2>2. 1..MaxUpdates \subseteq Nat
    BY SlotWatchAssumption DEF SlotWatchAssumption
  <2> QED  BY <2>1, <2>2
<1>3. /\ Arrivals \in Seq(Nat) /\ DOMAIN Arrivals = DOMAIN arrived
      /\ Len(Arrivals) = Len(arrived)
  BY <1>1, <1>2, IsASeq, LenProperties DEF Arrivals
<1>4. \A k \in DOMAIN arrived' : arrived'[k].number \in Nat
  <2>1. \A k \in DOMAIN arrived' : arrived'[k] \in Updates
    BY <1>1, ElementOfSeq
  <2>2. 1..MaxUpdates \subseteq Nat
    BY SlotWatchAssumption DEF SlotWatchAssumption
  <2> QED  BY <2>1, <2>2
<1>5. /\ Arrivals' \in Seq(Nat) /\ Len(Arrivals') = Len(arrived')
      /\ DOMAIN Arrivals' = 1..Len(arrived')
  BY <1>1, <1>4, IsASeq, LenProperties DEF Arrivals
<1>6. ASSUME NextNotification
      PROVE  /\ Arrivals # << >>
             /\ Head(arrived).number = Head(Arrivals)
             /\ Arrivals' = Tail(Arrivals)
  <2>1. /\ arrived # << >> /\ arrived' = Tail(arrived) /\ Len(arrived) >= 1
        /\ Len(arrived') = Len(arrived) - 1
        /\ Head(arrived) = arrived[1]
        /\ \A k \in 1..(Len(arrived) - 1) : arrived'[k] = arrived[k + 1]
    BY <1>1, <1>6, HeadTailProperties, EmptySeq DEF NextNotification
  <2>2. Arrivals # << >>
    BY <1>3, <2>1, EmptySeq
  <2>3. /\ Tail(Arrivals) \in Seq(Nat) /\ Len(Tail(Arrivals)) = Len(arrived) - 1
        /\ \A k \in 1..(Len(arrived) - 1) : Tail(Arrivals)[k] = Arrivals[k + 1]
        /\ Head(Arrivals) = Arrivals[1]
    BY <1>3, <2>2, HeadTailProperties
  <2>4. Head(arrived).number = Head(Arrivals)
    BY <1>1, <2>1, <2>3 DEF Arrivals
  <2>5. ASSUME NEW k \in 1..(Len(arrived) - 1) PROVE Arrivals'[k] = Tail(Arrivals)[k]
    <3>1. k + 1 \in DOMAIN arrived /\ k \in DOMAIN arrived'
      BY <1>1, <2>1
    <3> QED  BY <2>1, <2>3, <3>1 DEF Arrivals
  <2>6. Arrivals' = Tail(Arrivals)
    BY <1>5, <2>1, <2>3, <2>5, SeqEqual
  <2> QED  BY <2>2, <2>4, <2>6
<1>7. ASSUME NEW kind \in Kinds, Notify(kind)
      PROVE  Arrivals' = Append(Arrivals, updates + 1)
  <2> DEFINE u == [kind |-> kind, number |-> updates + 1]
  <2>1. updates + 1 \in 1..MaxUpdates
    BY <1>7, SlotWatchAssumption DEF SlotWatchAssumption, Notify, TypeOK
  <2>2. u \in Updates /\ u.number = updates + 1
    BY <2>1
  <2>3. arrived' = Append(arrived, u)
    BY <1>7 DEF Notify
  <2> HIDE DEF u
  <2>4. /\ Len(arrived') = Len(arrived) + 1
        /\ \A k \in 1..Len(arrived) : arrived'[k] = arrived[k]
        /\ arrived'[Len(arrived) + 1] = u
    BY <1>1, <2>2, <2>3, AppendProperties
  <2>5. /\ Append(Arrivals, updates + 1) \in Seq(Nat)
        /\ Len(Append(Arrivals, updates + 1)) = Len(arrived) + 1
        /\ \A k \in 1..Len(arrived) : Append(Arrivals, updates + 1)[k] = Arrivals[k]
        /\ Append(Arrivals, updates + 1)[Len(arrived) + 1] = updates + 1
    <3>1. updates + 1 \in Nat
      BY DEF TypeOK
    <3> QED  BY <1>3, <3>1, AppendProperties
  <2>6. ASSUME NEW k \in 1..(Len(arrived) + 1)
        PROVE  Arrivals'[k] = Append(Arrivals, updates + 1)[k]
    <3>1. k \in DOMAIN arrived'
      BY <1>1, <2>4
    <3>2. CASE k \in 1..Len(arrived)
      BY <1>1, <2>4, <2>5, <3>1, <3>2 DEF Arrivals
    <3>3. CASE k = Len(arrived) + 1
      BY <2>2, <2>4, <2>5, <3>1, <3>3 DEF Arrivals
    <3>4. k \in 1..Len(arrived) \/ k = Len(arrived) + 1
      BY <1>1
    <3> QED  BY <3>2, <3>3, <3>4
  <2> QED  BY <1>5, <2>4, <2>5, <2>6, SeqEqual
<1> QED  BY <1>3, <1>6, <1>7

\* The queue is in order in every state: no drop, no race between the task
\* and the leader cache, and no end of either disturbs it.
THEOREM QueuedCorrect == Spec => []Queued
<1>1. Init => Queued
  BY DEF Init, Queued, Between, Arrivals, InHand
<1>2. TypeOK /\ TypeOK' /\ Queued /\ [Next]_vars => Queued'
  <2> SUFFICES ASSUME TypeOK, TypeOK', Queued, [Next]_vars PROVE Queued'
    OBVIOUS
  <2>1. /\ updates \in Nat /\ taken \in Nat /\ event \in Nat /\ InHand \in Nat
        /\ channel \in Seq(Nat) /\ DOMAIN channel = 1..Len(channel) /\ Len(channel) \in Nat
        /\ \A k \in DOMAIN channel : channel[k] \in Nat
        /\ Arrivals \in Seq(Nat) /\ DOMAIN Arrivals = DOMAIN arrived
        /\ \A k \in DOMAIN arrived : Arrivals[k] \in Nat
    <3>1. updates \in Nat /\ taken \in Nat /\ event \in Nat /\ InHand \in Nat
      BY DEF TypeOK, InHand
    <3>2. channel \in Seq(1..MaxUpdates) /\ 1..MaxUpdates \subseteq Nat
      BY SlotWatchAssumption DEF SlotWatchAssumption, TypeOK
    <3>3. channel \in Seq(Nat)
      BY <3>2, SeqMonotonic
    <3>4. Arrivals \in Seq(Nat) /\ DOMAIN Arrivals = DOMAIN arrived
      BY ArrivalSteps
    <3> QED  BY <3>1, <3>3, <3>4, LenProperties, ElementOfSeq
  <2>2. CASE UNCHANGED <<updates, arrived, event, channel, taken>>
    BY <2>2 DEF Queued, Between, Arrivals, InHand
  <2>3. CASE NextNotification
    <3> DEFINE n == Head(Arrivals)
    <3>1. /\ Arrivals # << >> /\ Arrivals' = Tail(Arrivals)
          /\ event' = n \/ (event' = event)
          /\ event = 0 /\ InHand = taken
          /\ UNCHANGED <<updates, channel, taken>>
      <4>1. event = 0
        BY <2>3 DEF NextNotification, Waiting, TypeOK
      <4> QED  BY <2>3, <4>1, ArrivalSteps DEF NextNotification, InHand
    <3>2. /\ taken < n /\ n <= updates /\ n \in Nat
          /\ Between(n, Arrivals', updates)
      BY <2>1, <3>1, BetweenTail DEF Queued
    <3>3. \A k \in DOMAIN channel : channel[k] < n
      <4>1. n = Arrivals[1] /\ 1 \in DOMAIN arrived
        BY <2>1, <3>1, HeadTailProperties, LenProperties, EmptySeq
      <4> QED  BY <4>1 DEF Queued
    <3>4. /\ Arrivals' \in Seq(Nat)
          /\ \A l \in DOMAIN arrived' : n < Arrivals'[l] /\ Arrivals'[l] \in Nat
      <4>1. Arrivals' \in Seq(Nat) /\ DOMAIN Arrivals' = DOMAIN arrived'
        <5>1. Arrivals' \in Seq(Nat)
          BY <2>1, <3>1, HeadTailProperties
        <5> QED  BY <5>1 DEF Arrivals
      <4>2. \A l \in DOMAIN Arrivals' : n < Arrivals'[l]
        BY <3>2 DEF Between
      <4> QED  BY <4>1, <4>2, ElementOfSeq, LenProperties
    <3> HIDE DEF n
    <3>5. \A k \in DOMAIN channel, l \in DOMAIN arrived' : channel[k] < Arrivals'[l]
      BY <2>1, <3>2, <3>3, <3>4
    <3>6. CASE event' = n /\ n # 0
      BY <3>1, <3>2, <3>3, <3>5, <3>6 DEF Queued, InHand
    <3>7. CASE event' = 0
      <4>1. Between(taken, Arrivals', updates)
        <5>1. n \in Int /\ taken \in Int /\ updates \in Int /\ taken <= n
          BY <2>1, <3>2
        <5>2. Arrivals' \in Seq(Nat) /\ Between(n, Arrivals', updates)
          BY <3>2, <3>4
        <5> QED  BY <5>1, <5>2, BetweenLower
      <4> QED  BY <3>1, <3>5, <3>7, <4>1 DEF Queued, InHand
    <3> QED  BY <3>1, <3>6, <3>7
  <2>4. CASE SendOk
    <3>1. /\ event # 0 /\ InHand = event /\ channel' = Append(channel, event) /\ event' = 0
          /\ UNCHANGED <<updates, arrived, Arrivals, taken>>
      BY <2>4 DEF SendOk, InHand, TypeOK, Arrivals
    <3>2. /\ taken < event /\ event <= updates
          /\ \A k \in DOMAIN channel : channel[k] < event
          /\ \A l \in DOMAIN arrived : event < Arrivals[l]
      BY <2>1, <3>1 DEF Queued, InHand, Between
    <3>3. Between(taken, channel', updates)
      BY <2>1, <3>1, <3>2, BetweenAppend DEF Queued
    <3>4. Between(taken, Arrivals, updates)
      BY <2>1, <3>1, <3>2, BetweenLower DEF Queued
    <3>5. ASSUME NEW k \in DOMAIN channel', NEW l \in DOMAIN arrived
          PROVE  channel'[k] < Arrivals[l]
      <4>1. /\ DOMAIN channel' = 1..(Len(channel) + 1)
            /\ \A i \in 1..Len(channel) : channel'[i] = channel[i]
            /\ channel'[Len(channel) + 1] = event
        BY <2>1, <3>1, AppendProperties, LenProperties
      <4>2. k \in 1..Len(channel) \/ k = Len(channel) + 1
        BY <2>1, <4>1
      <4> QED  BY <2>1, <3>2, <4>1, <4>2 DEF Queued
    <3>6. event' = 0 /\ InHand' = taken /\ taken <= updates
      BY <3>1 DEF Queued, InHand
    <3> QED  BY <3>1, <3>3, <3>4, <3>5, <3>6 DEF Queued
  <2>5. CASE SendTimeout \/ SendClosed
    <3>1. /\ event # 0 /\ InHand = event /\ event' = 0 /\ InHand' = taken
          /\ UNCHANGED <<updates, arrived, Arrivals, channel, taken>>
      BY <2>5 DEF SendTimeout, SendClosed, InHand, TypeOK, Arrivals
    <3>2. taken < event
      BY <3>1 DEF Queued
    <3>3. Between(taken, Arrivals, updates)
      BY <2>1, <3>1, <3>2, BetweenLower DEF Queued
    <3> QED  BY <3>1, <3>3 DEF Queued
  <2>6. ASSUME NEW kind \in Kinds, Notify(kind) PROVE Queued'
    <3>1. /\ updates' = updates + 1 /\ Arrivals' = Append(Arrivals, updates + 1)
          /\ InHand' = InHand
          /\ UNCHANGED <<event, channel, taken>>
      BY <2>6, ArrivalSteps DEF Notify, InHand
    <3>2. /\ taken <= updates + 1 /\ InHand < updates + 1 /\ updates <= updates + 1
          /\ \A k \in DOMAIN arrived : Arrivals[k] < updates + 1
          /\ \A k \in DOMAIN channel : channel[k] < updates + 1
      BY <2>1 DEF Queued, Between
    <3>3. Between(InHand, Arrivals', updates + 1)
      BY <2>1, <3>1, <3>2, BetweenAppend DEF Queued
    <3>4. Between(taken, channel, updates + 1)
      BY <2>1, <3>2 DEF Queued, Between
    <3>5. ASSUME NEW k \in DOMAIN channel, NEW l \in DOMAIN arrived'
          PROVE  channel[k] < Arrivals'[l]
      <4>1. /\ DOMAIN Arrivals' = 1..(Len(Arrivals) + 1)
            /\ DOMAIN Arrivals = 1..Len(Arrivals) /\ Len(Arrivals) \in Nat
            /\ \A i \in 1..Len(Arrivals) : Arrivals'[i] = Arrivals[i]
            /\ Arrivals'[Len(Arrivals) + 1] = updates + 1
        BY <2>1, <3>1, AppendProperties, LenProperties
      <4>2. l \in DOMAIN Arrivals'
        BY DEF Arrivals
      <4>3. l \in 1..Len(Arrivals) \/ l = Len(Arrivals) + 1
        BY <4>1, <4>2
      <4> QED  BY <2>1, <3>2, <4>1, <4>3 DEF Queued
    <3>6. InHand <= updates + 1
      BY <2>1, <3>2
    <3> QED  BY <3>1, <3>2, <3>3, <3>4, <3>5, <3>6 DEF Queued
  <2>7. CASE Consume
    <3>1. /\ channel # << >> /\ taken' = Head(channel) /\ channel' = Tail(channel)
          /\ UNCHANGED <<updates, arrived, event>> /\ Arrivals' = Arrivals
      BY <2>7 DEF Consume, Arrivals
    <3>2. /\ taken < taken' /\ taken' <= updates /\ taken' \in Nat
          /\ Between(taken', channel', updates)
      BY <2>1, <3>1, BetweenTail DEF Queued
    <3>3. /\ DOMAIN channel' = 1..(Len(channel) - 1)
          /\ \A k \in 1..(Len(channel) - 1) : channel'[k] = channel[k + 1]
          /\ taken' = channel[1] /\ 1 \in DOMAIN channel
          /\ \A k \in 1..(Len(channel) - 1) : k + 1 \in DOMAIN channel
      BY <2>1, <3>1, HeadTailProperties, LenProperties, EmptySeq
    <3>4. /\ event # 0 => taken' < event
          /\ event # 0 => \A k \in DOMAIN channel' : channel'[k] < event
          /\ \A l \in DOMAIN arrived : taken' < Arrivals[l]
          /\ \A k \in DOMAIN channel', l \in DOMAIN arrived : channel'[k] < Arrivals[l]
      BY <3>3 DEF Queued
    <3>5. Between(InHand', Arrivals, updates) /\ InHand' <= updates
      <4>1. CASE event = 0
        BY <2>1, <3>1, <3>2, <3>4, <4>1 DEF Queued, InHand, Between
      <4>2. CASE event # 0
        BY <3>1, <4>2 DEF Queued, InHand
      <4> QED  BY <4>1, <4>2
    <3> QED  BY <3>1, <3>2, <3>4, <3>5 DEF Queued
  <2>8. CASE ConsumerStops
    <3>1. channel' = << >> /\ UNCHANGED <<updates, arrived, event, taken, Arrivals, InHand>>
      BY <2>8 DEF ConsumerStops, Arrivals, InHand
    <3> QED  BY <3>1 DEF Queued, Between
  <2>9. \/ UNCHANGED <<updates, arrived, event, channel, taken>>
        \/ NextNotification \/ SendOk \/ SendTimeout \/ SendClosed
        \/ \E kind \in Kinds : Notify(kind)
        \/ Consume \/ ConsumerStops
    BY DEF Next, Loop, Connect, Closed, TimerElapses, Stalled, CancelSeen, Close, EndSubscription,
           Cancel, StopCalled, ServiceStopped, Joined, vars
  <2> QED  BY <2>2, <2>3, <2>4, <2>5, <2>6, <2>7, <2>8, <2>9
<1> QED  BY <1>1, <1>2, TypeCorrect, PTL DEF Spec

\* Two sequences in order, the one before the other, are in order together.
LEMMA BetweenConcat ==
    ASSUME NEW low \in Int, NEW high \in Int, NEW s \in Seq(Nat), NEW t \in Seq(Nat),
           Between(low, s, high), Between(low, t, high),
           \A k \in DOMAIN s, l \in DOMAIN t : s[k] < t[l]
    PROVE  /\ s \o t \in Seq(Nat)
           /\ Between(low, s \o t, high)
<1> DEFINE u == s \o t
<1>1. /\ u \in Seq(Nat) /\ Len(s) \in Nat /\ Len(t) \in Nat
      /\ DOMAIN s = 1..Len(s) /\ DOMAIN t = 1..Len(t) /\ DOMAIN u = 1..(Len(s) + Len(t))
      /\ \A i \in 1..(Len(s) + Len(t)) : u[i] = IF i <= Len(s) THEN s[i] ELSE t[i - Len(s)]
  BY ConcatProperties, LenProperties
<1> HIDE DEF u
<1>2. ASSUME NEW i \in DOMAIN u
      PROVE  \/ i \in DOMAIN s /\ i <= Len(s) /\ u[i] = s[i]
             \/ i - Len(s) \in DOMAIN t /\ ~(i <= Len(s)) /\ u[i] = t[i - Len(s)]
  BY <1>1
<1>3. \A i \in DOMAIN u : low < u[i] /\ u[i] <= high
  BY <1>2 DEF Between
<1>4. ASSUME NEW i \in DOMAIN u, NEW j \in DOMAIN u, i < j PROVE u[i] < u[j]
  <2>1. CASE j <= Len(s)
    <3>1. i \in DOMAIN s /\ j \in DOMAIN s /\ u[i] = s[i] /\ u[j] = s[j]
      BY <1>1, <1>4, <2>1
    <3> QED  BY <1>4, <3>1 DEF Between
  <2>2. CASE i <= Len(s) /\ ~(j <= Len(s))
    BY <1>2, <2>2
  <2>3. CASE ~(i <= Len(s))
    <3>1. /\ i - Len(s) \in DOMAIN t /\ u[i] = t[i - Len(s)]
          /\ j - Len(s) \in DOMAIN t /\ u[j] = t[j - Len(s)]
          /\ i - Len(s) < j - Len(s)
      <4>1. ~(j <= Len(s)) /\ i - Len(s) < j - Len(s)
        BY <1>1, <1>4, <2>3
      <4> QED  BY <1>2, <2>3, <4>1
    <3> QED  BY <3>1 DEF Between
  <2> QED  BY <1>1, <1>4, <2>1, <2>2, <2>3
<1>5. Between(low, u, high)
  BY <1>3, <1>4 DEF Between
<1> QED  BY <1>1, <1>5 DEF u

\* What is above all of two sequences is above all of them together.
LEMMA AboveConcat ==
    ASSUME NEW s \in Seq(Nat), NEW t \in Seq(Nat), NEW x,
           \A k \in DOMAIN s : s[k] < x, \A l \in DOMAIN t : t[l] < x
    PROVE  \A i \in DOMAIN (s \o t) : (s \o t)[i] < x
<1> DEFINE u == s \o t
<1>1. /\ Len(s) \in Nat /\ Len(t) \in Nat
      /\ DOMAIN s = 1..Len(s) /\ DOMAIN t = 1..Len(t) /\ DOMAIN u = 1..(Len(s) + Len(t))
      /\ \A i \in 1..(Len(s) + Len(t)) : u[i] = IF i <= Len(s) THEN s[i] ELSE t[i - Len(s)]
  BY ConcatProperties, LenProperties
<1> HIDE DEF u
<1>2. ASSUME NEW i \in DOMAIN u PROVE u[i] < x
  <2>1. CASE i <= Len(s)
    <3>1. i \in DOMAIN s /\ u[i] = s[i]
      BY <1>1, <2>1
    <3> QED  BY <3>1
  <2>2. CASE ~(i <= Len(s))
    <3>1. i - Len(s) \in DOMAIN t /\ u[i] = t[i - Len(s)]
      BY <1>1, <2>2
    <3> QED  BY <3>1
  <2> QED  BY <2>1, <2>2
<1> QED  BY <1>2 DEF u

\* For every capacity of the channel and every number of notifications, the
\* leader cache takes slot events in the server's order and none twice.
THEOREM SlotOrderCorrect == Spec => []SlotOrder
<1>1. TypeOK /\ Queued => SlotOrder
  <2> SUFFICES ASSUME TypeOK, Queued PROVE SlotOrder
    OBVIOUS
  <2> DEFINE hand == IF event = 0 THEN << >> ELSE <<event>>
  <2>1. /\ updates \in Int /\ taken \in Int /\ event \in Nat /\ InHand \in Int
        /\ channel \in Seq(Nat) /\ Arrivals \in Seq(Nat) /\ DOMAIN Arrivals = DOMAIN arrived
    <3>1. updates \in Int /\ taken \in Int /\ event \in Nat /\ InHand \in Int
      BY DEF TypeOK, InHand
    <3>2. channel \in Seq(1..MaxUpdates) /\ 1..MaxUpdates \subseteq Nat
      BY SlotWatchAssumption DEF SlotWatchAssumption, TypeOK
    <3>3. channel \in Seq(Nat)
      BY <3>2, SeqMonotonic
    <3>4. Arrivals \in Seq(Nat) /\ DOMAIN Arrivals = DOMAIN arrived
      <4>1. /\ DOMAIN arrived = 1..Len(arrived) /\ Len(arrived) \in Nat
            /\ \A k \in DOMAIN arrived : arrived[k] \in [kind : Kinds, number : 1..MaxUpdates]
        BY LenProperties, ElementOfSeq DEF TypeOK
      <4>2. \A k \in DOMAIN arrived : arrived[k].number \in Nat
        BY <3>2, <4>1
      <4> QED  BY <4>1, <4>2, IsASeq DEF Arrivals
    <3> QED  BY <3>1, <3>3, <3>4
  <2>2. /\ hand \in Seq(Nat)
        /\ Between(taken, hand, updates)
        /\ \A k \in DOMAIN channel, l \in DOMAIN hand : channel[k] < hand[l]
        /\ \A k \in DOMAIN hand, l \in DOMAIN arrived : hand[k] < Arrivals[l]
    <3>1. CASE event = 0
      BY <3>1, EmptySeq DEF Between
    <3>2. CASE event # 0
      <4>1. hand = <<event>> /\ hand \in Seq(Nat) /\ DOMAIN hand = {1} /\ hand[1] = event
        BY <2>1, <3>2
      <4>2. taken < event /\ event <= updates
        BY <3>2 DEF Queued, InHand
      <4>3. /\ \A k \in DOMAIN channel : channel[k] < event
            /\ \A l \in DOMAIN arrived : event < Arrivals[l]
        BY <2>1, <3>2 DEF Queued, InHand, Between
      <4> HIDE DEF hand
      <4> QED  BY <2>1, <4>1, <4>2, <4>3 DEF Between
    <3> QED  BY <3>1, <3>2
  <2>3. Between(taken, Arrivals, updates)
    <3>1. taken <= InHand
      BY <2>1 DEF Queued, InHand
    <3> QED  BY <2>1, <3>1, BetweenLower DEF Queued
  <2> HIDE DEF hand
  <2>4. /\ channel \o hand \in Seq(Nat)
        /\ Between(taken, channel \o hand, updates)
        /\ \A i \in DOMAIN (channel \o hand), l \in DOMAIN arrived :
              (channel \o hand)[i] < Arrivals[l]
    <3>1. channel \o hand \in Seq(Nat) /\ Between(taken, channel \o hand, updates)
      BY <2>1, <2>2, BetweenConcat DEF Queued
    <3>2. ASSUME NEW l \in DOMAIN arrived
          PROVE  \A i \in DOMAIN (channel \o hand) : (channel \o hand)[i] < Arrivals[l]
      BY <2>1, <2>2, AboveConcat DEF Queued
    <3> QED  BY <3>1, <3>2
  <2>5. Between(taken, (channel \o hand) \o Arrivals, updates)
    BY <2>1, <2>3, <2>4, BetweenConcat
  <2> QED  BY <2>5 DEF SlotOrder, Between, hand, Arrivals
<1> QED  BY <1>1, TypeCorrect, QueuedCorrect, PTL
===============================================================================
