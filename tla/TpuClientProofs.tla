---------------------------- MODULE TpuClientProofs ----------------------------
(***************************************************************************)
(* Proofs about the TPU client for every set of addresses, every set of    *)
(* leader windows, every channel capacity and every number of              *)
(* transactions.                                                           *)
(***************************************************************************)
EXTENDS TpuClient, SequenceTheorems, TLAPS

-------------------------------------------------------------------------------
(* The payload format. *)

\* Whatever the wire transaction and the flag, a payload is told apart from
\* the flush message and gives back both (TpuClientPayload::new, decode,
\* is_mev_protected and wire_transaction).
THEOREM PayloadRoundTrip ==
    ASSUME NEW wire \in Seq(Nat), NEW mev_protect \in BOOLEAN
    PROVE  LET encoded == new(wire, mev_protect)
           IN  /\ encoded \in Seq(Nat)
               /\ decode(encoded)
               /\ is_mev_protected(encoded) <=> mev_protect
               /\ wire_transaction(encoded) = wire
<1> DEFINE flag == IF mev_protect THEN MEV_PROTECTED ELSE 0
           encoded == Append(wire, flag)
<1>1. flag \in Nat
  BY DEF MEV_PROTECTED
<1>2. /\ encoded \in Seq(Nat)
      /\ Len(encoded) = Len(wire) + 1
      /\ \A i \in 1..Len(wire) : encoded[i] = wire[i]
      /\ encoded[Len(wire) + 1] = flag
  <2> HIDE DEF flag
  <2> QED  BY <1>1, AppendProperties
<1>3. encoded # << >>
  BY <1>2, EmptySeq, LenProperties
<1>4. (flag % 2 = MEV_PROTECTED) <=> mev_protect
  BY DEF MEV_PROTECTED
<1>5. is_mev_protected(encoded) <=> mev_protect
  <2> HIDE DEF flag
  <2> QED  BY <1>2, <1>3, <1>4 DEF is_mev_protected, Flush
<1>6. wire_transaction(encoded) = wire
  <2> HIDE DEF encoded
  <2>1. /\ SubSeq(encoded, 1, Len(wire)) \in Seq(Nat)
        /\ Len(SubSeq(encoded, 1, Len(wire))) = Len(wire)
        /\ \A i \in 1..Len(wire) : SubSeq(encoded, 1, Len(wire))[i] = encoded[i]
    BY <1>2, LenProperties, SMT
  <2>2. SubSeq(encoded, 1, Len(wire)) = wire
    BY <1>2, <2>1, LenProperties, SeqEqual
  <2> QED  BY <1>2, <2>2, LenProperties DEF wire_transaction
<1> QED  BY <1>2, <1>3, <1>5, <1>6 DEF new, decode, Flush

-------------------------------------------------------------------------------
(* Messages and the numbers they carry. *)

\* What the message of the n-th transaction says.
LEMMA MessageOf ==
    ASSUME NEW n \in 1..MaxEnqueued, NEW mev_protect \in BOOLEAN
    PROVE  /\ <<n>> \in Wires
           /\ new(<<n>>, mev_protect) \in Messages
           /\ new(<<n>>, mev_protect) # Flush
           /\ new(<<n>>, mev_protect)[1] = n
           /\ is_mev_protected(new(<<n>>, mev_protect)) <=> mev_protect
           /\ wire_transaction(new(<<n>>, mev_protect)) = <<n>>
<1>1. <<n>> \in Wires /\ <<n>> \in Seq(Nat) /\ Len(<<n>>) = 1 /\ <<n>>[1] = n
  BY ConstantsAssumption DEF Wires
<1>2. new(<<n>>, mev_protect) \in Messages
  BY <1>1 DEF Messages
<1>3. new(<<n>>, mev_protect)[1] = n
  BY <1>1, AppendProperties DEF new, MEV_PROTECTED
<1> HIDE DEF new
<1> QED  BY <1>1, <1>2, <1>3, PayloadRoundTrip DEF decode

\* Every message but the flush message is the message of a transaction.
LEMMA MessageForm ==
    ASSUME NEW m \in Messages, m # Flush
    PROVE  /\ m[1] \in 1..MaxEnqueued
           /\ wire_transaction(m) = <<m[1]>>
           /\ wire_transaction(m) \in Wires
<1>1. PICK n \in 1..MaxEnqueued, mev_protect \in BOOLEAN : m = new(<<n>>, mev_protect)
  BY DEF Messages, Wires
<1> QED  BY <1>1, MessageOf

\* A wire transaction of the model is its number, and never the flush message.
LEMMA WireForm ==
    ASSUME NEW w \in Wires
    PROVE  w # Flush /\ w[1] \in 1..MaxEnqueued /\ w = <<w[1]>>
BY DEF Wires, Flush

\* Taking the head leaves nothing exactly when it was the only element.
LEMMA TailEmpty ==
    ASSUME NEW S, NEW s \in Seq(S), s # << >>
    PROVE  Tail(s) = << >> <=> Len(s) = 1
<1>1. Tail(s) \in Seq(S) /\ Len(Tail(s)) = Len(s) - 1 /\ Len(s) \in Nat
  BY HeadTailProperties, LenProperties
<1>2. Tail(s) = << >> <=> Len(Tail(s)) = 0
  BY <1>1, EmptySeq
<1> QED  BY <1>1, <1>2

\* The parts of the step that evaluates a message, when the message and the
\* buffer have their types.
LEMMA PrepareTypes ==
    ASSUME buffered \in Seq(Wires), NEW m \in Messages, NEW is_blocked \in BOOLEAN
    PROVE  /\ Fresh(m, is_blocked) \in Seq(Wires)
           /\ Ready(m, is_blocked) \in Seq(Wires)
           /\ Buffer(m, is_blocked) \in Seq(Wires)
<1>1. Fresh(m, is_blocked) \in Seq(Wires)
  BY MessageForm DEF Fresh, decode
<1>2. Ready(m, is_blocked) \in Seq(Wires)
  BY <1>1, ConcatProperties DEF Ready
<1>3. Buffer(m, is_blocked) \in Seq(Wires)
  <2>1. Withheld(m, is_blocked) => wire_transaction(m) \in Wires
    BY MessageForm DEF Withheld, decode
  <2> QED  BY <2>1, AppendProperties DEF Buffer
<1> QED  BY <1>1, <1>2, <1>3

-------------------------------------------------------------------------------
(* Type correctness. *)

\* Every variable keeps its type in every step of the client.
THEOREM TypeCorrect == Spec => []TypeOK
<1>1. Init => TypeOK
  <2>1. Flush \in Messages /\ << >> \in Seq(Messages) /\ << >> \in Seq(Wires)
    BY EmptySeq DEF Messages
  <2>2. Init => /\ worker \in [Addrs -> {"none", "live", "gone"}]
                /\ inbox \in [Addrs -> Seq(Wires)]
    BY <2>1 DEF Init
  <2>3. 0 \in 0..MaxEnqueued /\ 0 \in 0..MaxDropped
    BY ConstantsAssumption
  <2>4. Init => /\ window # << >> => cursor \in 1..Len(window)
                /\ ready # << >> <=> pc = "send"
                /\ current # Flush => pc = "evaluate"
    BY DEF Init
  <2>5. Init => /\ channel \in Seq(Messages)
                /\ current \in Messages
                /\ buffered \in Seq(Wires)
                /\ ready \in Seq(Wires)
    BY <2>1 DEF Init
  <2>6. Init => /\ flushing \in BOOLEAN
                /\ cancelled \in BOOLEAN
                /\ leaders \in Windows
                /\ blocked \subseteq Addrs
                /\ window \in Windows \cup {<< >>}
                /\ snapshot \subseteq Addrs
    BY DEF Init
  <2>7. Init => /\ pc \in {"recv", "evaluate", "send", "exited"}
                /\ cursor \in Nat /\ cursor = 1
                /\ protected \subseteq 1..MaxEnqueued
                /\ handled \subseteq 1..MaxEnqueued
    BY DEF Init
  <2>8. Init => /\ tpu_enqueued \in 0..MaxEnqueued
                /\ tpu_dropped \in 0..MaxDropped
                /\ mev_buffered \in Nat
                /\ mev_released \in Nat
                /\ mev_buffer_size \in Nat
    BY <2>3 DEF Init
  <2> QED  BY <2>2, <2>4, <2>5, <2>6, <2>7, <2>8 DEF TypeOK
<1>2. TypeOK /\ [Next]_vars => TypeOK'
  <2> SUFFICES ASSUME TypeOK, [Next]_vars PROVE TypeOK'
    OBVIOUS
  <2> USE ConstantsAssumption DEF schedulerVars, workerVars, historyVars, stats
  <2>1. ASSUME NEW mev_protect \in BOOLEAN, Enqueue(mev_protect) PROVE TypeOK'
    <3> DEFINE tx == tpu_enqueued + 1
    <3>1. tx \in 1..MaxEnqueued
      BY <2>1 DEF Enqueue, TypeOK
    <3>2. new(<<tx>>, mev_protect) \in Messages
      BY <3>1, MessageOf
    <3>3. channel' \in Seq(Messages)
      BY <2>1, <3>2, AppendProperties DEF Enqueue, TypeOK
    <3>4. protected' \subseteq 1..MaxEnqueued
      BY <2>1, <3>1 DEF Enqueue, TypeOK
    <3> QED  BY <2>1, <3>1, <3>3, <3>4 DEF Enqueue, TypeOK
  <2>2. CASE Drop
    BY <2>2 DEF Drop, TypeOK
  <2>3. CASE FlushTick
    <3>1. channel' \in Seq(Messages)
      BY <2>3, AppendProperties DEF FlushTick, TypeOK, Messages
    <3> QED  BY <2>3, <3>1 DEF FlushTick, TypeOK
  <2>4. CASE FlushStop
    BY <2>4 DEF FlushStop, TypeOK
  <2>5. CASE Recv
    <3>1. Head(channel) \in Messages /\ Tail(channel) \in Seq(Messages)
      BY <2>5, HeadTailProperties DEF Recv, TypeOK
    <3>2. leaders # << >> => 1 \in 1..Len(leaders)
      BY EmptySeq DEF TypeOK
    <3>3. cursor = 1 /\ ready = << >>
      BY <2>5 DEF Recv, TypeOK
    <3>4. worker' \in [Addrs -> {"none", "live", "gone"}]
      BY <2>5 DEF Recv, TypeOK
    <3> QED  BY <2>5, <3>1, <3>2, <3>3, <3>4 DEF Recv, TypeOK
  <2>6. CASE send_to_workers
    <3> DEFINE is_blocked == has_blocked_send_target(window, blocked)
    <3>1. is_blocked \in BOOLEAN
      BY DEF has_blocked_send_target
    <3>2. /\ ready' = Ready(current, is_blocked)
          /\ buffered' = Buffer(current, is_blocked)
          /\ MevStats(current, is_blocked)
          /\ pc' = IF ready' = << >> THEN "recv" ELSE "send"
          /\ snapshot' = IF ready' = << >> THEN {} ELSE blocked
          /\ window' = IF ready' = << >> THEN << >> ELSE window
          /\ current' = Flush
      BY <2>6 DEF send_to_workers
    <3>3. ready' \in Seq(Wires) /\ buffered' \in Seq(Wires)
      BY <3>1, <3>2, PrepareTypes DEF TypeOK
    <3>4. mev_buffered' \in Nat /\ mev_released' \in Nat /\ mev_buffer_size' \in Nat
      <4>1. Len(buffered) \in Nat /\ Len(Buffer(current, is_blocked)) \in Nat
        BY <3>2, <3>3, LenProperties DEF TypeOK
      <4> HIDE DEF is_blocked
      <4> QED  BY <3>2, <4>1 DEF MevStats, TypeOK
    <3>5. UNCHANGED <<tpu_enqueued, tpu_dropped>>
      BY <3>2 DEF MevStats
    <3> HIDE DEF is_blocked
    <3> QED  BY <2>6, <3>2, <3>3, <3>4, <3>5 DEF send_to_workers, TypeOK, Messages
  <2>7. CASE Offer
    <3> DEFINE a == window[cursor]
    <3>1. Head(ready) \in Wires /\ Tail(ready) \in Seq(Wires)
      BY <2>7, HeadTailProperties DEF Offer, TypeOK
    <3>2. a \in Addrs
      BY <2>7 DEF Offer, TypeOK
    <3>3. inbox' \in [Addrs -> Seq(Wires)]
      <4>1. Append(inbox[a], Head(ready)) \in Seq(Wires)
        BY <3>1, <3>2, AppendProperties DEF TypeOK
      <4> QED  BY <2>7, <4>1 DEF Offer, TypeOK
    <3>4. worker' \in [Addrs -> {"none", "live", "gone"}]
      BY <2>7 DEF Offer, TypeOK
    <3>5. Head(ready)[1] \in 1..MaxEnqueued
      BY <3>1, WireForm
    <3>6. CASE cursor < Len(window) /\ cursor' = cursor + 1
                /\ UNCHANGED <<ready, handled, pc, snapshot, window>>
      <4>1. window \in Seq(Addrs) /\ Len(window) \in Nat /\ pc = "send"
        BY <2>7, LenProperties DEF Offer, TypeOK
      <4>2. cursor' \in 1..Len(window)
        BY <2>7, <3>6, <4>1 DEF Offer, TypeOK
      <4> QED  BY <2>7, <3>3, <3>4, <3>6, <4>1, <4>2 DEF Offer, TypeOK
    <3>7. CASE cursor = Len(window) /\ FinishTurn
      <4>1. Tail(ready) = << >> <=> Len(ready) = 1
        BY <2>7, TailEmpty DEF Offer, TypeOK
      <4>2. 1 \in 1..Len(window) /\ pc = "send"
        BY <2>7, <3>7, EmptySeq DEF Offer, TypeOK
      <4>3. handled' \subseteq 1..MaxEnqueued
        BY <3>5, <3>7 DEF FinishTurn, TypeOK
      <4>4. /\ ready' \in Seq(Wires)
            /\ cursor' = 1
            /\ pc' \in {"recv", "send"}
            /\ snapshot' \subseteq Addrs
            /\ window' \in {window, << >>}
            /\ ready' # << >> <=> pc' = "send"
        BY <3>1, <3>7, <4>1, <4>2 DEF FinishTurn, TypeOK
      <4> QED  BY <2>7, <3>3, <3>4, <4>2, <4>3, <4>4 DEF Offer, TypeOK
    <3> QED  BY <2>7, <3>6, <3>7 DEF Offer
  <2>8. CASE OfferToNobody
    <3>1. Head(ready) \in Wires /\ Tail(ready) \in Seq(Wires)
      BY <2>8, HeadTailProperties DEF OfferToNobody, TypeOK
    <3>2. Head(ready)[1] \in 1..MaxEnqueued
      BY <3>1, WireForm
    <3>3. Tail(ready) = << >> <=> Len(ready) = 1
      BY <2>8, TailEmpty DEF OfferToNobody, TypeOK
    <3> QED  BY <2>8, <3>1, <3>2, <3>3 DEF OfferToNobody, FinishTurn, TypeOK
  <2>9. CASE SchedulerExit
    BY <2>9 DEF SchedulerExit, TypeOK
  <2>10. ASSUME NEW a \in Addrs, WorkerTransmit(a) \/ WorkerEnd(a) PROVE TypeOK'
    <3>1. inbox[a] # << >> => Tail(inbox[a]) \in Seq(Wires)
      BY HeadTailProperties DEF TypeOK
    <3>2. CASE WorkerTransmit(a)
      BY <3>1, <3>2 DEF WorkerTransmit, TypeOK
    <3>3. CASE WorkerEnd(a)
      BY <3>3 DEF WorkerEnd, TypeOK
    <3> QED  BY <2>10, <3>2, <3>3
  <2>11. ASSUME NEW w \in Windows, Rotate(w) PROVE TypeOK'
    BY <2>11 DEF Rotate, TypeOK
  <2>12. CASE Cancel
    BY <2>12 DEF Cancel, TypeOK
  <2>13. ASSUME NEW addrs \in SUBSET Addrs, StoreBlocked(addrs) PROVE TypeOK'
    BY <2>13 DEF StoreBlocked, TypeOK
  <2>14. CASE UNCHANGED vars
    BY <2>14 DEF vars, TypeOK
  <2> QED
    BY <2>1, <2>2, <2>3, <2>4, <2>5, <2>6, <2>7, <2>8, <2>9, <2>10, <2>11,
       <2>12, <2>13, <2>14 DEF Next, ClientNext
<1> QED  BY <1>1, <1>2, PTL DEF Spec

-------------------------------------------------------------------------------
(* The numbers in a sequence of messages, and their order. *)

\* The transactions of a sequence are in the order of their numbers.
Increasing(messages) ==
    \A i, j \in DOMAIN messages :
        i < j /\ messages[i] # Flush /\ messages[j] # Flush
            => messages[i][1] < messages[j][1]

\* The numbers in no message and in one.
LEMMA NumbersOne ==
    /\ Numbers(<< >>) = {}
    /\ \A m : Numbers(<<m>>) = IF m = Flush THEN {} ELSE {m[1]}
BY DEF Numbers

\* A number occurs in a sequence of messages when some payload carries it.
LEMMA NumbersIn ==
    ASSUME NEW s, NEW n
    PROVE  n \in Numbers(s) <=> \E i \in DOMAIN s : s[i] # Flush /\ s[i][1] = n
BY DEF Numbers

\* What appending a message does to the numbers and their order.
LEMMA NumbersAppend ==
    ASSUME NEW S, NEW s \in Seq(S), NEW m \in S
    PROVE  /\ Numbers(Append(s, m)) = Numbers(s) \cup Numbers(<<m>>)
           /\ Increasing(s) /\ (m # Flush => \A n \in Numbers(s) : n < m[1])
                => Increasing(Append(s, m))
<1> DEFINE t == Append(s, m)
<1>1. /\ Len(s) \in Nat
      /\ DOMAIN s = 1..Len(s)
      /\ DOMAIN t = 1..(Len(s) + 1)
      /\ \A i \in 1..Len(s) : t[i] = s[i]
      /\ t[Len(s) + 1] = m
  BY AppendProperties, LenProperties
<1> HIDE DEF t
<1>2. ASSUME NEW n
      PROVE  n \in Numbers(t) <=> n \in Numbers(s) \cup Numbers(<<m>>)
  <2>1. n \in Numbers(<<m>>) <=> m # Flush /\ m[1] = n
    BY NumbersOne
  <2>2. n \in Numbers(t) <=> \E i \in 1..(Len(s) + 1) : t[i] # Flush /\ t[i][1] = n
    BY <1>1, NumbersIn
  <2>3. n \in Numbers(s) <=> \E i \in 1..Len(s) : s[i] # Flush /\ s[i][1] = n
    BY <1>1, NumbersIn
  <2>4. (\E i \in 1..(Len(s) + 1) : t[i] # Flush /\ t[i][1] = n)
            <=> \/ \E i \in 1..Len(s) : s[i] # Flush /\ s[i][1] = n
                \/ m # Flush /\ m[1] = n
    <3>1. \A i \in 1..(Len(s) + 1) : i \in 1..Len(s) \/ i = Len(s) + 1
      BY <1>1
    <3>2. Len(s) + 1 \in 1..(Len(s) + 1) /\ 1..Len(s) \subseteq 1..(Len(s) + 1)
      BY <1>1
    <3> QED  BY <1>1, <3>1, <3>2
  <2> QED  BY <2>1, <2>2, <2>3, <2>4
<1>3. ASSUME Increasing(s), m # Flush => \A n \in Numbers(s) : n < m[1]
      PROVE  Increasing(t)
  <2> SUFFICES ASSUME NEW i \in DOMAIN t, NEW j \in DOMAIN t,
                      i < j, t[i] # Flush, t[j] # Flush
               PROVE  t[i][1] < t[j][1]
    BY DEF Increasing
  <2>1. CASE j \in 1..Len(s)
    BY <1>1, <1>3, <2>1 DEF Increasing
  <2>2. CASE j = Len(s) + 1
    <3>1. i \in 1..Len(s) /\ t[i] = s[i] /\ t[j] = m
      BY <1>1, <2>2
    <3>2. s[i][1] \in Numbers(s)
      BY <1>1, <3>1, NumbersIn
    <3> QED  BY <1>3, <3>1, <3>2
  <2> QED  BY <1>1, <2>1, <2>2
<1> QED  BY <1>2, <1>3 DEF t

\* What taking the head of a sequence does to the numbers and their order.
LEMMA NumbersTail ==
    ASSUME NEW S, NEW s \in Seq(S), s # << >>
    PROVE  /\ Numbers(s) = Numbers(<<Head(s)>>) \cup Numbers(Tail(s))
           /\ Increasing(s) => /\ Increasing(Tail(s))
                               /\ Head(s) # Flush =>
                                    \A n \in Numbers(Tail(s)) : Head(s)[1] < n
<1> DEFINE t == Tail(s)
           h == Head(s)
<1>1. /\ Len(s) \in Nat \ {0}
      /\ DOMAIN s = 1..Len(s)
      /\ DOMAIN t = 1..(Len(s) - 1)
      /\ \A i \in 1..(Len(s) - 1) : t[i] = s[i + 1]
      /\ h = s[1]
  BY HeadTailProperties, LenProperties, EmptySeq
<1> HIDE DEF t, h
<1>2. ASSUME NEW n
      PROVE  n \in Numbers(s) <=> n \in Numbers(<<h>>) \cup Numbers(t)
  <2>1. n \in Numbers(<<h>>) <=> h # Flush /\ h[1] = n
    BY NumbersOne
  <2>2. n \in Numbers(t) <=> \E i \in 1..(Len(s) - 1) : s[i + 1] # Flush /\ s[i + 1][1] = n
    <3>1. n \in Numbers(t) <=> \E i \in 1..(Len(s) - 1) : t[i] # Flush /\ t[i][1] = n
      BY <1>1, NumbersIn
    <3>2. \A i \in 1..(Len(s) - 1) : t[i] = s[i + 1]
      BY <1>1
    <3> HIDE <1>1
    <3> QED  BY <3>1, <3>2, Zenon
  <2>3. n \in Numbers(s) <=> \E i \in 1..Len(s) : s[i] # Flush /\ s[i][1] = n
    BY <1>1, NumbersIn
  <2>4. (\E i \in 1..Len(s) : s[i] # Flush /\ s[i][1] = n)
            <=> \/ \E i \in 1..(Len(s) - 1) : s[i + 1] # Flush /\ s[i + 1][1] = n
                \/ h # Flush /\ h[1] = n
    <3>1. ASSUME NEW i \in 1..Len(s), s[i] # Flush /\ s[i][1] = n
          PROVE  \/ \E k \in 1..(Len(s) - 1) : s[k + 1] # Flush /\ s[k + 1][1] = n
                 \/ h # Flush /\ h[1] = n
      <4>1. CASE i = 1
        BY <1>1, <3>1, <4>1
      <4>2. CASE i # 1
        <5>1. i - 1 \in 1..(Len(s) - 1) /\ (i - 1) + 1 = i
          BY <1>1, <4>2
        <5> QED  BY <3>1, <5>1
      <4> QED  BY <4>1, <4>2
    <3>2. ASSUME NEW i \in 1..(Len(s) - 1) PROVE i + 1 \in 1..Len(s)
      BY <1>1
    <3>3. 1 \in 1..Len(s)
      BY <1>1
    <3> QED  BY <1>1, <3>1, <3>2, <3>3
  <2> QED  BY <2>1, <2>2, <2>3, <2>4
<1>3. ASSUME Increasing(s)
      PROVE  /\ Increasing(t)
             /\ h # Flush => \A n \in Numbers(t) : h[1] < n
  <2>1. ASSUME NEW i \in 1..(Len(s) - 1), NEW j \in 1..(Len(s) - 1),
               i < j, t[i] # Flush, t[j] # Flush
        PROVE  t[i][1] < t[j][1]
    <3>1. i + 1 \in DOMAIN s /\ j + 1 \in DOMAIN s /\ i + 1 < j + 1
      BY <1>1, <2>1
    <3> QED  BY <1>1, <1>3, <2>1, <3>1 DEF Increasing
  <2>2. ASSUME h # Flush, NEW n \in Numbers(t) PROVE h[1] < n
    <3>1. PICK i \in 1..(Len(s) - 1) : t[i] # Flush /\ t[i][1] = n
      BY <1>1, NumbersIn
    <3>2. i + 1 \in DOMAIN s /\ 1 \in DOMAIN s /\ 1 < i + 1
      BY <1>1
    <3> QED  BY <1>1, <1>3, <2>2, <3>1, <3>2 DEF Increasing
  <2> QED  BY <1>1, <2>1, <2>2 DEF Increasing
<1> QED  BY <1>2, <1>3 DEF t, h

-------------------------------------------------------------------------------
(* The inductive invariant: where the transactions are and in which order. *)

InChannel == Numbers(channel)
InHand    == Numbers(<<current>>)
InBuffer  == Numbers(buffered)
InBatch   == Numbers(ready)

\* The flag of a message tells the class of its transaction.
FlagTrue(m) == m # Flush => (is_mev_protected(m) <=> m[1] \in protected)

\* Only accepted transactions are anywhere.
Known ==
    /\ InChannel \cup InHand \cup InBuffer \cup InBatch \cup handled \subseteq 1..tpu_enqueued
    /\ protected \subseteq 1..tpu_enqueued

\* Until the scheduler exits, every accepted transaction is somewhere.
Covered ==
    pc # "exited" =>
        1..tpu_enqueued \subseteq InChannel \cup InHand \cup InBuffer \cup InBatch \cup handled

Sorted == Increasing(channel) /\ Increasing(buffered) /\ Increasing(ready)

Flagged == FlagTrue(current) /\ \A i \in DOMAIN channel : FlagTrue(channel[i])

\* The channel holds the latest transactions, the scheduler's hand the next.
Staged ==
    /\ \A c \in InChannel, x \in InHand \cup InBuffer \cup InBatch \cup handled : x < c
    /\ \A k \in InHand, x \in InBuffer \cup InBatch \cup handled : x < k

\* Only protected transactions wait, and no later protected one has gone.
Waiting ==
    /\ InBuffer \subseteq protected
    /\ \A w \in InBuffer, h \in handled \cap protected : h < w

\* The batch continues each class where it stands; it holds protected
\* transactions only after the whole buffer was released.
Batch ==
    /\ \A r \in InBatch, h \in handled : SameClass(h, r) => h < r
    /\ \A r \in InBatch : r \in protected => InBuffer = {}

Inv == Known /\ Covered /\ Sorted /\ Flagged /\ Staged /\ Waiting /\ Batch /\ SafeRelease
\* The inductive invariant of the channel, the buffer and the batch holds when
\* the client starts.
LEMMA InvInit == Init => Inv
<1> SUFFICES ASSUME Init PROVE Inv
  OBVIOUS
<1>1. InChannel = {} /\ InHand = {} /\ InBuffer = {} /\ InBatch = {} /\ handled = {}
  BY NumbersOne DEF Init, InChannel, InHand, InBuffer, InBatch
<1>2. 1..tpu_enqueued = {}
  BY DEF Init
<1>3. Sorted
  BY DEF Init, Sorted, Increasing
<1>4. Flagged
  BY DEF Init, Flagged, FlagTrue
<1>5. Known /\ Covered /\ Staged /\ Waiting /\ Batch
  BY <1>1, <1>2 DEF Init, Known, Covered, Staged, Waiting, Batch
<1>6. SafeRelease
  BY <1>1 DEF SafeRelease, InBatch
<1> QED  BY <1>3, <1>4, <1>5, <1>6 DEF Inv

\* Acceptance puts the next number at the end of the channel.
LEMMA EnqueueInv ==
    ASSUME TypeOK, Inv, NEW mev_protect \in BOOLEAN, Enqueue(mev_protect)
    PROVE  Inv'
<1> DEFINE tx == tpu_enqueued + 1
           m  == new(<<tx>>, mev_protect)
<1>1. /\ tx \in 1..MaxEnqueued
      /\ tpu_enqueued \in Nat
      /\ channel' = Append(channel, m)
      /\ tpu_enqueued' = tx
      /\ protected' = IF mev_protect THEN protected \cup {tx} ELSE protected
      /\ UNCHANGED <<current, buffered, ready, handled, pc, window, snapshot>>
  BY ConstantsAssumption DEF Enqueue, TypeOK, schedulerVars
<1>2. /\ m \in Messages /\ m # Flush /\ m[1] = tx
      /\ is_mev_protected(m) <=> mev_protect
  BY <1>1, MessageOf
<1> HIDE DEF m
<1>3. InChannel' = InChannel \cup {tx}
  <2>1. Numbers(Append(channel, m)) = Numbers(channel) \cup Numbers(<<m>>)
    BY <1>2, NumbersAppend DEF TypeOK
  <2>2. Numbers(<<m>>) = {tx}
    BY <1>2, NumbersOne
  <2> QED  BY <1>1, <2>1, <2>2 DEF InChannel
<1>4. UNCHANGED <<InHand, InBuffer, InBatch>>
  BY <1>1 DEF InHand, InBuffer, InBatch
<1>5. \A n \in InChannel \cup InHand \cup InBuffer \cup InBatch \cup handled \cup protected :
          n \in 1..tpu_enqueued /\ n < tx /\ (n \in protected' <=> n \in protected)
  <2>1. \A n \in 1..tpu_enqueued : n < tx /\ (n \in protected' <=> n \in protected)
    BY <1>1
  <2>2. \A n \in InChannel \cup InHand \cup InBuffer \cup InBatch \cup handled \cup protected :
            n \in 1..tpu_enqueued
    BY DEF Inv, Known
  <2> QED  BY <2>1, <2>2
<1>6. Known' /\ Covered'
  BY <1>1, <1>3, <1>4 DEF Inv, Known, Covered
<1>7. Sorted'
  <2>1. Increasing(channel)'
    BY <1>1, <1>2, <1>5, NumbersAppend DEF Inv, Sorted, TypeOK, InChannel
  <2> QED  BY <1>1, <2>1 DEF Inv, Sorted
<1>8. Flagged'
  <2>1. FlagTrue(current)'
    BY <1>1, <1>5, NumbersOne DEF Inv, Flagged, FlagTrue, InHand
  <2>2. ASSUME NEW i \in DOMAIN channel' PROVE FlagTrue(channel[i])'
    <3>1. /\ DOMAIN channel = 1..Len(channel) /\ Len(channel) \in Nat
          /\ i \in 1..(Len(channel) + 1)
          /\ i \in 1..Len(channel) => channel'[i] = channel[i]
          /\ i = Len(channel) + 1 => channel'[i] = m
      BY <1>1, <1>2, AppendProperties, LenProperties DEF TypeOK
    <3>2. CASE i \in 1..Len(channel)
      <4>1. channel[i] # Flush => channel[i][1] \in InChannel
        BY <3>1, <3>2, NumbersIn DEF InChannel
      <4> QED  BY <1>5, <3>1, <3>2, <4>1 DEF Inv, Flagged, FlagTrue
    <3>3. CASE i = Len(channel) + 1
      <4>1. tx \notin protected
        BY <1>5
      <4> QED  BY <1>1, <1>2, <3>1, <3>3, <4>1 DEF FlagTrue
    <3> QED  BY <3>1, <3>2, <3>3
  <2> QED  BY <2>1, <2>2 DEF Flagged
<1>9. Staged'
  BY <1>1, <1>3, <1>4, <1>5 DEF Inv, Staged
<1>10. Waiting'
  BY <1>1, <1>4, <1>5 DEF Inv, Waiting
<1>11. Batch'
  BY <1>1, <1>4, <1>5 DEF Inv, Batch, SameClass
<1>12. SafeRelease'
  BY <1>1, <1>4, <1>5 DEF Inv, SafeRelease, InBatch, has_blocked_send_target
<1> QED  BY <1>6, <1>7, <1>8, <1>9, <1>10, <1>11, <1>12 DEF Inv

\* A flush message carries no number.
LEMMA FlushInv ==
    ASSUME TypeOK, Inv, FlushTick
    PROVE  Inv'
<1>1. /\ channel' = Append(channel, Flush)
      /\ UNCHANGED <<current, buffered, ready, handled, pc, window, snapshot,
                     protected, tpu_enqueued>>
  BY DEF FlushTick, schedulerVars, historyVars, stats
<1>2. Flush \in Messages
  BY DEF Messages
<1>3. UNCHANGED <<InChannel, InHand, InBuffer, InBatch>>
  <2>1. Numbers(Append(channel, Flush)) = Numbers(channel) \cup Numbers(<<Flush>>)
    BY <1>2, NumbersAppend DEF TypeOK
  <2>2. Numbers(<<Flush>>) = {}
    BY NumbersOne
  <2> QED  BY <1>1, <2>1, <2>2 DEF InChannel, InHand, InBuffer, InBatch
<1>4. Sorted'
  BY <1>1, <1>2, NumbersAppend DEF Inv, Sorted, TypeOK
<1>5. Flagged'
  <2>1. ASSUME NEW i \in DOMAIN channel' PROVE FlagTrue(channel[i])'
    <3>1. /\ DOMAIN channel = 1..Len(channel) /\ Len(channel) \in Nat
          /\ i \in 1..(Len(channel) + 1)
          /\ i \in 1..Len(channel) => channel'[i] = channel[i]
          /\ i = Len(channel) + 1 => channel'[i] = Flush
      BY <1>1, <1>2, AppendProperties, LenProperties DEF TypeOK
    <3>2. CASE i \in 1..Len(channel)
      BY <1>1, <3>1, <3>2 DEF Inv, Flagged, FlagTrue
    <3>3. CASE i = Len(channel) + 1
      BY <3>1, <3>3 DEF FlagTrue
    <3> QED  BY <3>1, <3>2, <3>3
  <2> QED  BY <1>1, <2>1 DEF Inv, Flagged, FlagTrue
<1>6. Known' /\ Covered' /\ Staged' /\ Waiting' /\ Batch'
  BY <1>1, <1>3 DEF Inv, Known, Covered, Staged, Waiting, Batch, SameClass
<1>7. SafeRelease'
  BY <1>1, <1>3 DEF Inv, SafeRelease, InBatch, has_blocked_send_target
<1> QED  BY <1>4, <1>5, <1>6, <1>7 DEF Inv

\* Taking a message moves its number from the channel to the hand.
LEMMA RecvInv ==
    ASSUME TypeOK, Inv, Recv
    PROVE  Inv'
<1> DEFINE m == Head(channel)
<1>1. /\ channel # << >> /\ channel \in Seq(Messages)
      /\ m \in Messages
      /\ channel' = Tail(channel)
      /\ current' = m
      /\ pc' = "evaluate" /\ pc = "recv"
      /\ current = Flush
      /\ ready = << >>
      /\ UNCHANGED <<buffered, ready, handled, protected, tpu_enqueued>>
  BY HeadTailProperties DEF Recv, TypeOK, historyVars, stats
<1> HIDE DEF m
<1>2. /\ InChannel = InHand' \cup InChannel'
      /\ InHand' = IF m = Flush THEN {} ELSE {m[1]}
      /\ InHand = {} /\ InBatch = {}
      /\ UNCHANGED <<InBuffer, InBatch>>
      /\ Increasing(channel')
      /\ \A k \in InHand', c \in InChannel' : k < c
  <2>1. /\ Numbers(channel) = Numbers(<<m>>) \cup Numbers(Tail(channel))
        /\ Increasing(Tail(channel))
        /\ m # Flush => \A n \in Numbers(Tail(channel)) : m[1] < n
    BY <1>1, NumbersTail DEF m, Inv, Sorted
  <2>2. /\ Numbers(<<m>>) = IF m = Flush THEN {} ELSE {m[1]}
        /\ Numbers(<<Flush>>) = {}
        /\ Numbers(<< >>) = {}
    BY NumbersOne
  <2> QED  BY <1>1, <2>1, <2>2 DEF InChannel, InHand, InBuffer, InBatch
<1>3. Known' /\ Covered'
  BY <1>1, <1>2 DEF Inv, Known, Covered
<1>4. Sorted'
  BY <1>1, <1>2 DEF Inv, Sorted
<1>5. Flagged'
  <2>1. /\ DOMAIN channel = 1..Len(channel) /\ Len(channel) \in Nat \ {0}
        /\ DOMAIN channel' = 1..(Len(channel) - 1)
        /\ \A i \in 1..(Len(channel) - 1) : channel'[i] = channel[i + 1]
        /\ m = channel[1]
    BY <1>1, HeadTailProperties, LenProperties, EmptySeq DEF m
  <2>2. \A i \in 1..(Len(channel) - 1) : i + 1 \in 1..Len(channel)
    BY <2>1
  <2>3. 1 \in 1..Len(channel)
    BY <2>1
  <2> QED  BY <1>1, <2>1, <2>2, <2>3 DEF Inv, Flagged, FlagTrue
<1>6. Staged'
  BY <1>1, <1>2 DEF Inv, Staged
<1>7. Waiting' /\ Batch'
  BY <1>1, <1>2 DEF Inv, Waiting, Batch, SameClass
<1>8. SafeRelease'
  BY <1>1, <1>2 DEF SafeRelease, InBatch
<1> QED  BY <1>3, <1>4, <1>5, <1>6, <1>7, <1>8 DEF Inv
\* Evaluating a message buffers it, sends it alone, or sends it after the
\* buffer.
LEMMA SendInv ==
    ASSUME TypeOK, Inv, send_to_workers
    PROVE  Inv'
<1> DEFINE is_blocked == has_blocked_send_target(window, blocked)
           w == wire_transaction(current)
<1>1. /\ ready' = Ready(current, is_blocked)
      /\ buffered' = Buffer(current, is_blocked)
      /\ pc' = IF ready' = << >> THEN "recv" ELSE "send"
      /\ ready' # << >> => snapshot' = blocked /\ window' = window
      /\ current' = Flush
      /\ pc = "evaluate" /\ ready = << >>
      /\ UNCHANGED <<channel, handled, protected, tpu_enqueued>>
  BY DEF send_to_workers, TypeOK, historyVars, MevStats
<1>2. /\ InHand' = {} /\ InBatch = {}
      /\ InHand = IF current = Flush THEN {} ELSE {current[1]}
      /\ UNCHANGED InChannel
  BY <1>1, NumbersOne DEF InHand, InBatch, InChannel
<1>3. current # Flush => w \in Wires /\ w # Flush /\ w[1] = current[1] /\ Numbers(<<w>>) = InHand
  <2>1. current # Flush => w \in Wires /\ w = <<current[1]>>
    BY MessageForm DEF TypeOK
  <2>2. current # Flush => w # Flush /\ w[1] = current[1]
    BY <2>1 DEF Flush
  <2> HIDE DEF w
  <2> QED  BY <1>2, <2>1, <2>2, NumbersOne
<1>4. buffered \in Seq(Wires) /\ << >> \in Seq(Wires)
  BY EmptySeq DEF TypeOK
<1>5. Flagged'
  BY <1>1 DEF Inv, Flagged, FlagTrue
<1>6. InHand \cap protected = InHand \/ InHand \cap protected = {}
  BY <1>2
<1> HIDE DEF w
<1>7. CASE current # Flush /\ is_blocked /\ InHand \subseteq protected
  <2>1. is_mev_protected(current)
    BY <1>2, <1>7 DEF Inv, Flagged, FlagTrue
  <2>2. ready' = << >> /\ buffered' = Append(buffered, w)
    <3>1. Withheld(current, is_blocked)
      BY <1>7, <2>1 DEF Withheld, decode
    <3>2. Fresh(current, is_blocked) = << >>
      BY <3>1 DEF Fresh
    <3>3. << >> \o << >> = << >>
      BY <1>4, ConcatEmptySeq
    <3> HIDE DEF is_blocked
    <3> QED  BY <1>1, <1>7, <3>1, <3>2, <3>3 DEF Ready, Buffer, w
  <2>3. InBuffer' = InBuffer \cup InHand
    <3>1. Numbers(Append(buffered, w)) = Numbers(buffered) \cup Numbers(<<w>>)
      BY <1>3, <1>4, <1>7, NumbersAppend
    <3> QED  BY <1>3, <1>7, <2>2, <3>1 DEF InBuffer
  <2>4. InBatch' = {}
    BY <2>2, NumbersOne DEF InBatch
  <2>5. Increasing(buffered')
    <3>1. \A n \in Numbers(buffered) : n < w[1]
      BY <1>2, <1>3, <1>7 DEF Inv, Staged, InBuffer
    <3> QED  BY <1>3, <1>4, <1>7, <2>2, <3>1, NumbersAppend DEF Inv, Sorted
  <2>6. Sorted'
    BY <1>1, <2>2, <2>5 DEF Inv, Sorted, Increasing
  <2>7. Known' /\ Covered' /\ Staged'
    BY <1>1, <1>2, <2>3, <2>4 DEF Inv, Known, Covered, Staged
  <2>8. Waiting' /\ Batch'
    BY <1>1, <1>2, <1>7, <2>3, <2>4 DEF Inv, Waiting, Batch, Staged
  <2>9. SafeRelease'
    BY <2>4 DEF SafeRelease, InBatch
  <2> QED  BY <1>5, <2>6, <2>7, <2>8, <2>9 DEF Inv
<1>8. CASE is_blocked /\ (current = Flush \/ InHand \cap protected = {})
  <2>1. current # Flush => ~is_mev_protected(current)
    BY <1>2, <1>8 DEF Inv, Flagged, FlagTrue
  <2>2. /\ buffered' = buffered
        /\ ready' = IF current = Flush THEN << >> ELSE <<w>>
    <3>1. ~Withheld(current, is_blocked)
      BY <2>1 DEF Withheld, decode
    <3>2. Fresh(current, is_blocked) = IF current = Flush THEN << >> ELSE <<w>>
      BY <3>1 DEF Fresh, decode, w
    <3>3. << >> \o Fresh(current, is_blocked) = Fresh(current, is_blocked)
      <4>1. Fresh(current, is_blocked) \in Seq(Wires)
        BY <1>3, <3>2, EmptySeq
      <4> QED  BY <4>1, ConcatEmptySeq
    <3> HIDE DEF is_blocked
    <3> QED  BY <1>1, <1>8, <3>1, <3>2, <3>3 DEF Ready, Buffer
  <2>3. InBatch' = InHand /\ UNCHANGED InBuffer
    BY <1>2, <1>3, <2>2, NumbersOne DEF InBatch, InBuffer
  <2>4. Sorted'
    <3>1. Increasing(ready')
      BY <2>2 DEF Increasing
    <3> QED  BY <1>1, <2>2, <3>1 DEF Inv, Sorted
  <2>5. Known' /\ Covered' /\ Staged'
    BY <1>1, <1>2, <2>3 DEF Inv, Known, Covered, Staged
  <2>6. Waiting' /\ Batch'
    BY <1>1, <1>2, <1>8, <2>3 DEF Inv, Waiting, Batch, Staged
  <2>7. SafeRelease'
    BY <1>1, <1>2, <1>8, <2>3 DEF SafeRelease, InBatch
  <2> QED  BY <1>5, <2>4, <2>5, <2>6, <2>7 DEF Inv
<1>9. CASE ~is_blocked
  <2>1. /\ buffered' = << >>
        /\ ready' = IF current = Flush THEN buffered ELSE Append(buffered, w)
    <3>1. ~Withheld(current, is_blocked)
      BY <1>9 DEF Withheld
    <3>2. Fresh(current, is_blocked) = IF current = Flush THEN << >> ELSE <<w>>
      BY <3>1 DEF Fresh, decode, w
    <3>3. ready' = buffered \o Fresh(current, is_blocked) /\ buffered' = << >>
      <4> HIDE DEF is_blocked
      <4> QED  BY <1>1, <1>9 DEF Ready, Buffer
    <3>4. buffered \o << >> = buffered
      BY <1>4, ConcatEmptySeq
    <3>5. current # Flush => buffered \o <<w>> = Append(buffered, w)
      BY <1>3, <1>4, AppendIsConcat
    <3> QED  BY <3>2, <3>3, <3>4, <3>5
  <2>2. current # Flush => Numbers(Append(buffered, w)) = Numbers(buffered) \cup Numbers(<<w>>)
    BY <1>3, <1>4, NumbersAppend
  <2>3. InBatch' = InBuffer \cup InHand
    BY <1>2, <1>3, <2>1, <2>2 DEF InBatch, InBuffer
  <2>4. InBuffer' = {}
    BY <2>1, NumbersOne DEF InBuffer
  <2>5. Increasing(ready')
    <3>1. CASE current = Flush
      BY <2>1, <3>1 DEF Inv, Sorted
    <3>2. CASE current # Flush
      <4>1. \A n \in Numbers(buffered) : n < w[1]
        BY <1>2, <1>3, <3>2 DEF Inv, Staged, InBuffer
      <4> QED  BY <1>3, <1>4, <2>1, <3>2, <4>1, NumbersAppend DEF Inv, Sorted
    <3> QED  BY <3>1, <3>2
  <2>6. Sorted'
    BY <1>1, <2>1, <2>5 DEF Inv, Sorted, Increasing
  <2>7. Known' /\ Covered' /\ Staged'
    BY <1>1, <1>2, <2>3, <2>4 DEF Inv, Known, Covered, Staged
  <2>8. Waiting'
    BY <2>4 DEF Waiting
  <2>9. Batch'
    BY <1>1, <1>2, <2>3, <2>4 DEF Inv, Batch, Waiting, Staged, SameClass
  <2>10. SafeRelease'
    <3>1. ready' = << >> => InBatch' = {}
      BY NumbersOne DEF InBatch
    <3>2. ready' # << >> => ~has_blocked_send_target(window', snapshot')
      BY <1>1, <1>9 DEF has_blocked_send_target
    <3> QED  BY <3>1, <3>2 DEF SafeRelease, InBatch, has_blocked_send_target
  <2> QED  BY <1>5, <2>6, <2>7, <2>8, <2>9, <2>10 DEF Inv
<1> QED  BY <1>2, <1>6, <1>7, <1>8, <1>9

\* The end of a turn moves the first number of the batch to the done ones.
LEMMA FinishTurnInv ==
    ASSUME TypeOK, Inv, pc = "send", FinishTurn,
           UNCHANGED <<channel, current, buffered, protected, tpu_enqueued>>
    PROVE  Inv'
<1> DEFINE h == Head(ready)
<1>1. /\ ready # << >> /\ ready \in Seq(Wires)
      /\ h \in Wires /\ h # Flush
      /\ ready' = Tail(ready)
      /\ handled' = handled \cup {h[1]}
      /\ pc' # "exited"
      /\ ready' # << >> => UNCHANGED <<window, snapshot>>
  BY HeadTailProperties, WireForm, TailEmpty DEF FinishTurn, TypeOK
<1> HIDE DEF h
<1>2. /\ InBatch = {h[1]} \cup InBatch'
      /\ Increasing(ready')
      /\ \A n \in InBatch' : h[1] < n
      /\ UNCHANGED <<InChannel, InHand, InBuffer>>
  <2>1. /\ Numbers(ready) = Numbers(<<h>>) \cup Numbers(Tail(ready))
        /\ Increasing(Tail(ready))
        /\ \A n \in Numbers(Tail(ready)) : h[1] < n
    BY <1>1, NumbersTail DEF h, Inv, Sorted
  <2>2. Numbers(<<h>>) = {h[1]}
    BY <1>1, NumbersOne
  <2> QED  BY <1>1, <2>1, <2>2 DEF InBatch, InChannel, InHand, InBuffer
<1>3. Known' /\ Covered' /\ Staged'
  BY <1>1, <1>2 DEF Inv, Known, Covered, Staged
<1>4. Sorted' /\ Flagged'
  BY <1>2 DEF Inv, Sorted, Flagged, FlagTrue
<1>5. Waiting' /\ Batch'
  BY <1>1, <1>2 DEF Inv, Waiting, Batch, SameClass
<1>6. SafeRelease'
  <2>1. ready' = << >> => InBatch' = {}
    BY NumbersOne DEF InBatch
  <2>2. ready' # << >> => SafeRelease'
    BY <1>1, <1>2 DEF Inv, SafeRelease, InBatch, has_blocked_send_target
  <2> QED  BY <2>1, <2>2 DEF SafeRelease, InBatch
<1> QED  BY <1>3, <1>4, <1>5, <1>6 DEF Inv
\* Every step of the client preserves the invariant.
LEMMA InvStep ==
    ASSUME TypeOK, Inv, [Next]_vars
    PROVE  Inv'
<1> USE DEF schedulerVars, workerVars, historyVars, stats
<1>1. ASSUME NEW mev_protect \in BOOLEAN, Enqueue(mev_protect) PROVE Inv'
  BY <1>1, EnqueueInv
<1>2. CASE FlushTick
  BY <1>2, FlushInv
<1>3. CASE Recv
  BY <1>3, RecvInv
<1>4. CASE send_to_workers
  BY <1>4, SendInv
<1>5. CASE Offer /\ FinishTurn
  BY <1>5, FinishTurnInv DEF Offer
<1>6. CASE OfferToNobody
  BY <1>6, FinishTurnInv DEF OfferToNobody
<1>7. CASE SchedulerExit
  <2>1. /\ channel' = << >> /\ pc' = "exited"
        /\ UNCHANGED <<current, buffered, ready, handled, window, snapshot,
                       protected, tpu_enqueued>>
    BY <1>7 DEF SchedulerExit
  <2>2. InChannel' = {} /\ UNCHANGED <<InHand, InBuffer, InBatch>>
    BY <2>1, NumbersOne DEF InChannel, InHand, InBuffer, InBatch
  <2>3. Known' /\ Covered' /\ Staged' /\ Waiting' /\ Batch'
    BY <2>1, <2>2 DEF Inv, Known, Covered, Staged, Waiting, Batch, SameClass
  <2>4. Sorted' /\ Flagged'
    BY <2>1 DEF Inv, Sorted, Increasing, Flagged, FlagTrue
  <2>5. SafeRelease'
    BY <2>1, <2>2 DEF Inv, SafeRelease, InBatch, has_blocked_send_target
  <2> QED  BY <2>3, <2>4, <2>5 DEF Inv
<1>8. CASE UNCHANGED <<channel, current, buffered, ready, handled, pc, window,
                       snapshot, protected, tpu_enqueued>>
  <2>1. UNCHANGED <<InChannel, InHand, InBuffer, InBatch>>
    BY <1>8 DEF InChannel, InHand, InBuffer, InBatch
  <2>2. Known' /\ Covered' /\ Staged' /\ Waiting' /\ Batch'
    BY <1>8, <2>1 DEF Inv, Known, Covered, Staged, Waiting, Batch, SameClass
  <2>3. Sorted' /\ Flagged'
    BY <1>8 DEF Inv, Sorted, Flagged, FlagTrue
  <2>4. SafeRelease'
    BY <1>8, <2>1 DEF Inv, SafeRelease, InBatch, has_blocked_send_target
  <2> QED  BY <2>2, <2>3, <2>4 DEF Inv
<1>9. CASE Offer /\ ~FinishTurn
  BY <1>8, <1>9 DEF Offer
<1>10. CASE Drop \/ FlushStop \/ Cancel
  BY <1>8, <1>10 DEF Drop, FlushStop, Cancel
<1>11. ASSUME NEW a \in Addrs, WorkerTransmit(a) \/ WorkerEnd(a) PROVE Inv'
  BY <1>8, <1>11 DEF WorkerTransmit, WorkerEnd
<1>12. ASSUME NEW w \in Windows, Rotate(w) PROVE Inv'
  BY <1>8, <1>12 DEF Rotate
<1>13. ASSUME NEW addrs \in SUBSET Addrs, StoreBlocked(addrs) PROVE Inv'
  BY <1>8, <1>13 DEF StoreBlocked
<1>14. CASE UNCHANGED vars
  BY <1>8, <1>14 DEF vars
<1> QED
  BY <1>1, <1>2, <1>3, <1>4, <1>5, <1>6, <1>7, <1>9, <1>10, <1>11, <1>12,
     <1>13, <1>14 DEF Next, ClientNext

\* The inductive invariant holds in every state: from the order and the
\* whereabouts of the transactions it relates, the safety properties follow.
THEOREM InvCorrect == Spec => []Inv
<1>1. TypeOK /\ Inv /\ [Next]_vars => Inv'
  BY InvStep
<1> QED  BY <1>1, InvInit, TypeCorrect, PTL DEF Spec

\* No protected transaction, fresh or released, is ever part of a batch for a
\* window in which the loaded blocked set has a leader.
THEOREM SafeReleaseCorrect == Spec => []SafeRelease
<1>1. Inv => SafeRelease
  BY DEF Inv
<1> QED  BY <1>1, InvCorrect, PTL

\* The client loses and duplicates nothing before its scheduler exits.
THEOREM ExactlyOnePlaceCorrect == Spec => []ExactlyOnePlace
<1>1. TypeOK /\ Inv => ExactlyOnePlace
  <2> SUFFICES ASSUME TypeOK, Inv PROVE ExactlyOnePlace
    OBVIOUS
  <2> DEFINE places == <<Numbers(channel), Numbers(<<current>>), Numbers(buffered),
                         Numbers(ready), handled>>
             once(messages) == \A i, j \in DOMAIN messages :
                                   messages[i] = messages[j] /\ messages[i] # Flush => i = j
  <2>1. ASSUME NEW x, x \in InChannel \cup InHand \cup InBuffer \cup InBatch \cup handled
        PROVE  x \in Nat
    BY <2>1 DEF Inv, Known, TypeOK
  <2>2. UNION {places[k] : k \in 1..5}
            = InChannel \cup InHand \cup InBuffer \cup InBatch \cup handled
    <3>1. {places[k] : k \in 1..5} = {InChannel, InHand, InBuffer, InBatch, handled}
      BY DEF InChannel, InHand, InBuffer, InBatch
    <3> HIDE DEF places
    <3> QED  BY <3>1, Zenon
  <2>3. pc # "exited" => UNION {places[k] : k \in 1..5} = 1..tpu_enqueued
    <3> HIDE DEF places
    <3> QED  BY <2>2 DEF Inv, Known, Covered
  <2>4. /\ InChannel \cap (InHand \cup InBuffer \cup InBatch \cup handled) = {}
        /\ InHand \cap (InBuffer \cup InBatch \cup handled) = {}
    BY <2>1 DEF Inv, Staged
  <2>5. InBuffer \cap InBatch = {}
    BY DEF Inv, Waiting, Batch
  <2>6. (InBuffer \cup InBatch) \cap handled = {}
    BY <2>1 DEF Inv, Waiting, Batch, SameClass
  <2>7. ASSUME NEW k \in 1..5, NEW l \in 1..5, k < l PROVE places[k] \cap places[l] = {}
    <3>1. /\ places[1] = InChannel /\ places[2] = InHand /\ places[3] = InBuffer
          /\ places[4] = InBatch /\ places[5] = handled
      BY DEF InChannel, InHand, InBuffer, InBatch
    <3> HIDE DEF places
    <3>2. \/ k = 1 /\ l \in {2, 3, 4, 5}
          \/ k = 2 /\ l \in {3, 4, 5}
          \/ k = 3 /\ l \in {4, 5}
          \/ k = 4 /\ l = 5
      BY <2>7
    <3> QED  BY <2>4, <2>5, <2>6, <3>1, <3>2
  <2>8. ASSUME NEW s \in {channel, buffered, ready} PROVE once(s)
    <3> SUFFICES ASSUME NEW i \in DOMAIN s, NEW j \in DOMAIN s,
                        s[i] = s[j], s[i] # Flush, i < j
                 PROVE  FALSE
      <4>1. DOMAIN s \subseteq Nat
        BY LenProperties DEF TypeOK
      <4> QED  BY <4>1
    <3>1. s[i][1] < s[j][1]
      BY DEF Inv, Sorted, Increasing
    <3>2. s[i][1] \in InChannel \cup InBuffer \cup InBatch
      BY NumbersIn DEF InChannel, InBuffer, InBatch
    <3>3. s[i][1] \in Nat
      BY <2>1, <3>2
    <3> QED  BY <3>1, <3>3
  <2> HIDE DEF once, places
  <2>9. /\ pc # "exited" => UNION {places[k] : k \in 1..5} = 1..tpu_enqueued
        /\ \A k, l \in 1..5 : k < l => places[k] \cap places[l] = {}
        /\ once(channel) /\ once(buffered) /\ once(ready)
    BY <2>3, <2>7, <2>8
  <2> QED  BY <2>9 DEF ExactlyOnePlace, places, once
<1> QED  BY <1>1, TypeCorrect, InvCorrect, PTL
\* The statistics of the buffer are exact in every state.
THEOREM BufferAccountingCorrect == Spec => []BufferAccounting
<1>1. Init => BufferAccounting
  BY EmptySeq DEF Init, BufferAccounting
<1>2. TypeOK /\ BufferAccounting /\ [Next]_vars => BufferAccounting'
  <2> SUFFICES ASSUME TypeOK, BufferAccounting, [Next]_vars PROVE BufferAccounting'
    OBVIOUS
  <2>1. CASE send_to_workers
    <3> DEFINE is_blocked == has_blocked_send_target(window, blocked)
    <3>1. buffered' = Buffer(current, is_blocked) /\ MevStats(current, is_blocked)
      BY <2>1 DEF send_to_workers
    <3>2. Len(buffered) \in Nat /\ Len(<< >>) = 0
      BY LenProperties, EmptySeq DEF TypeOK
    <3>3. Withheld(current, is_blocked) =>
              Len(Append(buffered, wire_transaction(current))) = Len(buffered) + 1
      <4>1. Withheld(current, is_blocked) => wire_transaction(current) \in Wires
        BY MessageForm DEF TypeOK, Withheld, decode
      <4> QED  BY <4>1, AppendProperties DEF TypeOK
    <3>4. Withheld(current, is_blocked) => is_blocked
      BY DEF Withheld
    <3> HIDE DEF is_blocked
    <3>5. CASE ~is_blocked
      <4>1. /\ buffered' = << >> /\ mev_buffer_size' = 0
            /\ mev_buffered' = mev_buffered /\ mev_released' = mev_released + Len(buffered)
        BY <3>1, <3>2, <3>4, <3>5 DEF MevStats, Buffer, TypeOK
      <4> QED  BY <3>2, <4>1 DEF BufferAccounting, TypeOK
    <3>6. CASE is_blocked /\ Withheld(current, is_blocked)
      <4>1. /\ Len(buffered') = Len(buffered) + 1 /\ mev_buffer_size' = Len(buffered')
            /\ mev_buffered' = mev_buffered + 1 /\ mev_released' = mev_released
        BY <3>1, <3>3, <3>6 DEF MevStats, Buffer, TypeOK
      <4> QED  BY <3>2, <4>1 DEF BufferAccounting, TypeOK
    <3>7. CASE is_blocked /\ ~Withheld(current, is_blocked)
      <4>1. /\ buffered' = buffered /\ mev_buffer_size' = Len(buffered)
            /\ mev_buffered' = mev_buffered /\ mev_released' = mev_released
        BY <3>1, <3>7 DEF MevStats, Buffer, TypeOK
      <4> QED  BY <4>1 DEF BufferAccounting
    <3> QED  BY <3>5, <3>6, <3>7
  <2>2. CASE UNCHANGED <<buffered, mev_buffered, mev_released, mev_buffer_size>>
    BY <2>2 DEF BufferAccounting
  <2>3. \/ send_to_workers
        \/ UNCHANGED <<buffered, mev_buffered, mev_released, mev_buffer_size>>
    BY DEF Next, ClientNext, Enqueue, Drop, FlushTick, FlushStop, Recv, Offer,
           OfferToNobody, SchedulerExit, WorkerTransmit, WorkerEnd, Rotate, Cancel,
           StoreBlocked, vars, stats
  <2> QED  BY <2>1, <2>2, <2>3
<1> QED  BY <1>1, <1>2, TypeCorrect, PTL DEF Spec

\* The turn that ends is that of the earliest of its class still to be done.
LEMMA TurnInOrder ==
    ASSUME TypeOK, Inv, pc = "send", FinishTurn, UNCHANGED <<protected, tpu_enqueued>>
    PROVE  \E n \in 1..tpu_enqueued : Relay!Relay(n)
<1> DEFINE n == Head(ready)[1]
<1>1. /\ ready # << >> /\ ready \in Seq(Wires)
      /\ Head(ready) \in Wires /\ Head(ready) # Flush
      /\ handled' = handled \cup {n}
      /\ InHand = {}
  BY HeadTailProperties, WireForm, NumbersOne DEF FinishTurn, TypeOK, InHand
<1>2. /\ InBatch = {n} \cup Numbers(Tail(ready))
      /\ \A m \in Numbers(Tail(ready)) : n < m
  <2>1. Numbers(<<Head(ready)>>) = {n}
    BY <1>1, NumbersOne
  <2> QED  BY <1>1, <2>1, NumbersTail DEF InBatch, Inv, Sorted
<1> HIDE DEF n
<1>3. n \in 1..tpu_enqueued /\ tpu_enqueued \in Nat
  BY <1>2 DEF Inv, Known, TypeOK
<1>4. n \notin handled
  BY <1>2, <1>3 DEF Inv, Batch, SameClass
<1>5. ASSUME NEW m \in 1..(n - 1), (m \in protected) <=> (n \in protected)
      PROVE  m \in handled
  <2>1. m \in InChannel \cup InBuffer \cup InBatch \cup handled
    BY <1>1, <1>3 DEF Inv, Covered
  <2>2. m \notin InChannel
    BY <1>2, <1>3 DEF Inv, Staged
  <2>3. m \notin InBatch
    BY <1>2, <1>3
  <2>4. m \notin InBuffer
    BY <1>2, <1>5 DEF Inv, Waiting, Batch
  <2> QED  BY <2>1, <2>2, <2>3, <2>4
<1>6. Relay!Relay(n)
  BY <1>1, <1>4, <1>5 DEF Relay!Relay
<1> QED  BY <1>3, <1>6

\* The client implements the relay: per class it is first-in first-out, and
\* nothing is relayed twice or without having been accepted.
THEOREM Refinement == Spec => RefinesRelay
<1>1. Init => Relay!Init
  BY DEF Init, Relay!Init
<1>2. TypeOK /\ Inv /\ [Next]_vars => [Relay!Next]_(Relay!vars)
  <2> SUFFICES ASSUME TypeOK, Inv, [Next]_vars
               PROVE  Relay!Next \/ UNCHANGED <<tpu_enqueued, protected, handled>>
    BY DEF Relay!vars
  <2> USE DEF historyVars, stats
  <2>1. ASSUME NEW mev_protect \in BOOLEAN, Enqueue(mev_protect) PROVE Relay!Next
    <3>1. Relay!Accept(mev_protect)
      BY <2>1 DEF Enqueue, Relay!Accept
    <3> QED  BY <3>1 DEF Relay!Next
  <2>2. CASE Offer /\ FinishTurn
    <3>1. \E n \in 1..tpu_enqueued : Relay!Relay(n)
      BY <2>2, TurnInOrder DEF Offer
    <3> QED  BY <3>1 DEF Relay!Next
  <2>3. CASE OfferToNobody
    <3>1. \E n \in 1..tpu_enqueued : Relay!Relay(n)
      BY <2>3, TurnInOrder DEF OfferToNobody
    <3> QED  BY <3>1 DEF Relay!Next
  <2>4. \/ \E mev_protect \in BOOLEAN : Enqueue(mev_protect)
        \/ Offer /\ FinishTurn
        \/ OfferToNobody
        \/ UNCHANGED <<tpu_enqueued, protected, handled>>
    BY DEF Next, ClientNext, Drop, FlushTick, FlushStop, Recv, send_to_workers, MevStats,
           Offer, SchedulerExit, WorkerTransmit, WorkerEnd, Rotate, Cancel,
           StoreBlocked, vars
  <2> QED  BY <2>1, <2>2, <2>3, <2>4
<1> QED  BY <1>1, <1>2, TypeCorrect, InvCorrect, PTL DEF Spec, RefinesRelay, Relay!Spec
-------------------------------------------------------------------------------
(* The order in which a leader's worker gets the transactions. *)

\* A worker holds only transactions whose turn is over or going on.
Turns == handled \cup (IF ready = << >> THEN {} ELSE {Head(ready)[1]})
InboxTurns == \A a \in Addrs : \A i \in DOMAIN inbox[a] : inbox[a][i][1] \in Turns

\* Numbers and classes of the transactions in the inboxes stay; only the turn
\* going on can be added to an inbox.
LEMMA TurnsGrow ==
    ASSUME TypeOK, TypeOK', Inv, [Next]_vars
    PROVE  /\ Turns \subseteq Turns'
           /\ Turns \subseteq 1..tpu_enqueued
           /\ \A m, n \in Turns : SameClass(m, n)' <=> SameClass(m, n)
<1> USE DEF schedulerVars, workerVars, historyVars, stats
<1>1. Turns \subseteq 1..tpu_enqueued
  <2>1. ready # << >> => Head(ready)[1] \in InBatch
    <3>1. ready # << >> => Head(ready) \in Wires /\ Head(ready) # Flush
      BY HeadTailProperties, WireForm DEF TypeOK
    <3>2. ready # << >> => Numbers(<<Head(ready)>>) = {Head(ready)[1]}
      BY <3>1, NumbersOne
    <3> QED  BY <3>2, NumbersTail DEF TypeOK, InBatch
  <2> QED  BY <2>1 DEF Turns, Inv, Known
<1>2. \/ UNCHANGED protected
      \/ protected' = protected \cup {tpu_enqueued + 1}
  BY DEF Next, ClientNext, Enqueue, Drop, FlushTick, FlushStop, Recv, send_to_workers,
         Offer, OfferToNobody, SchedulerExit, WorkerTransmit, WorkerEnd, Rotate, Cancel,
         StoreBlocked, vars
<1>3. \A m, n \in Turns : SameClass(m, n)' <=> SameClass(m, n)
  <2>1. \A n \in Turns : n # tpu_enqueued + 1
    BY <1>1 DEF TypeOK
  <2> QED  BY <1>2, <2>1 DEF SameClass
<1>4. Turns \subseteq Turns'
  <2>1. CASE UNCHANGED <<ready, handled>>
    BY <2>1 DEF Turns
  <2>2. CASE ready = << >> /\ UNCHANGED handled
    BY <2>2 DEF Turns
  <2>3. CASE FinishTurn
    BY <2>3 DEF Turns, FinishTurn
  <2>4. \/ UNCHANGED <<ready, handled>>
        \/ ready = << >> /\ UNCHANGED handled
        \/ FinishTurn
    BY DEF Next, ClientNext, Enqueue, Drop, FlushTick, FlushStop, Recv, send_to_workers,
           Offer, OfferToNobody, SchedulerExit, WorkerTransmit, WorkerEnd, Rotate, Cancel,
           StoreBlocked, vars, TypeOK
  <2> QED  BY <2>1, <2>2, <2>3, <2>4
<1> QED  BY <1>1, <1>3, <1>4

\* Each worker gets the transactions of one class in the order in which the
\* client accepted them.
THEOREM WorkerFIFOCorrect == Spec => []WorkerFIFO
<1> DEFINE WInv == InboxTurns /\ WorkerFIFO
<1>1. Init => WInv
  BY DEF Init, InboxTurns, WorkerFIFO
<1>2. TypeOK /\ TypeOK' /\ Inv /\ WInv /\ [Next]_vars => WInv'
  <2> SUFFICES ASSUME TypeOK, TypeOK', Inv, WInv, [Next]_vars,
                      NEW b \in Addrs
               PROVE  /\ \A i \in DOMAIN inbox'[b] : inbox'[b][i][1] \in Turns'
                      /\ \A i, j \in DOMAIN inbox'[b] :
                             i < j /\ SameClass(inbox[b][i][1], inbox[b][j][1])'
                                 => inbox'[b][i][1] <= inbox'[b][j][1]
    BY DEF InboxTurns, WorkerFIFO
  <2> USE DEF schedulerVars, workerVars, historyVars, stats
  <2>1. /\ Turns \subseteq Turns'
        /\ Turns \subseteq 1..tpu_enqueued
        /\ \A m, n \in Turns : SameClass(m, n)' <=> SameClass(m, n)
    BY TurnsGrow
  <2>2. inbox[b] \in Seq(Wires) /\ Len(inbox[b]) \in Nat /\ DOMAIN inbox[b] = 1..Len(inbox[b])
    BY LenProperties DEF TypeOK
  <2>3. CASE inbox'[b] = inbox[b]
    BY <2>1, <2>3 DEF InboxTurns, WorkerFIFO
  <2>4. CASE inbox'[b] = << >>
    BY <2>4
  <2>5. CASE inbox[b] # << >> /\ inbox'[b] = Tail(inbox[b])
    <3>1. /\ DOMAIN inbox'[b] = 1..(Len(inbox[b]) - 1)
          /\ \A i \in 1..(Len(inbox[b]) - 1) : inbox'[b][i] = inbox[b][i + 1]
      BY <2>2, <2>5, HeadTailProperties, LenProperties
    <3>2. \A i \in 1..(Len(inbox[b]) - 1) : i + 1 \in DOMAIN inbox[b]
      BY <2>2
    <3>3. \A i, j \in 1..(Len(inbox[b]) - 1) : i < j => i + 1 < j + 1
      BY <2>2
    <3>4. \A i \in DOMAIN inbox'[b] : inbox'[b][i][1] \in Turns
      BY <3>1, <3>2 DEF InboxTurns
    <3>5. ASSUME NEW i \in DOMAIN inbox'[b], NEW j \in DOMAIN inbox'[b], i < j,
                 SameClass(inbox'[b][i][1], inbox'[b][j][1])
          PROVE  inbox'[b][i][1] <= inbox'[b][j][1]
      <4>1. inbox'[b][i] = inbox[b][i + 1] /\ inbox'[b][j] = inbox[b][j + 1]
        BY <3>1
      <4>2. i + 1 \in DOMAIN inbox[b] /\ j + 1 \in DOMAIN inbox[b] /\ i + 1 < j + 1
        BY <3>1, <3>2, <3>3, <3>5
      <4> QED  BY <3>5, <4>1, <4>2 DEF WorkerFIFO
    <3> QED  BY <2>1, <3>4, <3>5
  <2>6. CASE pc = "send" /\ inbox'[b] = Append(inbox[b], Head(ready))
    <3> DEFINE n == Head(ready)[1]
    <3>1. Head(ready) \in Wires /\ Head(ready) # Flush /\ ready # << >>
      BY <2>6, HeadTailProperties, WireForm DEF TypeOK
    <3>2. n \in Turns /\ n \in InBatch
      <4>1. Numbers(<<Head(ready)>>) = {n}
        BY <3>1, NumbersOne
      <4>2. ready \in Seq(Wires)
        BY DEF TypeOK
      <4>3. Numbers(ready) = {n} \cup Numbers(Tail(ready))
        BY <3>1, <4>1, <4>2, NumbersTail
      <4>4. n \in InBatch
        BY <4>3 DEF InBatch
      <4>5. n \in Turns
        BY <3>1 DEF Turns
      <4> QED  BY <4>4, <4>5
    <3>3. \A m \in Turns : SameClass(m, n) => m <= n
      <4>1. \A m \in Turns : m \in handled \/ m = n
        BY DEF Turns
      <4>2. n \in Nat
        <5> HIDE DEF n
        <5> QED  BY <2>1, <3>2 DEF TypeOK
      <4> QED  BY <2>1, <3>2, <4>1, <4>2 DEF Inv, Batch
    <3>4. /\ DOMAIN inbox'[b] = 1..(Len(inbox[b]) + 1)
          /\ \A i \in 1..Len(inbox[b]) : inbox'[b][i] = inbox[b][i]
          /\ inbox'[b][Len(inbox[b]) + 1] = Head(ready)
      BY <2>2, <2>6, <3>1, AppendProperties, LenProperties
    <3>5. \A i \in 1..(Len(inbox[b]) + 1) :
              i # Len(inbox[b]) + 1 => i \in DOMAIN inbox[b] /\ i \in 1..Len(inbox[b])
      BY <2>2
    <3> HIDE DEF n
    <3>6. ASSUME NEW i \in DOMAIN inbox'[b] PROVE inbox'[b][i][1] \in Turns
      BY <3>2, <3>4, <3>5 DEF InboxTurns, n
    <3>7. ASSUME NEW i \in DOMAIN inbox'[b], NEW j \in DOMAIN inbox'[b], i < j,
                 SameClass(inbox'[b][i][1], inbox'[b][j][1])
          PROVE  inbox'[b][i][1] <= inbox'[b][j][1]
      <4>1. CASE j = Len(inbox[b]) + 1
        BY <3>3, <3>4, <3>6, <3>7, <4>1 DEF n
      <4>2. CASE j # Len(inbox[b]) + 1
        <5>1. i # Len(inbox[b]) + 1
          BY <2>2, <3>4, <3>7, <4>2
        <5> QED  BY <3>4, <3>5, <3>7, <4>2, <5>1 DEF WorkerFIFO
      <4> QED  BY <4>1, <4>2
    <3> QED  BY <2>1, <3>6, <3>7
  <2>7. \/ inbox'[b] = inbox[b]
        \/ inbox'[b] = << >>
        \/ inbox[b] # << >> /\ inbox'[b] = Tail(inbox[b])
        \/ pc = "send" /\ inbox'[b] = Append(inbox[b], Head(ready))
    <3>1. CASE Offer
      BY <3>1 DEF Offer, TypeOK
    <3>2. ASSUME NEW a \in Addrs, WorkerTransmit(a) \/ WorkerEnd(a)
          PROVE  \/ inbox'[b] = inbox[b]
                 \/ inbox'[b] = << >>
                 \/ inbox[b] # << >> /\ inbox'[b] = Tail(inbox[b])
      BY <3>2 DEF WorkerTransmit, WorkerEnd, TypeOK
    <3>3. \/ Offer
          \/ \E a \in Addrs : WorkerTransmit(a) \/ WorkerEnd(a)
          \/ UNCHANGED inbox
      BY DEF Next, ClientNext, Enqueue, Drop, FlushTick, FlushStop, Recv, send_to_workers,
             OfferToNobody, SchedulerExit, Rotate, Cancel, StoreBlocked, vars
    <3> QED  BY <3>1, <3>2, <3>3
  <2> QED  BY <2>3, <2>4, <2>5, <2>6, <2>7
<1>3. WInv => WorkerFIFO
  OBVIOUS
<1> HIDE DEF WInv
<1> QED  BY <1>1, <1>2, <1>3, TypeCorrect, InvCorrect, PTL DEF Spec
===============================================================================
