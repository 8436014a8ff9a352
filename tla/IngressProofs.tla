----------------------------- MODULE IngressProofs -----------------------------
(***************************************************************************)
(* Proofs about the two servers, for every number of requests and          *)
(* connections and every capacity of the channel, and about their size     *)
(* limits, for every length and every value of the first two bytes.        *)
(***************************************************************************)
EXTENDS Ingress, DecodeTransaction, SequenceTheorems, FiniteSetTheorems, TLAPS

-------------------------------------------------------------------------------
(* Type correctness. *)

\* The wire transaction and the flag of a message, whatever the wire
\* transaction consists of.
LEMMA PayloadOf ==
    ASSUME NEW S, NEW wire \in Seq(S), NEW mev_protect \in BOOLEAN
    PROVE  /\ decode(new(wire, mev_protect))
           /\ is_mev_protected(new(wire, mev_protect)) <=> mev_protect
           /\ wire_transaction(new(wire, mev_protect)) = wire
<1> DEFINE T == S \cup Nat
           flag == IF mev_protect THEN MEV_PROTECTED ELSE 0
           encoded == Append(wire, flag)
<1>1. flag \in T /\ wire \in Seq(T) /\ Len(wire) \in Nat
  BY SeqMonotonic, LenProperties DEF MEV_PROTECTED
<1>2. /\ encoded \in Seq(T)
      /\ Len(encoded) = Len(wire) + 1
      /\ \A i \in 1..Len(wire) : encoded[i] = wire[i]
      /\ encoded[Len(wire) + 1] = flag
  <2> HIDE DEF flag, T
  <2> QED  BY <1>1, AppendProperties
<1>3. encoded # << >>
  <2> HIDE DEF encoded, T
  <2> QED  BY <1>1, <1>2, EmptySeq
<1>4. (flag % 2 = MEV_PROTECTED) <=> mev_protect
  BY DEF MEV_PROTECTED
<1>5. is_mev_protected(encoded) <=> mev_protect
  <2> HIDE DEF flag, encoded
  <2> QED  BY <1>2, <1>3, <1>4 DEF is_mev_protected, Flush
<1>6. wire_transaction(encoded) = wire
  <2> HIDE DEF encoded, T
  <2>1. \A i \in 1..Len(wire) : encoded[i] \in T
    BY <1>1, <1>2, ElementOfSeq
  <2>2. /\ SubSeq(encoded, 1, Len(wire)) \in Seq(T)
        /\ Len(SubSeq(encoded, 1, Len(wire))) = Len(wire)
        /\ \A i \in 1..Len(wire) : SubSeq(encoded, 1, Len(wire))[i] = encoded[i]
    BY <1>1, <1>2, <2>1, SubSeqProperties
  <2>3. SubSeq(encoded, 1, Len(wire)) = wire
    BY <1>1, <1>2, <2>2, SeqEqual
  <2> QED  BY <1>1, <1>2, <2>3 DEF wire_transaction
<1> QED  BY <1>3, <1>5, <1>6 DEF new, decode, Flush

\* The wire transaction of a request is one of the model, and so is its
\* message.
LEMMA WireOf ==
    ASSUME NEW r \in Requests, NEW mev_protect \in BOOLEAN
    PROVE  /\ Wire(r) \in Wires
           /\ Wire(r) \in Seq(Requests)
           /\ new(Wire(r), mev_protect) \in Messages
<1>1. Wire(r) \in Wires
  BY DEF Wire, Wires
<1>2. Wire(r) \in Seq(Requests)
  BY EmptySeq DEF Wire
<1> QED  BY <1>1, <1>2 DEF Messages

\* Every variable keeps its type in every step of the servers, and the
\* channel its capacity.
THEOREM TypeCorrect == Spec => []TypeOK
<1>1. Init => TypeOK
  <2> SUFFICES ASSUME Init PROVE TypeOK
    OBVIOUS
  <2>1. /\ channel \in Seq(Messages) /\ Len(channel) <= SenderChannelSize
        /\ owner \in Seq(Requests \cup {FlushTask}) /\ Len(owner) = Len(channel)
    BY EmptySeq, IngressAssumption DEF Init, IngressAssumption
  <2>2. /\ body \in [Requests -> QuicBodies \cup RpcBodies \cup {NoBody}]
        /\ pc \in [Requests -> Labels]
        /\ conn \in [Conns -> {"none", "connecting", "open", "closed"}]
        /\ counter \in [Counters -> Nat]
    BY DEF Init, Labels
  <2> QED  BY <2>1, <2>2 DEF Init, TypeOK
<1>2. TypeOK /\ [Next]_vars => TypeOK'
  <2> SUFFICES ASSUME TypeOK, [Next]_vars PROVE TypeOK'
    OBVIOUS
  <2> USE DEF TypeOK
  <2>1. ASSUME NEW k \in Conns, AcceptConnection(k) \/ Connecting(k) \/ ConnectionEnds(k)
        PROVE  TypeOK'
    BY <2>1 DEF AcceptConnection, Connecting, ConnectionEnds
  <2>2. ASSUME NEW k \in Conns, NEW r \in Requests, AcceptUni(k, r) PROVE TypeOK'
    BY <2>2 DEF AcceptUni, Goto, Labels
  <2>3. ASSUME NEW r \in Requests, ReadFails(r) PROVE TypeOK'
    BY <2>3 DEF ReadFails, Goto, Labels, Ended
  <2>4. ASSUME NEW r \in Requests,
               \/ CountReceived(r) \/ CountFlag(r) \/ CountInvalid(r)
               \/ CountEnqueued(r) \/ CountDropped(r)
        PROVE  TypeOK'
    <3>1. counter' \in [Counters -> Nat]
      <4>1. (\E c \in Counters : fetch_add(c)) \/ UNCHANGED counter
        BY <2>4 DEF CountReceived, CountFlag, CountInvalid, CountEnqueued, CountDropped,
                    Counters
      <4> QED  BY <4>1 DEF fetch_add
    <3>2. pc' \in [Requests -> Labels]
      BY <2>4 DEF CountReceived, CountFlag, CountInvalid, CountEnqueued, CountDropped,
                  Goto, Labels, Ended
    <3>3. UNCHANGED <<listening, conn, body, channel, closed, cancelled, owner, taken>>
      BY <2>4 DEF CountReceived, CountFlag, CountInvalid, CountEnqueued, CountDropped
    <3> QED  BY <3>1, <3>2, <3>3
  <2>5. ASSUME NEW m \in Messages, NEW o \in Requests \cup {FlushTask}, CanSend,
               channel' = Append(channel, m), owner' = Append(owner, o)
        PROVE  /\ channel' \in Seq(Messages)
               /\ Len(channel') <= SenderChannelSize
               /\ owner' \in Seq(Requests \cup {FlushTask})
               /\ Len(owner') = Len(channel')
    <3>1. Len(channel) \in Nat /\ SenderChannelSize \in Nat
      BY LenProperties, IngressAssumption DEF IngressAssumption
    <3>2. Len(channel) + 1 <= SenderChannelSize
      BY <2>5, <3>1 DEF CanSend
    <3> QED  BY <2>5, <3>2, AppendProperties
  <2>6. ASSUME NEW r \in Requests, Send(r) PROVE TypeOK'
    <3>1. /\ channel' \in Seq(Messages)
          /\ Len(channel') <= SenderChannelSize
          /\ owner' \in Seq(Requests \cup {FlushTask})
          /\ Len(owner') = Len(channel')
      <4>1. MevProtect(r) \in BOOLEAN
        BY DEF MevProtect
      <4>2. new(Wire(r), MevProtect(r)) \in Messages
        BY <4>1, WireOf
      <4> QED  BY <2>5, <2>6, <4>2 DEF Send
    <3>2. pc' \in [Requests -> Labels]
      BY <2>6 DEF Send, Goto, Labels
    <3>3. UNCHANGED <<listening, conn, body, counter, closed, cancelled, taken>>
      BY <2>6 DEF Send
    <3> QED  BY <3>1, <3>2, <3>3
  <2>7. ASSUME NEW r \in Requests, NEW b \in QuicBodies, ReadToEnd(r, b) PROVE TypeOK'
    BY <2>7 DEF ReadToEnd, Goto, Labels
  <2>8. ASSUME NEW r \in Requests, NEW b \in RpcBodies, CallRpc(r, b) PROVE TypeOK'
    BY <2>8 DEF CallRpc, Goto, Labels
  <2>9. CASE QuicStops \/ RpcStops \/ Cancel
    BY <2>9 DEF QuicStops, RpcStops, Cancel
  <2>10. CASE FlushTick
    <3>1. Flush \in Messages
      BY DEF Messages
    <3>2. /\ channel' \in Seq(Messages)
          /\ Len(channel') <= SenderChannelSize
          /\ owner' \in Seq(Requests \cup {FlushTask})
          /\ Len(owner') = Len(channel')
      BY <2>5, <2>10, <3>1 DEF FlushTick
    <3> QED  BY <2>10, <3>2 DEF FlushTick
  <2>11. CASE Recv
    <3>1. channel # << >> /\ owner # << >>
      BY <2>11, EmptySeq DEF Recv
    <3>2. /\ channel' \in Seq(Messages) /\ Len(channel') = Len(channel) - 1
          /\ owner' \in Seq(Requests \cup {FlushTask}) /\ Len(owner') = Len(owner) - 1
          /\ Head(owner) \in Requests \cup {FlushTask}
      BY <2>11, <3>1, HeadTailProperties DEF Recv
    <3>3. Len(channel') <= SenderChannelSize
      BY <3>2, LenProperties, IngressAssumption DEF IngressAssumption
    <3>4. taken' \subseteq Requests \cup {FlushTask}
      BY <2>11, <3>2 DEF Recv
    <3> QED  BY <2>11, <3>2, <3>3, <3>4 DEF Recv
  <2>12. CASE ReceiverGone
    <3>1. Range(owner) \subseteq Requests \cup {FlushTask}
      BY ElementOfSeq, LenProperties DEF Range
    <3>2. channel' \in Seq(Messages) /\ Len(channel') = 0
          /\ owner' \in Seq(Requests \cup {FlushTask}) /\ Len(owner') = 0
      BY <2>12, EmptySeq DEF ReceiverGone
    <3>3. Len(channel') <= SenderChannelSize
      BY <3>2, IngressAssumption DEF IngressAssumption
    <3> QED  BY <2>12, <3>1, <3>2, <3>3 DEF ReceiverGone
  <2>13. CASE UNCHANGED vars
    BY <2>13 DEF vars
  <2> QED
    BY <2>1, <2>2, <2>3, <2>4, <2>6, <2>7, <2>8, <2>9, <2>10, <2>11, <2>12, <2>13
       DEF Next, Task
<1> QED  BY <1>1, <1>2, PTL DEF Spec

-------------------------------------------------------------------------------
(* Each request goes into the channel once, with what the client asked for. *)

\* The requests in a sequence of owners after one more, and before the first
\* is taken.
LEMMA RangeSteps ==
    ASSUME NEW S, NEW s \in Seq(S)
    PROVE  /\ \A e \in S : Range(Append(s, e)) = Range(s) \cup {e}
           /\ s # << >> => Range(s) = {Head(s)} \cup Range(Tail(s))
<1>1. DOMAIN s = 1..Len(s) /\ Len(s) \in Nat
  BY LenProperties
<1>2. ASSUME NEW e \in S PROVE Range(Append(s, e)) = Range(s) \cup {e}
  <2>1. /\ DOMAIN Append(s, e) = 1..(Len(s) + 1)
        /\ \A i \in 1..Len(s) : Append(s, e)[i] = s[i]
        /\ Append(s, e)[Len(s) + 1] = e
    BY AppendProperties, LenProperties
  <2>2. 1..(Len(s) + 1) = (1..Len(s)) \cup {Len(s) + 1}
    BY <1>1
  <2> QED  BY <1>1, <2>1, <2>2 DEF Range
<1>3. ASSUME s # << >> PROVE Range(s) = {Head(s)} \cup Range(Tail(s))
  <2>1. /\ DOMAIN Tail(s) = 1..(Len(s) - 1)
        /\ \A i \in 1..(Len(s) - 1) : Tail(s)[i] = s[i + 1]
        /\ Head(s) = s[1]
        /\ Len(s) >= 1
    BY <1>1, <1>3, HeadTailProperties, LenProperties, EmptySeq
  <2>2. ASSUME NEW i \in 1..Len(s) PROVE s[i] \in {Head(s)} \cup Range(Tail(s))
    <3>1. CASE i = 1
      BY <2>1, <3>1
    <3>2. CASE i # 1
      <4>1. i - 1 \in 1..(Len(s) - 1) /\ (i - 1) + 1 = i
        BY <1>1, <2>1, <3>2
      <4>2. Tail(s)[i - 1] = s[i]
        BY <2>1, <4>1
      <4> QED  BY <2>1, <4>1, <4>2 DEF Range
    <3> QED  BY <3>1, <3>2
  <2>3. ASSUME NEW i \in 1..(Len(s) - 1) PROVE Tail(s)[i] \in Range(s)
    <3>1. i + 1 \in 1..Len(s)
      BY <1>1
    <3> QED  BY <1>1, <2>1, <3>1 DEF Range
  <2>4. Head(s) \in Range(s)
    BY <1>1, <2>1 DEF Range
  <2> QED  BY <1>1, <2>1, <2>2, <2>3, <2>4 DEF Range
<1> QED  BY <1>2, <1>3

\* No request owns two messages of a sequence.
Once(s) == \A i, j \in DOMAIN s : s[i] = s[j] /\ s[i] # FlushTask => i = j

\* Appending a new owner, or taking the first, leaves every request at most
\* one message.
LEMMA OnceSteps ==
    ASSUME NEW S, NEW s \in Seq(S), Once(s)
    PROVE  /\ \A e \in S : e \notin Range(s) \/ e = FlushTask => Once(Append(s, e))
           /\ s # << >> => /\ Once(Tail(s))
                           /\ Head(s) # FlushTask => Head(s) \notin Range(Tail(s))
<1>1. DOMAIN s = 1..Len(s) /\ Len(s) \in Nat
  BY LenProperties
<1>2. ASSUME NEW e \in S, e \notin Range(s) \/ e = FlushTask PROVE Once(Append(s, e))
  <2> DEFINE t == Append(s, e)
  <2>1. /\ DOMAIN t = 1..(Len(s) + 1)
        /\ \A i \in 1..Len(s) : t[i] = s[i]
        /\ t[Len(s) + 1] = e
    BY AppendProperties, LenProperties
  <2>2. \A i \in 1..Len(s) : s[i] \in Range(s)
    BY <1>1 DEF Range
  <2> HIDE DEF t
  <2>3. ASSUME NEW i \in 1..(Len(s) + 1), NEW j \in 1..(Len(s) + 1),
               t[i] = t[j], t[i] # FlushTask
        PROVE  i = j
    <3>1. CASE i \in 1..Len(s) /\ j \in 1..Len(s)
      BY <1>1, <2>1, <2>3, <3>1 DEF Once
    <3>2. CASE i = Len(s) + 1 /\ j \in 1..Len(s)
      BY <1>2, <2>1, <2>2, <2>3, <3>2
    <3>3. CASE j = Len(s) + 1 /\ i \in 1..Len(s)
      BY <1>2, <2>1, <2>2, <2>3, <3>3
    <3> QED  BY <1>1, <3>1, <3>2, <3>3
  <2>4. Once(t)
    BY <2>1, <2>3 DEF Once
  <2> QED  BY <2>4 DEF t
<1>3. ASSUME s # << >>
      PROVE  Once(Tail(s)) /\ (Head(s) # FlushTask => Head(s) \notin Range(Tail(s)))
  <2> DEFINE t == Tail(s)
  <2>1. /\ DOMAIN t = 1..(Len(s) - 1)
        /\ \A i \in 1..(Len(s) - 1) : t[i] = s[i + 1]
        /\ Head(s) = s[1]
        /\ Len(s) >= 1
    BY <1>1, <1>3, HeadTailProperties, LenProperties, EmptySeq
  <2> HIDE DEF t
  <2>2. \A i \in 1..(Len(s) - 1) : i + 1 \in 1..Len(s)
    BY <1>1
  <2>3. ASSUME NEW i \in 1..(Len(s) - 1), NEW j \in 1..(Len(s) - 1),
               t[i] = t[j], t[i] # FlushTask
        PROVE  i = j
    <3>1. i + 1 = j + 1
      BY <1>1, <2>1, <2>2, <2>3 DEF Once
    <3> QED  BY <3>1
  <2>4. ASSUME Head(s) # FlushTask, NEW i \in 1..(Len(s) - 1), t[i] = Head(s) PROVE FALSE
    <3>1. 1 \in 1..Len(s) /\ s[i + 1] = s[1]
      BY <1>1, <2>1, <2>4
    <3>2. i + 1 = 1
      BY <1>1, <2>1, <2>2, <2>4, <3>1 DEF Once
    <3> QED  BY <3>2
  <2>5. Once(t) /\ (Head(s) # FlushTask => Head(s) \notin Range(t))
    BY <2>1, <2>3, <2>4 DEF Once, Range
  <2> QED  BY <2>5 DEF t
<1> QED  BY <1>2, <1>3

\* What waits in the channel is what its owner asked for.
Recorded ==
    \A i \in DOMAIN channel :
        channel[i] = IF owner[i] = FlushTask THEN Flush
                     ELSE new(Wire(owner[i]), MevProtect(owner[i]))

\* A request is in the channel or taken from it exactly when its task has
\* sent it, and its body is what the message was made from: no step reads a
\* body again once the task is past "received".
Inv == SentOnce /\ Recorded

\* The invariant holds in every reachable state.
THEOREM Invariant == Spec => []Inv
<1>1. Init => Inv
  BY DEF Init, Inv, SentOnce, Recorded, Sent, Range
<1>2. TypeOK /\ TypeOK' /\ Inv /\ [Next]_vars => Inv'
  <2> SUFFICES ASSUME TypeOK, TypeOK', Inv, [Next]_vars PROVE Inv'
    OBVIOUS
  <2> DEFINE Owners == Requests \cup {FlushTask}
  <2> USE IngressAssumption DEF IngressAssumption
  <2>1. /\ owner \in Seq(Owners) /\ channel \in Seq(Messages)
        /\ DOMAIN owner = 1..Len(owner) /\ DOMAIN channel = 1..Len(owner)
        /\ Len(owner) \in Nat
    BY LenProperties DEF TypeOK
  <2>2. \A i \in DOMAIN owner : owner[i] \in Owners
    BY <2>1, ElementOfSeq
  <2>3. Once(owner)
    BY DEF Inv, SentOnce, Once
  <2>4. ASSUME UNCHANGED <<channel, owner, taken>>, Sent' = Sent,
               \A r \in Sent : body'[r] = body[r]
        PROVE  Inv'
    <3>1. SentOnce'
      BY <2>4 DEF Inv, SentOnce
    <3>2. ASSUME NEW i \in DOMAIN channel, owner[i] # FlushTask
          PROVE  body'[owner[i]] = body[owner[i]]
      <4>1. owner[i] \in Range(owner) /\ owner[i] \in Requests
        BY <2>1, <2>2, <3>2 DEF Range
      <4>2. owner[i] \in Sent
        BY <4>1 DEF Inv, SentOnce
      <4> QED  BY <2>4, <4>2
    <3>3. Recorded'
      BY <2>4, <3>2 DEF Inv, Recorded, Wire, MevProtect
    <3> QED  BY <3>1, <3>3 DEF Inv
  <2>5. ASSUME NEW o \in Owners, NEW m, o \notin Sent, UNCHANGED <<taken, body>>,
               m = IF o = FlushTask THEN Flush ELSE new(Wire(o), MevProtect(o)),
               m \in Messages,
               channel' = Append(channel, m), owner' = Append(owner, o),
               Sent' = Sent \cup ({o} \ {FlushTask})
        PROVE  Inv'
    <3>1. Range(owner') = Range(owner) \cup {o}
      BY <2>1, <2>5, RangeSteps
    <3>2. o \in Requests => o \notin Range(owner) \cup taken
      BY <2>5 DEF Inv, SentOnce
    <3>3. Once(owner')
      BY <2>1, <2>3, <2>5, <3>2, OnceSteps
    <3>4. SentOnce'
      <4>1. (Range(owner') \cap Requests \cap taken') = {}
        BY <2>5, <3>1, <3>2 DEF Inv, SentOnce
      <4>2. (Range(owner') \cup taken') \cap Requests = Sent'
        BY <2>5, <3>1 DEF Inv, SentOnce
      <4> QED  BY <3>3, <4>1, <4>2 DEF SentOnce, Once
    <3>5. /\ DOMAIN channel' = 1..(Len(owner) + 1)
          /\ \A i \in 1..Len(owner) : channel'[i] = channel[i] /\ owner'[i] = owner[i]
          /\ channel'[Len(owner) + 1] = m /\ owner'[Len(owner) + 1] = o
      <4>1. Len(channel) = Len(owner)
        BY DEF TypeOK
      <4> QED  BY <2>1, <2>5, <4>1, AppendProperties, LenProperties
    <3>6. \A r : Wire(r)' = Wire(r) /\ MevProtect(r)' = MevProtect(r)
      BY <2>5 DEF Wire, MevProtect
    <3>7. ASSUME NEW i \in 1..(Len(owner) + 1)
          PROVE  channel'[i] = IF owner'[i] = FlushTask THEN Flush
                               ELSE new(Wire(owner'[i]), MevProtect(owner'[i]))
      <4>1. CASE i \in 1..Len(owner)
        BY <2>1, <3>5, <4>1 DEF Inv, Recorded
      <4>2. CASE i = Len(owner) + 1
        BY <2>5, <3>5, <4>2
      <4> QED  BY <2>1, <4>1, <4>2
    <3>8. Recorded'
      BY <2>5, <3>5, <3>7 DEF Recorded, Wire, MevProtect
    <3> QED  BY <3>4, <3>8 DEF Inv
  <2>6. ASSUME NEW k \in Conns,
               AcceptConnection(k) \/ Connecting(k) \/ ConnectionEnds(k)
        PROVE  Inv'
    BY <2>4, <2>6 DEF AcceptConnection, Connecting, ConnectionEnds, Sent
  <2>7. ASSUME NEW r \in Requests, NEW label \in Labels, pc[r] \in Labels,
               Goto(r, label), r \notin Sent, label \notin {"enqueued", "accepted"}
        PROVE  Sent' = Sent
    BY <2>7 DEF Goto, Sent, TypeOK
  <2>8. ASSUME NEW k \in Conns, NEW r \in Requests, AcceptUni(k, r) PROVE Inv'
    <3>1. Sent' = Sent
      BY <2>7, <2>8 DEF AcceptUni, Sent, Labels, TypeOK
    <3> QED  BY <2>4, <2>8, <3>1 DEF AcceptUni
  <2>9. ASSUME NEW r \in Requests, NEW b, ReadToEnd(r, b) \/ CallRpc(r, b) PROVE Inv'
    <3>1. r \notin Sent
      BY <2>9 DEF ReadToEnd, CallRpc, Sent
    <3>2. Sent' = Sent
      BY <2>7, <2>9, <3>1 DEF ReadToEnd, CallRpc, Labels, TypeOK
    <3>3. \A q \in Sent : body'[q] = body[q]
      BY <2>9, <3>1 DEF ReadToEnd, CallRpc, Sent, TypeOK
    <3> QED  BY <2>4, <2>9, <3>2, <3>3 DEF ReadToEnd, CallRpc
  <2>10. ASSUME NEW r \in Requests,
                \/ ReadFails(r) \/ CountReceived(r) \/ CountFlag(r)
                \/ CountInvalid(r) \/ CountDropped(r)
         PROVE  Inv'
    <3>1. r \notin Sent
      BY <2>10 DEF ReadFails, CountReceived, CountFlag, CountInvalid, CountDropped, Sent
    <3>2. \E label \in Labels \ {"enqueued", "accepted"} : Goto(r, label)
      BY <2>10 DEF ReadFails, CountReceived, CountFlag, CountInvalid, CountDropped,
                   Labels, Ended
    <3>3. Sent' = Sent
      BY <2>7, <3>1, <3>2 DEF TypeOK
    <3>4. UNCHANGED <<channel, owner, taken, body>>
      BY <2>10 DEF ReadFails, CountReceived, CountFlag, CountInvalid, CountDropped
    <3> QED  BY <2>4, <3>3, <3>4
  <2>11. ASSUME NEW r \in Requests, CountEnqueued(r) PROVE Inv'
    <3>1. Sent' = Sent
      BY <2>11 DEF CountEnqueued, Goto, Sent, TypeOK
    <3> QED  BY <2>4, <2>11, <3>1 DEF CountEnqueued
  <2>12. ASSUME NEW r \in Requests, Send(r) PROVE Inv'
    <3>1. MevProtect(r) \in BOOLEAN /\ r # FlushTask
      BY DEF MevProtect
    <3>2. new(Wire(r), MevProtect(r)) \in Messages
      BY <3>1, WireOf
    <3>3. r \notin Sent /\ Sent' = Sent \cup {r}
      BY <2>12 DEF Send, Goto, Sent, TypeOK
    <3> QED  BY <2>5, <2>12, <3>1, <3>2, <3>3 DEF Send
  <2>13. CASE QuicStops \/ RpcStops \/ Cancel
    BY <2>4, <2>13 DEF QuicStops, RpcStops, Cancel, Sent
  <2>14. CASE FlushTick
    <3>1. Flush \in Messages /\ FlushTask \notin Sent /\ Sent' = Sent
      BY <2>14 DEF Messages, Sent, FlushTick
    <3> QED  BY <2>5, <2>14, <3>1 DEF FlushTick
  <2>15. CASE Recv
    <3>1. owner # << >> /\ channel # << >>
      BY <2>1, <2>15, EmptySeq DEF Recv, TypeOK
    <3>2. /\ Range(owner) = {Head(owner)} \cup Range(owner')
          /\ Once(owner')
          /\ Head(owner) # FlushTask => Head(owner) \notin Range(owner')
      BY <2>1, <2>3, <2>15, <3>1, RangeSteps, OnceSteps DEF Recv
    <3>3. Sent' = Sent /\ taken' = taken \cup {Head(owner)}
      BY <2>15 DEF Recv, Sent
    <3>4. SentOnce'
      <4>1. (Range(owner') \cap Requests \cap taken') = {}
        BY <3>2, <3>3 DEF Inv, SentOnce
      <4>2. (Range(owner') \cup taken') \cap Requests = Sent'
        BY <3>2, <3>3 DEF Inv, SentOnce
      <4> QED  BY <3>2, <4>1, <4>2 DEF SentOnce, Once
    <3>5. /\ DOMAIN channel' = 1..(Len(owner) - 1)
          /\ \A i \in 1..(Len(owner) - 1) : channel'[i] = channel[i + 1]
                                            /\ owner'[i] = owner[i + 1]
      <4>1. Len(channel) = Len(owner)
        BY DEF TypeOK
      <4> QED  BY <2>1, <2>15, <3>1, <4>1, HeadTailProperties, LenProperties DEF Recv
    <3>6. \A i \in 1..(Len(owner) - 1) : i + 1 \in DOMAIN channel
      BY <2>1
    <3>7. UNCHANGED body
      BY <2>15 DEF Recv
    <3>8. Recorded'
      BY <3>5, <3>6, <3>7 DEF Inv, Recorded, Wire, MevProtect
    <3> QED  BY <3>4, <3>8 DEF Inv
  <2>16. CASE ReceiverGone
    <3>1. Sent' = Sent /\ Range(owner') = {}
      BY <2>16 DEF ReceiverGone, Sent, Range
    <3> QED  BY <2>16, <3>1 DEF ReceiverGone, Inv, SentOnce, Recorded
  <2>17. CASE UNCHANGED vars
    BY <2>4, <2>17 DEF vars, Sent
  <2> QED
    BY <2>6, <2>8, <2>9, <2>10, <2>11, <2>12, <2>13, <2>14, <2>15, <2>16, <2>17
       DEF Next, Task
<1> QED  BY <1>1, <1>2, TypeCorrect, PTL DEF Spec

\* However the tasks, the scheduler and a shutdown interleave, no request is
\* sent twice, none is sent that was refused, and what is sent is in the
\* channel or was taken from it.
THEOREM SentOnceCorrect == Spec => []SentOnce
BY Invariant, PTL DEF Inv

\* For every request, the channel holds its wire transaction and its flag and
\* nothing that could be taken for a flush message, as long as it waits.
THEOREM GenuineCorrect == Spec => []Genuine
<1>1. TypeOK /\ Inv => Genuine
  <2> SUFFICES ASSUME TypeOK, Inv, NEW i \in DOMAIN channel
               PROVE  IF owner[i] = FlushTask THEN ~decode(channel[i])
                      ELSE /\ decode(channel[i])
                           /\ wire_transaction(channel[i]) = Wire(owner[i])
                           /\ is_mev_protected(channel[i]) <=> MevProtect(owner[i])
    BY DEF Genuine
  <2>1. owner[i] # FlushTask => owner[i] \in Requests
    <3>1. i \in 1..Len(owner)
      BY LenProperties DEF TypeOK
    <3> QED  BY <3>1, ElementOfSeq DEF TypeOK
  <2>2. CASE owner[i] = FlushTask
    BY <2>2 DEF Inv, Recorded, decode
  <2>3. CASE owner[i] # FlushTask
    <3>1. channel[i] = new(Wire(owner[i]), MevProtect(owner[i]))
      BY <2>3 DEF Inv, Recorded
    <3>2. MevProtect(owner[i]) \in BOOLEAN /\ Wire(owner[i]) \in Seq(Requests)
      BY <2>1, <2>3, WireOf DEF MevProtect
    <3> QED  BY <2>3, <3>1, <3>2, PayloadOf
  <2> QED  BY <2>2, <2>3
<1> QED  BY <1>1, TypeCorrect, Invariant, PTL

-------------------------------------------------------------------------------
(* The totals of the statistics. *)

\* The tasks between the count of what they received and the count of what
\* became of it.
InFlight == {r \in Requests : pc[r] \in {"flag", "invalid", "send", "enqueued"}}

\* The counts of what became of requests.
Outcomes == {"quic_invalid", "json_rpc_invalid", "tpu_enqueued", "tpu_dropped"}

Received == counter["quic_received"] + counter["json_rpc_received"]
Settled == counter["quic_invalid"] + counter["json_rpc_invalid"]
           + counter["tpu_enqueued"] + counter["tpu_dropped"]

\* What one more of each kind of count does to the two totals.
LEMMA Totals ==
    ASSUME TypeOK
    PROVE  /\ Received \in Nat /\ Settled \in Nat
           /\ \A c \in {"quic_received", "json_rpc_received"} :
                fetch_add(c) => Received' = Received + 1 /\ Settled' = Settled
           /\ \A c \in Outcomes :
                fetch_add(c) => Received' = Received /\ Settled' = Settled + 1
           /\ fetch_add("mev_protected_received") => Received' = Received /\ Settled' = Settled
<1>1. counter \in [Counters -> Nat]
  BY DEF TypeOK
<1>2. Received \in Nat /\ Settled \in Nat
  BY <1>1 DEF Counters, Received, Settled
<1>3. ASSUME NEW c \in {"quic_received", "json_rpc_received"}, fetch_add(c)
      PROVE  Received' = Received + 1 /\ Settled' = Settled
  BY <1>1, <1>3 DEF Counters, Received, Settled, fetch_add
<1>4. ASSUME NEW c \in Outcomes, fetch_add(c)
      PROVE  Received' = Received /\ Settled' = Settled + 1
  BY <1>1, <1>4 DEF Counters, Received, Settled, fetch_add, Outcomes
<1>5. ASSUME fetch_add("mev_protected_received")
      PROVE  Received' = Received /\ Settled' = Settled
  BY <1>1, <1>5 DEF Counters, Received, Settled, fetch_add
<1> QED  BY <1>2, <1>3, <1>4, <1>5

\* For every number of requests, in every interleaving of their tasks with
\* the scheduler and a shutdown, each request counted as received is counted
\* once as invalid, enqueued or dropped, or is still in flight.
THEOREM ConservationCorrect == Spec => []Conservation
<1>1. ASSUME TypeOK
      PROVE  /\ IsFiniteSet(InFlight) /\ Cardinality(InFlight) \in Nat
             /\ Conservation <=> Received = Settled + Cardinality(InFlight)
  <2>1. IsFiniteSet(InFlight)
    BY IngressAssumption, FS_Subset DEF IngressAssumption, InFlight
  <2>2. Cardinality(InFlight) \in Nat
    BY <2>1, FS_CardinalityType
  <2> QED  BY <2>1, <2>2 DEF Conservation, Received, Settled, InFlight
<1>2. Init => Conservation
  <2>1. Init => InFlight = {}
    BY DEF Init, InFlight
  <2>2. Init => Received = 0 /\ Settled = 0
    BY DEF Init, Received, Settled, Counters
  <2>3. Init => Conservation <=> Received = Settled + Cardinality(InFlight)
    BY DEF Conservation, Received, Settled, InFlight
  <2> QED  BY <2>1, <2>2, <2>3, FS_EmptySet
<1>3. TypeOK /\ TypeOK' /\ Conservation /\ [Next]_vars => Conservation'
  <2> SUFFICES ASSUME TypeOK, TypeOK', Conservation, [Next]_vars PROVE Conservation'
    OBVIOUS
  <2>1. /\ IsFiniteSet(InFlight) /\ Cardinality(InFlight) \in Nat
        /\ Received = Settled + Cardinality(InFlight)
        /\ Received \in Nat /\ Settled \in Nat
    BY <1>1, Totals
  <2>2. (Received' = Settled' + Cardinality(InFlight')) => Conservation'
    BY DEF Conservation, Received, Settled, InFlight
  <2>3. ASSUME UNCHANGED counter, InFlight' = InFlight PROVE Conservation'
    BY <2>1, <2>2, <2>3 DEF Received, Settled
  <2>4. ASSUME NEW r \in Requests, CountReceived(r) PROVE Conservation'
    <3>1. r \notin InFlight /\ InFlight' = InFlight \cup {r}
      BY <2>4 DEF CountReceived, Goto, InFlight, TypeOK
    <3>2. Cardinality(InFlight') = Cardinality(InFlight) + 1
      BY <2>1, <3>1, FS_AddElement
    <3>3. Received' = Received + 1 /\ Settled' = Settled
      BY <2>4, Totals DEF CountReceived
    <3> QED  BY <2>1, <2>2, <3>2, <3>3
  <2>5. ASSUME NEW r \in Requests, CountFlag(r) PROVE Conservation'
    <3>1. InFlight' = InFlight
      BY <2>5 DEF CountFlag, Goto, InFlight, TypeOK
    <3>2. Received' = Received /\ Settled' = Settled
      <4>1. CASE fetch_add("mev_protected_received")
        BY <4>1, Totals
      <4>2. CASE UNCHANGED counter
        BY <4>2 DEF Received, Settled
      <4> QED  BY <2>5, <4>1, <4>2 DEF CountFlag
    <3> QED  BY <2>1, <2>2, <3>1, <3>2
  <2>6. ASSUME NEW r \in Requests, CountInvalid(r) \/ CountEnqueued(r) \/ CountDropped(r)
        PROVE  Conservation'
    <3>1. r \in InFlight /\ InFlight' = InFlight \ {r}
      BY <2>6 DEF CountInvalid, CountEnqueued, CountDropped, Goto, InFlight, TypeOK
    <3>2. Cardinality(InFlight') = Cardinality(InFlight) - 1
      BY <2>1, <3>1, FS_RemoveElement
    <3>3. \E c \in Outcomes : fetch_add(c)
      BY <2>6 DEF CountInvalid, CountEnqueued, CountDropped, Outcomes
    <3>4. Received' = Received /\ Settled' = Settled + 1
      BY <3>3, Totals
    <3> QED  BY <2>1, <2>2, <3>2, <3>4
  <2>7. ASSUME NEW r \in Requests, Send(r) PROVE Conservation'
    <3>1. InFlight' = InFlight
      BY <2>7 DEF Send, Goto, InFlight, TypeOK
    <3> QED  BY <2>3, <2>7, <3>1 DEF Send
  <2>8. ASSUME NEW r \in Requests,
               \/ ReadFails(r)
               \/ \E k \in Conns : AcceptUni(k, r)
               \/ \E b : ReadToEnd(r, b) \/ CallRpc(r, b)
        PROVE  Conservation'
    <3>1. InFlight' = InFlight
      BY <2>8 DEF ReadFails, AcceptUni, ReadToEnd, CallRpc, Goto, InFlight, TypeOK
    <3> QED  BY <2>3, <2>8, <3>1 DEF ReadFails, AcceptUni, ReadToEnd, CallRpc
  <2>9. ASSUME NEW k \in Conns,
               AcceptConnection(k) \/ Connecting(k) \/ ConnectionEnds(k)
        PROVE  Conservation'
    BY <2>3, <2>9 DEF AcceptConnection, Connecting, ConnectionEnds, InFlight
  <2>10. CASE QuicStops \/ RpcStops \/ FlushTick \/ Recv \/ ReceiverGone \/ Cancel
    BY <2>3, <2>10 DEF QuicStops, RpcStops, FlushTick, Recv, ReceiverGone, Cancel, InFlight
  <2>11. CASE UNCHANGED vars
    BY <2>3, <2>11 DEF vars, InFlight
  <2> QED
    BY <2>4, <2>5, <2>6, <2>7, <2>8, <2>9, <2>10, <2>11 DEF Next, Task
<1> QED  BY <1>2, <1>3, TypeCorrect, PTL DEF Spec

\* The requests that asked for protection and have passed the count of that.
\* A packet that cannot be decoded never gets there, and asks for nothing.
Counted ==
    {r \in Requests : /\ MevProtect(r)
                      /\ pc[r] \in {"send", "invalid", "enqueued", "accepted",
                                    "rejected", "dropped"}}

FlagsCounted == counter["mev_protected_received"] = Cardinality(Counted)

\* The protected requests are counted once each, over either server and
\* whether or not they are refused later.
THEOREM FlagsCountedCorrect == Spec => []FlagsCounted
<1>1. Init => FlagsCounted
  <2>1. Init => Counted = {} /\ counter["mev_protected_received"] = 0
    BY DEF Init, Counted, Counters
  <2> QED  BY <2>1, FS_EmptySet DEF FlagsCounted
<1>2. TypeOK /\ FlagsCounted /\ [Next]_vars => FlagsCounted'
  <2> SUFFICES ASSUME TypeOK, FlagsCounted, [Next]_vars PROVE FlagsCounted'
    OBVIOUS
  <2>1. ASSUME Counted' = Counted, counter'["mev_protected_received"] = counter["mev_protected_received"]
        PROVE  FlagsCounted'
    BY <2>1 DEF FlagsCounted
  <2>2. ASSUME NEW c \in Counters \ {"mev_protected_received"}, fetch_add(c)
        PROVE  counter'["mev_protected_received"] = counter["mev_protected_received"]
    BY <2>2 DEF fetch_add, TypeOK, Counters
  <2>3. ASSUME NEW r \in Requests, CountReceived(r) PROVE FlagsCounted'
    <3>1. \A q \in Requests : body'[q] = body[q] /\ (q # r => pc'[q] = pc[q])
      BY <2>3 DEF CountReceived, Goto, TypeOK
    <3>2. pc[r] = "received" /\ pc'[r] \in {"flag", "invalid"}
      BY <2>3 DEF CountReceived, Goto, TypeOK
    <3>3. pc'[r] = "invalid" => ~MevProtect(r)
      <4>1. pc'[r] = "invalid" => body[r].via = "quic" /\ ~body[r].valid
        BY <2>3 DEF CountReceived, Goto, TypeOK
      <4>2. body[r] \in QuicBodies \cup RpcBodies \cup {NoBody}
        BY DEF TypeOK
      <4> DEFINE refused == [via |-> "quic", valid |-> FALSE, empty |-> FALSE, mev_protect |-> "None"]
                 packets == [via : {"quic"}, valid : {TRUE}, empty : BOOLEAN,
                             mev_protect : {"true", "false"}]
      <4>3. body[r].via = "quic" /\ ~body[r].valid => body[r].mev_protect = "None"
        <5>1. body[r] = refused => body[r].mev_protect = "None"
          OBVIOUS
        <5>2. body[r] \in packets => body[r].valid
          OBVIOUS
        <5>3. body[r] \in RpcBodies => body[r].via # "quic"
          <6>1. body[r] \in RpcBodies => body[r].via \in {"rpc"}
            BY DEF RpcBodies
          <6> QED  BY <6>1
        <5>4. NoBody.via # "quic"
          <6>1. NoBody.via = "none"
            BY DEF NoBody
          <6> QED  BY <6>1
        <5>5. QuicBodies = {refused} \cup packets
          BY Zenon DEF QuicBodies
        <5> HIDE DEF refused, packets
        <5> QED  BY <4>2, <5>1, <5>2, <5>3, <5>4, <5>5
      <4> QED  BY <4>1, <4>3 DEF MevProtect
    <3>4. Counted' = Counted
      BY <3>1, <3>2, <3>3 DEF Counted, MevProtect
    <3>5. counter'["mev_protected_received"] = counter["mev_protected_received"]
      BY <2>2, <2>3 DEF CountReceived, Counters
    <3> QED  BY <2>1, <3>4, <3>5
  <2>4. ASSUME NEW r \in Requests, CountFlag(r) PROVE FlagsCounted'
    <3>1. /\ \A q \in Requests : body'[q] = body[q] /\ (q # r => pc'[q] = pc[q])
          /\ pc[r] = "flag" /\ pc'[r] \in {"send", "invalid"}
      BY <2>4 DEF CountFlag, Goto, TypeOK
    <3>2. CASE MevProtect(r)
      <4>1. r \notin Counted /\ Counted' = Counted \cup {r}
        BY <3>1, <3>2 DEF Counted, MevProtect
      <4>2. IsFiniteSet(Counted)
        BY IngressAssumption, FS_Subset DEF IngressAssumption, Counted
      <4>3. Cardinality(Counted') = Cardinality(Counted) + 1
        BY <4>1, <4>2, FS_AddElement
      <4>4. counter'["mev_protected_received"] = counter["mev_protected_received"] + 1
        BY <2>4, <3>2 DEF CountFlag, fetch_add, TypeOK, Counters
      <4> QED  BY <4>3, <4>4 DEF FlagsCounted
    <3>3. CASE ~MevProtect(r)
      <4>1. Counted' = Counted
        BY <3>1, <3>3 DEF Counted, MevProtect
      <4> QED  BY <2>1, <2>4, <3>3, <4>1 DEF CountFlag
    <3> QED  BY <3>2, <3>3
  <2>5. ASSUME NEW r \in Requests, CountInvalid(r) \/ CountEnqueued(r) \/ CountDropped(r)
        PROVE  FlagsCounted'
    <3>1. Counted' = Counted
      BY <2>5 DEF CountInvalid, CountEnqueued, CountDropped, Goto, Counted, MevProtect, TypeOK
    <3>2. counter'["mev_protected_received"] = counter["mev_protected_received"]
      BY <2>2, <2>5 DEF CountInvalid, CountEnqueued, CountDropped, Counters
    <3> QED  BY <2>1, <3>1, <3>2
  <2>6. ASSUME NEW r \in Requests, Send(r) PROVE FlagsCounted'
    <3>1. Counted' = Counted
      BY <2>6 DEF Send, Goto, Counted, MevProtect, TypeOK
    <3> QED  BY <2>1, <2>6, <3>1 DEF Send
  <2>7. ASSUME NEW r \in Requests,
               \/ ReadFails(r)
               \/ \E k \in Conns : AcceptUni(k, r)
               \/ \E b : ReadToEnd(r, b) \/ CallRpc(r, b)
        PROVE  FlagsCounted'
    <3>1. /\ \A q \in Requests : q # r => body'[q] = body[q] /\ pc'[q] = pc[q]
          /\ pc[r] \in {"idle", "reading"} /\ pc'[r] \in {"reading", "unread", "received"}
      BY <2>7 DEF ReadFails, AcceptUni, ReadToEnd, CallRpc, Goto, TypeOK
    <3>2. Counted' = Counted
      BY <3>1 DEF Counted, MevProtect
    <3> QED  BY <2>1, <2>7, <3>2 DEF ReadFails, AcceptUni, ReadToEnd, CallRpc
  <2>8. ASSUME NEW k \in Conns,
               AcceptConnection(k) \/ Connecting(k) \/ ConnectionEnds(k)
        PROVE  FlagsCounted'
    BY <2>1, <2>8 DEF AcceptConnection, Connecting, ConnectionEnds, Counted, MevProtect
  <2>9. CASE QuicStops \/ RpcStops \/ FlushTick \/ Recv \/ ReceiverGone \/ Cancel
    BY <2>1, <2>9 DEF QuicStops, RpcStops, FlushTick, Recv, ReceiverGone, Cancel, Counted,
                      MevProtect
  <2>10. CASE UNCHANGED vars
    BY <2>1, <2>10 DEF vars, Counted, MevProtect
  <2> QED  BY <2>3, <2>4, <2>5, <2>6, <2>7, <2>8, <2>9, <2>10 DEF Next, Task
<1> QED  BY <1>1, <1>2, TypeCorrect, PTL DEF Spec

-------------------------------------------------------------------------------
(* The size limits of the servers. *)

\* The types of the constants and of the parts of a transaction.
LEMMA Parts ==
    ASSUME NEW tx \in Transactions
    PROVE  tx.size \in Nat /\ tx.first \in 0..255 /\ tx.second \in 0..255
<1>1. tx.size \in Sizes /\ tx.first \in Bytes /\ tx.second \in Bytes
  BY DEF Transactions
<1>2. Sizes \subseteq Nat /\ Bytes \subseteq 0..255
  BY DecodeAssumption DEF DecodeAssumption
<1> QED  BY <1>1, <1>2

\* The JSON around the longest text fits into a request.
LEMMA OverheadFits == Overhead \in 0..2728
<1>1. 8 * 1024 - 5464 = 2728
  OBVIOUS
<1> QED  BY <1>1, DecodeAssumption DEF DecodeAssumption

\* The two characters of a v1 transaction are never below "gQ", whatever its
\* second byte.
LEMMA V1Prefix ==
    ASSUME NEW tx \in Transactions, IsV1(tx)
    PROVE  LooksLikeV1(Base64(tx))
<1> DEFINE second == IF tx.size > 1 THEN tx.second \div 16 ELSE 0
<1>1. tx.size \in Nat /\ tx.size > 0 /\ tx.first = 129 /\ tx.second \in 0..255
  BY Parts DEF IsV1, V1_PREFIX
<1>2. tx.second \div 16 \in 0..15
  BY <1>1
<1>3. second \in 0..15
  BY <1>2
<1>4. tx.first \div 4 = 32 /\ tx.first % 4 = 1
  BY <1>1
<1>5. Base64Char(32) = 103
  BY DEF Base64Char
<1>6. 16 + second < 26 => Base64Char(16 + second) = 65 + 16 + second
  BY <1>3 DEF Base64Char
<1>7. 16 + second >= 26 => Base64Char(16 + second) = 71 + 16 + second
  BY <1>3 DEF Base64Char
<1>8. Base64Char(16 + second) >= 81
  <2> HIDE DEF second
  <2> QED  BY <1>3, <1>6, <1>7
<1>9. Base64(tx).prefix = <<Base64Char(32), Base64Char(16 + second)>>
  BY <1>4 DEF Base64
<1>10. Base64(tx).len = 4 * ((tx.size + 2) \div 3)
  BY DEF Base64
<1>11. (tx.size + 2) \div 3 >= 1
  BY <1>1
<1>12. Base64(tx).len >= 2
  BY <1>1, <1>10, <1>11
<1> QED
  <2> HIDE DEF second
  <2> QED  BY <1>5, <1>8, <1>9, <1>12
           DEF LooksLikeV1, AtLeast, V1_BASE64_PREFIX_LOWER_BOUND

\* The first character of a legacy or v0 transaction is always below "g".
LEMMA LegacyPrefix ==
    ASSUME NEW tx \in Transactions, IsLegacy(tx)
    PROVE  ~LooksLikeV1(Base64(tx))
<1> DEFINE bits == tx.first \div 4
<1>1. tx.first \in 1..127
  BY DEF IsLegacy
<1>2. bits \in 0..31
  BY <1>1
<1>3. Base64Char(bits) \in 65..102
  <2> HIDE DEF bits
  <2> QED  BY <1>2 DEF Base64Char
<1>4. Base64(tx).prefix[1] = Base64Char(bits)
  BY DEF Base64
<1> QED
  <2> HIDE DEF bits
  <2> QED  BY <1>3, <1>4 DEF LooksLikeV1, AtLeast, V1_BASE64_PREFIX_LOWER_BOUND

\* What a text of the largest legal size is long, in base64 and base58.
LEMMA Lengths ==
    ASSUME NEW n \in Nat
    PROVE  /\ n <= 4096 => 4 * ((n + 2) \div 3) <= 5464
           /\ n <= 1232 => 4 * ((n + 2) \div 3) <= 1644
           /\ n <= 1232 => (n * 5281) \div 3867 + 1 <= 1683
  OBVIOUS

\* For every length and every byte, base64 texts of v1 and of older
\* transactions are taken exactly up to the limits of their versions.
THEOREM Base64ExactCorrect == Base64Exact
<1> SUFFICES ASSUME NEW tx \in Transactions, IsV1(tx) \/ IsLegacy(tx)
             PROVE  ServeRpc(Base64(tx)) = "ok" <=> tx.size <= Limit(tx)
  BY DEF Base64Exact
<1> DEFINE r == Base64(tx)
<1>1. tx.size \in Nat /\ Overhead \in 0..2728
  BY Parts, OverheadFits
<1>2. /\ r.valid /\ r.size = tx.size /\ r.encoding = "base64"
      /\ r.len = 4 * ((tx.size + 2) \div 3)
  BY DEF Base64
<1>3. r.len \in Nat
  BY <1>1, <1>2
<1>4. ServeRpc(r) = IF r.len + Overhead > 8192 THEN "error" ELSE decode_transaction(r)
  BY DEF ServeRpc, MaxRequestBodySize
<1> HIDE DEF r
<1>5. CASE IsV1(tx)
  <2>1. Limits(r) = <<5464, 4096>>
    BY <1>2, <1>5, V1Prefix DEF r, Limits, MAX_BASE64_SIZE, MAX_TRANSACTION_SIZE
  <2>2. tx.size <= 4096 => r.len <= 5464
    BY <1>1, <1>2, Lengths
  <2> QED  BY <1>1, <1>2, <1>3, <1>4, <1>5, <2>1, <2>2
           DEF r, decode_transaction, Limit, MAX_TRANSACTION_SIZE
<1>6. CASE IsLegacy(tx)
  <2>1. Limits(r) = <<1644, 1232>>
    BY <1>2, <1>6, LegacyPrefix DEF r, Limits, MAX_BASE64_LEGACY_SIZE, PACKET_DATA_SIZE
  <2>2. tx.size <= 1232 => r.len <= 1644
    BY <1>1, <1>2, Lengths
  <2>3. ~IsV1(tx)
    BY <1>6 DEF IsV1, IsLegacy, V1_PREFIX
  <2> QED  BY <1>1, <1>2, <1>3, <1>4, <2>1, <2>2, <2>3
           DEF r, decode_transaction, Limit, PACKET_DATA_SIZE
<1> QED  BY <1>5, <1>6

\* For every length and every value, base58 texts are taken exactly up to
\* the size of a packet.
THEOREM Base58ExactCorrect == Base58Exact
<1> SUFFICES ASSUME NEW tx \in Transactions, NEW len \in Base58Lengths(tx)
             PROVE  ServeRpc(Base58(tx, len)) = "ok" <=> tx.size <= PACKET_DATA_SIZE
  BY DEF Base58Exact
<1> DEFINE r == Base58(tx, len)
<1>1. tx.size \in Nat /\ Overhead \in 0..2728
  BY Parts, OverheadFits
<1>2. r.valid /\ r.size = tx.size /\ r.encoding = "base58" /\ r.len = len
  BY DEF Base58
<1>3. ServeRpc(r) = IF r.len + Overhead > 8192 THEN "error" ELSE decode_transaction(r)
  BY DEF ServeRpc, MaxRequestBodySize
<1> HIDE DEF r
<1>4. Limits(r) = <<1683, 1232>>
  BY <1>2 DEF Limits, MAX_BASE58_SIZE, PACKET_DATA_SIZE
<1>5. len \in Int /\ (tx.size <= 1232 => len <= 1683)
  <2> DEFINE low  == IF tx.first = 0 THEN tx.size ELSE ((tx.size - 1) * 5281) \div 3867 + 1
             high == (tx.size * 5281) \div 3867 + 1
  <2>1. low \in Int /\ high \in Int
    BY <1>1
  <2>2. len = 0 \/ len \in low..high
    <3>1. Base58Lengths(tx) = IF tx.size = 0 THEN {0} ELSE low..high
      BY Zenon DEF Base58Lengths
    <3> HIDE DEF low, high
    <3> QED  BY <2>1, <3>1
  <2>3. tx.size <= 1232 => high <= 1683
    BY <1>1, Lengths
  <2> HIDE DEF low, high
  <2> QED  BY <2>1, <2>2, <2>3
<1> QED  BY <1>1, <1>2, <1>3, <1>4, <1>5 DEF r, decode_transaction, PACKET_DATA_SIZE

\* The limit on a QUIC stream leaves room for the packet around every
\* transaction of a legal size.
THEOREM QuicTakesAllCorrect == QuicTakesAll
<1> SUFFICES ASSUME NEW tx \in Transactions, NEW retry \in BOOLEAN, tx.size <= Limit(tx)
             PROVE  ServeQuic(Packet(tx, retry)) = "ok"
  BY DEF QuicTakesAll
<1>1. tx.size \in Nat /\ tx.size <= 4096
  BY Parts DEF Limit, MAX_TRANSACTION_SIZE, PACKET_DATA_SIZE
<1>2. /\ Packet(tx, retry).valid
      /\ Packet(tx, retry).len \in Nat
      /\ Packet(tx, retry).len <= 4160
  BY <1>1 DEF Packet
<1> QED  BY <1>2 DEF ServeQuic, QUIC_MAX_SIZE, MAX_TRANSACTION_SIZE

\* Whatever the bytes and the text, nothing larger than the largest
\* transaction passes decode_transaction.
THEOREM BoundedCorrect == Bounded
<1> SUFFICES ASSUME NEW tx \in Transactions, NEW text \in Texts(tx), ServeRpc(text) = "ok"
             PROVE  text.valid /\ tx.size <= MAX_TRANSACTION_SIZE
  BY DEF Bounded
<1>1. tx.size \in Nat
  BY Parts
<1>2. text.size = tx.size
  BY DEF Texts, Base64, Base58
<1>3. text.valid /\ ~(text.size > Limits(text)[2])
  BY DEF ServeRpc, decode_transaction
<1>4. Limits(text)[2] \in {1232, 4096}
  BY DEF Limits, MAX_TRANSACTION_SIZE, PACKET_DATA_SIZE
<1> QED  BY <1>1, <1>2, <1>3, <1>4 DEF MAX_TRANSACTION_SIZE
===============================================================================
