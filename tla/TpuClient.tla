------------------------------- MODULE TpuClient -------------------------------
(***************************************************************************)
(* The path of a transaction from TpuClientNextSender::send_transaction to *)
(* the connection workers: the bounded channel of the TPU client, the task *)
(* that posts a flush message every 400 ms, the connection scheduler that  *)
(* takes messages from the channel, and MevProtectedBroadcaster, which the *)
(* scheduler calls with the leader window of the moment and which withholds*)
(* MEV-protected transactions while a leader of the window is blocked.     *)
(*                                                                         *)
(* The n-th transaction the channel accepts has the wire transaction <<n>>,*)
(* so its number is its identity and its rank; the code never compares     *)
(* transactions, so taking them distinct loses nothing.                    *)
(*                                                                         *)
(* The channel, the scheduler loop, the worker cache and the leader        *)
(* schedule belong to tokio and solana-tpu-client-next and are modelled    *)
(* from how src/src uses them.                                             *)
(***************************************************************************)
EXTENDS TpuPayload, FiniteSets

CONSTANTS
    Addrs,              \* TPU addresses of validators
    Windows,            \* the leader windows the scheduler may be given
    SenderChannelSize,  \* capacity of the client's channel
    WorkerChannelSize,  \* capacity of the channel of one connection worker
    MaxEnqueued,        \* bound: transactions the channel accepts
    MaxDropped          \* bound: transactions the channel refuses

ASSUME ConstantsAssumption ==
    /\ Windows \subseteq Seq(Addrs)
    /\ Windows # {}
    /\ SenderChannelSize \in Nat \ {0}
    /\ WorkerChannelSize \in Nat \ {0}
    /\ MaxEnqueued \in Nat
    /\ MaxDropped \in Nat

VARIABLES
    channel,    \* messages waiting in the client's channel
    flushing,   \* the flush task is running
    cancelled,  \* the cancellation token
    leaders,    \* the window the leader updater returns now
    blocked,    \* MevProtectedBroadcaster.blocked_leaders
    buffered,   \* MevProtectedBroadcaster.buffered_transactions
    pc,         \* where the scheduler is
    current,    \* the message the scheduler took
    window,     \* the leaders it was taken for
    snapshot,   \* blocked_leaders.load() of this call
    ready,      \* the transactions still to be offered in this call
    cursor,     \* the position in window of the next offer
    worker,     \* state of the worker cache's entry for an address
    inbox,      \* channel of the worker of an address
    tpu_enqueued,     \* the counters of transaction_stats that this path
    tpu_dropped,      \* writes
    mev_buffered,
    mev_released,
    mev_buffer_size,
    protected,  \* history: numbers sent with mev_protect
    handled     \* history: numbers whose turn in send_to_workers is over

schedulerVars == <<pc, current, window, snapshot, ready, cursor>>
workerVars    == <<worker, inbox>>
stats         == <<tpu_enqueued, tpu_dropped, mev_buffered, mev_released, mev_buffer_size>>
historyVars   == <<protected, handled>>
vars == <<channel, flushing, cancelled, leaders, blocked, buffered,
          schedulerVars, workerVars, stats, historyVars>>

Init ==
    /\ channel = << >>
    /\ flushing = TRUE
    /\ cancelled = FALSE
    /\ leaders \in Windows
    /\ blocked = {}
    /\ buffered = << >>
    /\ pc = "recv"
    /\ current = Flush
    /\ window = << >>
    /\ snapshot = {}
    /\ ready = << >>
    /\ cursor = 1
    /\ worker = [a \in Addrs |-> "none"]
    /\ inbox = [a \in Addrs |-> << >>]
    /\ tpu_enqueued = 0
    /\ tpu_dropped = 0
    /\ mev_buffered = 0
    /\ mev_released = 0
    /\ mev_buffer_size = 0
    /\ protected = {}
    /\ handled = {}

-------------------------------------------------------------------------------
(* The sending side of the channel. *)

\* TransactionSender::try_send_transaction succeeds: the receiver is alive
\* and a slot is free.
CanSend == pc # "exited" /\ Len(channel) < SenderChannelSize

\* TpuClientNextSender::send_transaction, the channel accepts.  No step of
\* this module reads tpu_enqueued between try_send and its increment, so the
\* two are one step.
Enqueue(mev_protect) ==
    LET tx == tpu_enqueued + 1
    IN  /\ tx <= MaxEnqueued
        /\ CanSend
        /\ channel' = Append(channel, new(<<tx>>, mev_protect))
        /\ tpu_enqueued' = tx
        /\ protected' = IF mev_protect THEN protected \cup {tx} ELSE protected
        /\ UNCHANGED <<flushing, cancelled, leaders, blocked, buffered,
                       schedulerVars, workerVars, tpu_dropped, mev_buffered,
                       mev_released, mev_buffer_size, handled>>

\* TpuClientNextSender::send_transaction, the channel is full or closed.
Drop ==
    /\ tpu_dropped < MaxDropped
    /\ ~CanSend
    /\ tpu_dropped' = tpu_dropped + 1
    /\ UNCHANGED <<channel, flushing, cancelled, leaders, blocked, buffered,
                   schedulerVars, workerVars, tpu_enqueued, mev_buffered,
                   mev_released, mev_buffer_size, historyVars>>

\* The interval of the flush task never fires.
Mutant_FlushTick == FALSE

\* One tick of the flush task.  A refused message is ignored, so the tick
\* then changes nothing.
FlushTick ==
    /\ flushing
    /\ CanSend
    /\ channel' = Append(channel, Flush)
    /\ UNCHANGED <<flushing, cancelled, leaders, blocked, buffered,
                   schedulerVars, workerVars, stats, historyVars>>

FlushStop ==
    /\ flushing
    /\ cancelled
    /\ flushing' = FALSE
    /\ UNCHANGED <<channel, cancelled, leaders, blocked, buffered,
                   schedulerVars, workerVars, stats, historyVars>>

-------------------------------------------------------------------------------
(* MevProtectedBroadcaster. *)

\* Looks at the first leader only.
Mutant_has_blocked_send_target(targets, blocked_leaders) ==
    targets # << >> /\ Head(targets) \in blocked_leaders

has_blocked_send_target(targets, blocked_leaders) ==
    \E i \in DOMAIN targets : targets[i] \in blocked_leaders

\* Withholds every transaction while the slot is blocked.
Mutant_Withheld(encoded, is_blocked) == decode(encoded) /\ is_blocked

\* The message is a protected transaction and the slot is blocked.
Withheld(encoded, is_blocked) ==
    decode(encoded) /\ is_blocked /\ is_mev_protected(encoded)

\* The transaction of the message, when it goes out now.
Fresh(encoded, is_blocked) ==
    IF decode(encoded) /\ ~Withheld(encoded, is_blocked)
    THEN <<wire_transaction(encoded)>>
    ELSE << >>

\* Puts the triggering transaction in front of the ones that waited.
Mutant_Ready(encoded, is_blocked) ==
    Fresh(encoded, is_blocked) \o (IF is_blocked THEN << >> ELSE buffered)

\* What prepare_transactions returns.
Ready(encoded, is_blocked) ==
    (IF is_blocked THEN << >> ELSE buffered) \o Fresh(encoded, is_blocked)

\* Releases the waiting transactions without taking them out.
Mutant_Buffer(encoded, is_blocked) ==
    IF Withheld(encoded, is_blocked)
    THEN Append(buffered, wire_transaction(encoded))
    ELSE buffered

\* What prepare_transactions leaves in buffered_transactions.
Buffer(encoded, is_blocked) ==
    IF ~is_blocked THEN << >>
    ELSE IF Withheld(encoded, is_blocked) THEN Append(buffered, wire_transaction(encoded))
    ELSE buffered

\* Counts a release as one, however many transactions it lets go.
Mutant_MevStats(encoded, is_blocked) ==
    /\ mev_buffered' = mev_buffered + (IF Withheld(encoded, is_blocked) THEN 1 ELSE 0)
    /\ mev_released' = mev_released + (IF is_blocked \/ buffered = << >> THEN 0 ELSE 1)
    /\ mev_buffer_size' = Len(Buffer(encoded, is_blocked))
    /\ UNCHANGED <<tpu_enqueued, tpu_dropped>>

\* record_mev_buffered, record_mev_released and set_mev_buffer_size as
\* prepare_transactions calls them.
MevStats(encoded, is_blocked) ==
    /\ mev_buffered' = mev_buffered + (IF Withheld(encoded, is_blocked) THEN 1 ELSE 0)
    /\ mev_released' = mev_released + (IF is_blocked THEN 0 ELSE Len(buffered))
    /\ mev_buffer_size' = Len(Buffer(encoded, is_blocked))
    /\ UNCHANGED <<tpu_enqueued, tpu_dropped>>

\* The first half of send_to_workers: load the blocked set, decide, and run
\* prepare_transactions under its lock.  Nothing else touches the buffer and
\* there is no await, so this is one step; with nothing to send the call
\* returns and its locals die.
send_to_workers ==
    /\ pc = "evaluate"
    /\ LET is_blocked == has_blocked_send_target(window, blocked)
           idle       == Ready(current, is_blocked) = << >>
       IN  /\ ready' = Ready(current, is_blocked)
           /\ buffered' = Buffer(current, is_blocked)
           /\ MevStats(current, is_blocked)
           /\ pc' = IF idle THEN "recv" ELSE "send"
           /\ snapshot' = IF idle THEN {} ELSE blocked
           /\ window' = IF idle THEN << >> ELSE window
    /\ current' = Flush
    /\ UNCHANGED <<channel, flushing, cancelled, leaders, blocked, cursor,
                   workerVars, historyVars>>

\* WorkersCache::try_send_transaction_to_address.
try_send_transaction_to_address(a) ==
    CASE cancelled                          -> "ShutdownError"
      [] ~cancelled /\ worker[a] = "none"   -> "WorkerNotFound"
      [] ~cancelled /\ worker[a] = "gone"   -> "ReceiverDropped"
      [] OTHER -> IF Len(inbox[a]) < WorkerChannelSize THEN "Ok" ELSE "FullChannel"

\* Goes on with the next transaction where the last one stopped.
Mutant_FinishTurn ==
    /\ ready' = Tail(ready)
    /\ handled' = handled \cup {Head(ready)[1]}
    /\ cursor' = cursor + 1
    /\ IF Len(ready) = 1
       THEN pc' = "recv" /\ snapshot' = {} /\ window' = << >>
       ELSE UNCHANGED <<pc, snapshot, window>>

\* The turn of the first ready transaction is over; after the last one
\* send_to_workers returns and its locals die.
FinishTurn ==
    /\ ready' = Tail(ready)
    /\ handled' = handled \cup {Head(ready)[1]}
    /\ cursor' = 1
    /\ IF Len(ready) = 1
       THEN pc' = "recv" /\ snapshot' = {} /\ window' = << >>
       ELSE UNCHANGED <<pc, snapshot, window>>

\* Gives up the other leaders when one worker refuses the transaction.
Mutant_Offer ==
    /\ pc = "send"
    /\ window # << >>
    /\ LET a      == window[cursor]
           result == try_send_transaction_to_address(a)
       IN  /\ inbox' = IF result = "Ok"
                       THEN [inbox EXCEPT ![a] = Append(@, Head(ready))]
                       ELSE inbox
           /\ worker' = IF result = "ReceiverDropped"
                        THEN [worker EXCEPT ![a] = "none"]
                        ELSE worker
           /\ IF result = "Ok" /\ cursor < Len(window)
              THEN cursor' = cursor + 1 /\ UNCHANGED <<ready, handled, pc, snapshot, window>>
              ELSE FinishTurn
    /\ UNCHANGED <<channel, flushing, cancelled, leaders, blocked, buffered,
                   current, stats, protected>>

\* One iteration of the inner loop of send_to_workers.  Whatever the result,
\* the transaction is not tried again on this address.
Offer ==
    /\ pc = "send"
    /\ window # << >>
    /\ LET a      == window[cursor]
           result == try_send_transaction_to_address(a)
       IN  /\ inbox' = IF result = "Ok"
                       THEN [inbox EXCEPT ![a] = Append(@, Head(ready))]
                       ELSE inbox
           /\ worker' = IF result = "ReceiverDropped"
                        THEN [worker EXCEPT ![a] = "none"]
                        ELSE worker
    /\ \/ /\ cursor < Len(window)
          /\ cursor' = cursor + 1
          /\ UNCHANGED <<ready, handled, pc, snapshot, window>>
       \/ /\ cursor = Len(window)
          /\ FinishTurn
    /\ UNCHANGED <<channel, flushing, cancelled, leaders, blocked, buffered,
                   current, stats, protected>>

\* The inner loop over an empty window does nothing.
OfferToNobody ==
    /\ pc = "send"
    /\ window = << >>
    /\ FinishTurn
    /\ UNCHANGED <<channel, flushing, cancelled, leaders, blocked, buffered,
                   current, workerVars, stats, protected>>

-------------------------------------------------------------------------------
(* The scheduler loop, the workers and the rest of the surroundings. *)

\* The scheduler takes a message, asks for the leaders and makes sure that
\* each of them has a running worker.
Recv ==
    /\ pc = "recv"
    /\ channel # << >>
    /\ current' = Head(channel)
    /\ channel' = Tail(channel)
    /\ window' = leaders
    /\ LET fresh == {a \in Addrs : /\ worker[a] # "live"
                                   /\ \E i \in DOMAIN leaders : leaders[i] = a}
       IN  worker' = [a \in Addrs |-> IF a \in fresh THEN "live" ELSE worker[a]]
    /\ pc' = "evaluate"
    /\ UNCHANGED <<flushing, cancelled, leaders, blocked, buffered, snapshot,
                   ready, cursor, inbox, stats, historyVars>>

\* Stays until the buffer is empty.
Mutant_SchedulerExit ==
    /\ pc = "recv"
    /\ cancelled
    /\ buffered = << >>
    /\ pc' = "exited"
    /\ channel' = << >>
    /\ UNCHANGED <<flushing, cancelled, leaders, blocked, buffered, current,
                   window, snapshot, ready, cursor, workerVars, stats, historyVars>>

\* The scheduler sees the cancellation; the receiver goes and with it what
\* the channel holds.
SchedulerExit ==
    /\ pc = "recv"
    /\ cancelled
    /\ pc' = "exited"
    /\ channel' = << >>
    /\ UNCHANGED <<flushing, cancelled, leaders, blocked, buffered, current,
                   window, snapshot, ready, cursor, workerVars, stats, historyVars>>

\* A worker writes a transaction to its connection.
WorkerTransmit(a) ==
    /\ worker[a] = "live"
    /\ inbox[a] # << >>
    /\ inbox' = [inbox EXCEPT ![a] = Tail(@)]
    /\ UNCHANGED <<channel, flushing, cancelled, leaders, blocked, buffered,
                   schedulerVars, worker, stats, historyVars>>

\* A worker ends (its peer disconnected, its reconnects are used up); the
\* cache keeps the entry until a send finds the receiver dropped.
WorkerEnd(a) ==
    /\ worker[a] = "live"
    /\ worker' = [worker EXCEPT ![a] = "gone"]
    /\ inbox' = [inbox EXCEPT ![a] = << >>]
    /\ UNCHANGED <<channel, flushing, cancelled, leaders, blocked, buffered,
                   schedulerVars, stats, historyVars>>

\* The slot advances and next_leaders answers with another window.
Rotate(next_leaders) ==
    /\ leaders' = next_leaders
    /\ UNCHANGED <<channel, flushing, cancelled, blocked, buffered,
                   schedulerVars, workerVars, stats, historyVars>>

Cancel ==
    /\ ~cancelled
    /\ cancelled' = TRUE
    /\ UNCHANGED <<channel, flushing, leaders, blocked, buffered,
                   schedulerVars, workerVars, stats, historyVars>>

\* The refresh thread publishes a new set of blocked addresses.
StoreBlocked(addrs) ==
    /\ blocked' = addrs
    /\ UNCHANGED <<channel, flushing, cancelled, leaders, buffered,
                   schedulerVars, workerVars, stats, historyVars>>

\* Every step but those of the refresh thread.
ClientNext ==
    \/ \E mev_protect \in BOOLEAN : Enqueue(mev_protect)
    \/ Drop
    \/ FlushTick
    \/ FlushStop
    \/ Recv
    \/ send_to_workers
    \/ Offer
    \/ OfferToNobody
    \/ SchedulerExit
    \/ \E a \in Addrs : WorkerTransmit(a) \/ WorkerEnd(a)
    \/ \E next_leaders \in Windows : Rotate(next_leaders)
    \/ Cancel

Next == ClientNext \/ \E addrs \in SUBSET Addrs : StoreBlocked(addrs)

Spec == Init /\ [][Next]_vars

\* tokio runs every task that can run, so the scheduler and the flush task
\* never stop for ever.  select! polls its branches in random order, so a
\* scheduler that keeps finding both a message and the cancellation takes
\* the cancellation some day.  Nothing is assumed of clients, workers,
\* leaders or the refresh thread.
Fairness ==
    /\ WF_vars(FlushTick)
    /\ WF_vars(Recv)
    /\ WF_vars(send_to_workers)
    /\ WF_vars(Offer \/ OfferToNobody)
    /\ SF_vars(SchedulerExit)

FairSpec == Spec /\ Fairness
-------------------------------------------------------------------------------
(* Properties. *)

\* The numbers of the transactions in a sequence of messages.
Numbers(messages) ==
    {messages[i][1] : i \in {j \in DOMAIN messages : messages[j] # Flush}}

\* The wire transactions of the model, and the messages they travel in.
Wires == {<<n>> : n \in 1..MaxEnqueued}
Messages == {Flush} \cup {new(w, mev_protect) : w \in Wires, mev_protect \in BOOLEAN}

\* The numbers of one class: protected or plain.
SameClass(m, n) == (m \in protected) <=> (n \in protected)

\* The types of the variables; the scheduler holds a message only between
\* taking it and evaluating it, and transactions exactly while it sends.
TypeOK ==
    /\ channel \in Seq(Messages)
    /\ flushing \in BOOLEAN
    /\ cancelled \in BOOLEAN
    /\ leaders \in Windows
    /\ blocked \subseteq Addrs
    /\ buffered \in Seq(Wires)
    /\ pc \in {"recv", "evaluate", "send", "exited"}
    /\ current \in Messages
    /\ window \in Windows \cup {<< >>}
    /\ snapshot \subseteq Addrs
    /\ ready \in Seq(Wires)
    /\ cursor \in Nat
    /\ window # << >> => cursor \in 1..Len(window)
    /\ cursor # 1 => pc = "send"
    /\ ready # << >> <=> pc = "send"
    /\ current # Flush => pc = "evaluate"
    /\ worker \in [Addrs -> {"none", "live", "gone"}]
    /\ inbox \in [Addrs -> Seq(Wires)]
    /\ tpu_enqueued \in 0..MaxEnqueued
    /\ tpu_dropped \in 0..MaxDropped
    /\ mev_buffered \in Nat
    /\ mev_released \in Nat
    /\ mev_buffer_size \in Nat
    /\ protected \subseteq 1..MaxEnqueued
    /\ handled \subseteq 1..MaxEnqueued

\* "A protected batch must not be released if any address it will be sent to
\* belongs to a blocked leader": while protected transactions are going out,
\* whether they waited or not, no leader of the window they go to was in the
\* blocked set this call of send_to_workers loaded.
SafeRelease ==
    (\E n \in Numbers(ready) : n \in protected)
        => \A i \in DOMAIN window : window[i] \notin snapshot

\* Until the scheduler exits, every transaction the channel accepted is in
\* exactly one place and there once: the channel, the scheduler's hands, the
\* buffer, the batch being sent, or done.  Done means that its turn to be
\* offered is over, also when full workers dropped it or there was no leader
\* to offer it to; until then buffering and releasing lose or duplicate none.
ExactlyOnePlace ==
    LET places == <<Numbers(channel), Numbers(<<current>>), Numbers(buffered),
                    Numbers(ready), handled>>
        once(messages) == \A i, j \in DOMAIN messages :
                              messages[i] = messages[j] /\ messages[i] # Flush => i = j
    IN  /\ pc # "exited" => UNION {places[k] : k \in 1..5} = 1..tpu_enqueued
        /\ \A k, l \in 1..5 : k < l => places[k] \cap places[l] = {}
        /\ once(channel) /\ once(buffered) /\ once(ready)

\* The counters of transaction_stats agree with the buffer they describe:
\* what went in minus what came out is what is there.
BufferAccounting ==
    /\ mev_buffered - mev_released = Len(buffered)
    /\ mev_buffer_size = Len(buffered)

\* A leader's worker holds the transactions of one class in the order in
\* which the channel accepted them: a released batch goes before the
\* transaction that triggered its release.
WorkerFIFO ==
    \A a \in Addrs : \A i, j \in DOMAIN inbox[a] :
        i < j /\ SameClass(inbox[a][i][1], inbox[a][j][1])
            => inbox[a][i][1] <= inbox[a][j][1]

\* The path as its callers see it: a relay that is first-in first-out for
\* each of the two classes and lets plain transactions overtake protected
\* ones.
Relay == INSTANCE FifoRelay WITH accepted <- tpu_enqueued, done <- handled

\* Every behaviour of the client is a behaviour of the relay.
RefinesRelay == Relay!Spec

\* The flush message makes the broadcaster "release buffered MEV-protected
\* transactions as soon as it is safe": if from some time on neither the
\* window of the moment nor the one the scheduler has just asked for has a
\* blocked leader, and the client is not cancelled, every accepted
\* transaction gets its turn, even when no further transaction arrives.
Drains ==
    <>[](/\ ~cancelled
         /\ ~has_blocked_send_target(leaders, blocked)
         /\ pc = "evaluate" => ~has_blocked_send_target(window, blocked))
        => \A n \in 1..MaxEnqueued :
               n <= tpu_enqueued ~> n \in handled

\* A plain transaction is never kept back, however long protected ones wait:
\* it gets its turn whatever the blocked set does, unless the client stops.
PlainFlows ==
    \A n \in 1..MaxEnqueued :
        n <= tpu_enqueued /\ n \notin protected
            ~> n \in handled \/ cancelled

\* Cancellation stops the scheduler, also when messages keep arriving.
CancelStops == cancelled ~> pc = "exited"
===============================================================================
