-------------------------------- MODULE Ingress --------------------------------
(***************************************************************************)
(* The two servers that take transactions from clients, quic_server and    *)
(* the JSON-RPC method sendTransaction, up to the channel of the TPU       *)
(* client, and the counters of transaction_stats they write.  A request is *)
(* one QUIC stream or one JSON-RPC call and is served by a task of its     *)
(* own; the tasks run in several threads and interleave between any two    *)
(* atomic operations.  When the token is cancelled, the QUIC server's      *)
(* runtime is dropped, which ends a task where it awaits and nowhere else. *)
(*                                                                         *)
(* quinn, jsonrpsee, the channel and the scheduler that empties it are     *)
(* external and modelled from how src/src uses them.                       *)
(***************************************************************************)
EXTENDS TpuPayload, FiniteSets, Functions

CONSTANTS
    Requests,          \* the requests of all clients
    Conns,             \* the QUIC connections of all clients
    FlushTask,         \* owner of the messages of the flush task
    SenderChannelSize  \* capacity of the TPU client's channel

ASSUME IngressAssumption ==
    /\ IsFiniteSet(Requests)
    /\ FlushTask \notin Requests
    /\ SenderChannelSize \in Nat \ {0}

VARIABLES
    listening,  \* the servers that run
    conn,       \* state of a QUIC connection
    pc,         \* where the task of a request is
    body,       \* what the client sent
    counter,    \* the atomics of transaction_stats
    channel,    \* messages waiting in the client's channel
    closed,     \* the receiver of the channel is gone
    cancelled,  \* the cancellation token
    owner,      \* history: the request behind each message of the channel
    taken       \* history: requests whose message left the channel

vars == <<listening, conn, pc, body, counter, channel, closed, cancelled, owner, taken>>

Counters == {"quic_received", "quic_invalid", "json_rpc_received",
             "json_rpc_invalid", "mev_protected_received",
             "tpu_enqueued", "tpu_dropped"}

\* What a client may send.  wincode accepts a packet whose wire transaction
\* is empty; the checks of sendTransaction do not, and its third argument may
\* be missing.  Of what is refused only the flag matters: sendTransaction
\* counts it before it looks at the transaction.
QuicBodies ==
    {[via |-> "quic", valid |-> FALSE, empty |-> FALSE, mev_protect |-> "None"]} \cup
    [via : {"quic"}, valid : {TRUE}, empty : BOOLEAN, mev_protect : {"true", "false"}]
RpcBodies ==
    [via : {"rpc"}, valid : BOOLEAN, empty : {FALSE}, mev_protect : {"true", "false", "None"}]
NoBody == [via |-> "none", valid |-> FALSE, empty |-> FALSE, mev_protect |-> "None"]

\* mev_protect.unwrap_or(false)
MevProtect(r) == body[r].mev_protect = "true"

Wire(r) == IF body[r].empty THEN << >> ELSE <<r>>

\* Where a task is over: the stream was not read, or the request was refused,
\* put into the channel, or dropped because the channel took nothing.
Ended == {"unread", "rejected", "accepted", "dropped"}

Init ==
    /\ listening = {"quic", "rpc"}
    /\ conn = [k \in Conns |-> "none"]
    /\ pc = [r \in Requests |-> "idle"]
    /\ body = [r \in Requests |-> NoBody]
    /\ counter = [c \in Counters |-> 0]
    /\ channel = << >>
    /\ closed = FALSE
    /\ cancelled = FALSE
    /\ owner = << >>
    /\ taken = {}

Goto(r, label) == pc' = [pc EXCEPT ![r] = label]

\* AtomicU64::fetch_add(1) on one of the counters.
fetch_add(c) == counter' = [counter EXCEPT ![c] = @ + 1]

-------------------------------------------------------------------------------
(* The QUIC server. *)

\* quic_server_loop accepts a connection and spawns handle_connection.
AcceptConnection(k) ==
    /\ "quic" \in listening
    /\ conn[k] = "none"
    /\ conn' = [conn EXCEPT ![k] = "connecting"]
    /\ UNCHANGED <<listening, pc, body, counter, channel, closed, cancelled, owner, taken>>

\* connecting.await: the handshake succeeds or handle_connection returns.
Connecting(k) ==
    /\ conn[k] = "connecting"
    /\ \E state \in {"open", "closed"} : conn' = [conn EXCEPT ![k] = state]
    /\ UNCHANGED <<listening, pc, body, counter, channel, closed, cancelled, owner, taken>>

\* conn.accept_uni(): a stream of the client gets a task.
AcceptUni(k, r) ==
    /\ conn[k] = "open"
    /\ pc[r] = "idle"
    /\ Goto(r, "reading")
    /\ UNCHANGED <<listening, conn, body, counter, channel, closed, cancelled, owner, taken>>

\* conn.accept_uni() fails and handle_connection returns; the tasks of the
\* connection's streams go on.
ConnectionEnds(k) ==
    /\ conn[k] = "open"
    /\ conn' = [conn EXCEPT ![k] = "closed"]
    /\ UNCHANGED <<listening, pc, body, counter, channel, closed, cancelled, owner, taken>>

\* read_to_end returns what the client sent.
ReadToEnd(r, b) ==
    /\ pc[r] = "reading"
    /\ body' = [body EXCEPT ![r] = b]
    /\ Goto(r, "received")
    /\ UNCHANGED <<listening, conn, counter, channel, closed, cancelled, owner, taken>>

\* Waits for the end of the stream without a limit.
Mutant_ReadFails(r) == FALSE

\* read_to_end fails, READ_TIMEOUT is over, or the dropped runtime ends the
\* task at this await: the stream is not counted.
ReadFails(r) ==
    /\ pc[r] = "reading"
    /\ Goto(r, "unread")
    /\ UNCHANGED <<listening, conn, body, counter, channel, closed, cancelled, owner, taken>>

\* quic_server_loop returns; handle_connection tasks end at their await.
QuicStops ==
    /\ cancelled
    /\ "quic" \in listening
    /\ listening' = listening \ {"quic"}
    /\ conn' = [k \in Conns |-> "closed"]
    /\ UNCHANGED <<pc, body, counter, channel, closed, cancelled, owner, taken>>

-------------------------------------------------------------------------------
(* The JSON-RPC server. *)

\* jsonrpsee calls send_transaction, which has no await.
CallRpc(r, b) ==
    /\ "rpc" \in listening
    /\ pc[r] = "idle"
    /\ body' = [body EXCEPT ![r] = b]
    /\ Goto(r, "received")
    /\ UNCHANGED <<listening, conn, counter, channel, closed, cancelled, owner, taken>>

\* The server stops by itself; the token is set only after that.
RpcStops ==
    /\ "rpc" \in listening
    /\ listening' = listening \ {"rpc"}
    /\ UNCHANGED <<conn, pc, body, counter, channel, closed, cancelled, owner, taken>>

-------------------------------------------------------------------------------
(* What handle_uni_stream and send_transaction do with a request. *)

\* record_quic_received and the decoding of the packet, or the first half of
\* record_json_rpc_received.
CountReceived(r) ==
    /\ pc[r] = "received"
    /\ \/ /\ body[r].via = "quic"
          /\ fetch_add("quic_received")
          /\ Goto(r, IF body[r].valid THEN "flag" ELSE "invalid")
       \/ /\ body[r].via = "rpc"
          /\ fetch_add("json_rpc_received")
          /\ Goto(r, "flag")
    /\ UNCHANGED <<listening, conn, body, channel, closed, cancelled, owner, taken>>

\* Does not count the protected packets of the QUIC server.
Mutant_CountFlag(r) ==
    /\ pc[r] = "flag"
    /\ IF MevProtect(r) /\ body[r].via = "rpc" THEN fetch_add("mev_protected_received")
                                                ELSE UNCHANGED counter
    /\ Goto(r, IF body[r].valid THEN "send" ELSE "invalid")
    /\ UNCHANGED <<listening, conn, body, channel, closed, cancelled, owner, taken>>

\* record_mev_protected.  The JSON-RPC server checks the encoding, the
\* transaction and its signatures only now.
CountFlag(r) ==
    /\ pc[r] = "flag"
    /\ IF MevProtect(r) THEN fetch_add("mev_protected_received") ELSE UNCHANGED counter
    /\ Goto(r, IF body[r].valid THEN "send" ELSE "invalid")
    /\ UNCHANGED <<listening, conn, body, channel, closed, cancelled, owner, taken>>

\* record_quic_invalid, or record_json_rpc_invalid and the error reply.
CountInvalid(r) ==
    /\ pc[r] = "invalid"
    /\ fetch_add(IF body[r].via = "quic" THEN "quic_invalid" ELSE "json_rpc_invalid")
    /\ Goto(r, "rejected")
    /\ UNCHANGED <<listening, conn, body, channel, closed, cancelled, owner, taken>>

\* Has room for one message too many.
Mutant_CanSend == ~closed /\ Len(channel) <= SenderChannelSize

\* TransactionSender::try_send_transaction succeeds.
CanSend == ~closed /\ Len(channel) < SenderChannelSize

\* May send again what the channel has already accepted.
Mutant_Send(r) ==
    /\ pc[r] = "send"
    /\ CanSend
    /\ channel' = Append(channel, new(Wire(r), MevProtect(r)))
    /\ owner' = Append(owner, r)
    /\ \E label \in {"send", "enqueued"} : Goto(r, label)
    /\ UNCHANGED <<listening, conn, body, counter, closed, cancelled, taken>>

\* TpuClientNextSender::send_transaction, the channel accepts the message.
Send(r) ==
    /\ pc[r] = "send"
    /\ CanSend
    /\ channel' = Append(channel, new(Wire(r), MevProtect(r)))
    /\ owner' = Append(owner, r)
    /\ Goto(r, "enqueued")
    /\ UNCHANGED <<listening, conn, body, counter, closed, cancelled, taken>>

\* record_tpu_enqueued; a JSON-RPC client is told the signature.
CountEnqueued(r) ==
    /\ pc[r] = "enqueued"
    /\ fetch_add("tpu_enqueued")
    /\ Goto(r, "accepted")
    /\ UNCHANGED <<listening, conn, body, channel, closed, cancelled, owner, taken>>

\* Counts a full channel only, not a closed one.
Mutant_CountDropped(r) ==
    /\ pc[r] = "send"
    /\ ~CanSend
    /\ IF closed THEN UNCHANGED counter ELSE fetch_add("tpu_dropped")
    /\ Goto(r, "dropped")
    /\ UNCHANGED <<listening, conn, body, channel, closed, cancelled, owner, taken>>

\* The channel is full or closed: record_tpu_dropped.  A JSON-RPC client is
\* told the signature all the same.
CountDropped(r) ==
    /\ pc[r] = "send"
    /\ ~CanSend
    /\ fetch_add("tpu_dropped")
    /\ Goto(r, "dropped")
    /\ UNCHANGED <<listening, conn, body, channel, closed, cancelled, owner, taken>>

-------------------------------------------------------------------------------
(* The other end of the channel, and the token. *)

FlushTick ==
    /\ CanSend
    /\ channel' = Append(channel, Flush)
    /\ owner' = Append(owner, FlushTask)
    /\ UNCHANGED <<listening, conn, pc, body, counter, closed, cancelled, taken>>

\* The scheduler takes a message.
Recv ==
    /\ channel # << >>
    /\ channel' = Tail(channel)
    /\ owner' = Tail(owner)
    /\ taken' = taken \cup {Head(owner)}
    /\ UNCHANGED <<listening, conn, pc, body, counter, closed, cancelled>>

\* The scheduler ends, and with it what the channel holds.
ReceiverGone ==
    /\ cancelled
    /\ ~closed
    /\ closed' = TRUE
    /\ channel' = << >>
    /\ owner' = << >>
    /\ taken' = taken \cup Range(owner)
    /\ UNCHANGED <<listening, conn, pc, body, counter, cancelled>>

\* run() joins the JSON-RPC thread, whose runtime waits for the calls under
\* way, and cancels the token: nothing else does.
Cancel ==
    /\ ~cancelled
    /\ "rpc" \notin listening
    /\ \A r \in Requests : body[r].via = "rpc" => pc[r] \in Ended
    /\ cancelled' = TRUE
    /\ UNCHANGED <<listening, conn, pc, body, counter, channel, closed, owner, taken>>

\* What the task of a request does by itself.
Task(r) == \/ ReadFails(r) \/ CountReceived(r) \/ CountFlag(r) \/ CountInvalid(r)
           \/ Send(r) \/ CountEnqueued(r) \/ CountDropped(r)

Next ==
    \/ \E k \in Conns : AcceptConnection(k) \/ Connecting(k) \/ ConnectionEnds(k)
    \/ \E k \in Conns, r \in Requests : AcceptUni(k, r)
    \/ \E r \in Requests : \/ Task(r)
                           \/ \E b \in QuicBodies : ReadToEnd(r, b)
                           \/ \E b \in RpcBodies : CallRpc(r, b)
    \/ QuicStops \/ RpcStops
    \/ FlushTick \/ Recv \/ ReceiverGone \/ Cancel

Spec == Init /\ [][Next]_vars

\* tokio runs every task that can run and fires READ_TIMEOUT.  Nothing is
\* assumed of clients, of the scheduler or of the flush task.
FairSpec == Spec /\ \A r \in Requests : WF_vars(Task(r))

-------------------------------------------------------------------------------
(* Properties. *)

Labels == Ended \cup {"idle", "reading", "received", "flag", "invalid", "send", "enqueued"}

\* Requests whose message has been put into the channel.
Sent == {r \in Requests : pc[r] \in {"enqueued", "accepted"}}

\* The messages of the model.
Wires == {<< >>} \cup {<<r>> : r \in Requests}
Messages == {Flush} \cup {new(wire, mev_protect) : wire \in Wires, mev_protect \in BOOLEAN}

\* The types of the variables, and the capacity of the channel.
TypeOK ==
    /\ listening \subseteq {"quic", "rpc"}
    /\ conn \in [Conns -> {"none", "connecting", "open", "closed"}]
    /\ pc \in [Requests -> Labels]
    /\ body \in [Requests -> QuicBodies \cup RpcBodies \cup {NoBody}]
    /\ counter \in [Counters -> Nat]
    /\ channel \in Seq(Messages)
    /\ Len(channel) <= SenderChannelSize
    /\ closed \in BOOLEAN
    /\ cancelled \in BOOLEAN
    /\ owner \in Seq(Requests \cup {FlushTask})
    /\ Len(owner) = Len(channel)
    /\ taken \subseteq Requests \cup {FlushTask}

\* Every request that was counted as received is counted once as invalid,
\* enqueued or dropped, or its task is still at work: the totals of the
\* statistics balance up to the requests in flight, also across a full
\* channel, a closed one and a cancellation.
Conservation ==
    counter["quic_received"] + counter["json_rpc_received"] =
        counter["quic_invalid"] + counter["json_rpc_invalid"]
        + counter["tpu_enqueued"] + counter["tpu_dropped"]
        + Cardinality({r \in Requests : pc[r] \in {"flag", "invalid", "send", "enqueued"}})

\* What waits in the channel is what a client asked for: its wire transaction
\* with its flag, absent meaning plain, and no request, not even an empty
\* packet, can be taken for a flush message.
Genuine ==
    \A i \in DOMAIN channel :
        LET r == owner[i]
        IN  IF r = FlushTask
            THEN ~decode(channel[i])
            ELSE /\ decode(channel[i])
                 /\ wire_transaction(channel[i]) = Wire(r)
                 /\ is_mev_protected(channel[i]) <=> MevProtect(r)

\* A request goes into the channel at most once, and is in it or behind it
\* exactly when its task went on after the channel accepted it: one that is
\* refused as invalid, dropped or not read is never sent.  It says nothing of
\* replies: a JSON-RPC client is told the signature also when its transaction
\* was dropped.
SentOnce ==
    /\ Range(owner) \cap Requests \cap taken = {}
    /\ (Range(owner) \cup taken) \cap Requests = Sent
    /\ \A i, j \in DOMAIN owner : owner[i] = owner[j] /\ owner[i] # FlushTask => i = j

\* Every request a server has begun to serve comes to an end, whatever the
\* client does after it opened the stream, whether or not anyone empties the
\* channel, and also when Iris is shut down under way.
EveryRequestEnds ==
    \A r \in Requests :
        pc[r] # "idle" ~> pc[r] \in Ended
===============================================================================
