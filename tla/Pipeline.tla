------------------------------- MODULE Pipeline -------------------------------
(***************************************************************************)
(* The way of a transaction from a client's request to the workers of the  *)
(* leaders: the servers (Ingress) and the TPU client (TpuClient) with the  *)
(* channel between them.  The two modules describe the same channel, one   *)
(* from the side of the requests and one from the side of the scheduler;   *)
(* a step that touches it is a step of both, and so are the steps of the   *)
(* token.                                                                  *)
(***************************************************************************)
EXTENDS TpuClient

CONSTANTS
    Requests, Conns, FlushTask,
    Bodies  \* bound: what clients send, among the bodies of Ingress

\* What the servers assume of the requests.
ASSUME PipelineAssumption == IsFiniteSet(Requests) /\ FlushTask \notin Requests

VARIABLES
    listening, conn, task, body, counter, inlet, closed, owner, taken,
    source  \* history: the request behind each accepted transaction

I == INSTANCE Ingress WITH pc <- task, channel <- inlet

serverVars == <<listening, conn, task, body, counter, inlet, closed, owner, taken>>
pvars == <<vars, serverVars, source>>

PipelineInit == Init /\ I!Init /\ source = << >>

\* send_transaction as the server and as the client see it.
SendTransaction(r) ==
    \/ /\ I!Send(r) /\ Enqueue(I!MevProtect(r))
       /\ source' = Append(source, r)
    \/ I!CountDropped(r) /\ Drop /\ UNCHANGED source

\* The other steps on the channel and on the token.
Shared ==
    /\ \/ I!FlushTick /\ FlushTick
       \/ I!Recv /\ Recv
       \/ I!ReceiverGone /\ SchedulerExit
       \/ I!Cancel /\ Cancel
    /\ UNCHANGED source

\* Steps within the servers.
Servers ==
    /\ \/ \E k \in Conns : I!AcceptConnection(k) \/ I!Connecting(k) \/ I!ConnectionEnds(k)
       \/ \E k \in Conns, r \in Requests : I!AcceptUni(k, r)
       \/ \E r \in Requests : \/ I!ReadFails(r) \/ I!CountReceived(r) \/ I!CountFlag(r)
                              \/ I!CountInvalid(r) \/ I!CountEnqueued(r)
                              \/ \E b \in Bodies \cap I!QuicBodies : I!ReadToEnd(r, b)
                              \/ \E b \in Bodies \cap I!RpcBodies : I!CallRpc(r, b)
       \/ I!QuicStops
       \/ I!RpcStops
    /\ UNCHANGED <<vars, source>>

\* Steps within the client and its surroundings.
Client ==
    /\ \/ FlushStop \/ send_to_workers \/ Offer \/ OfferToNobody
       \/ \E a \in Addrs : WorkerTransmit(a) \/ WorkerEnd(a)
       \/ \E next_leaders \in Windows : Rotate(next_leaders)
       \/ \E addrs \in SUBSET Addrs : StoreBlocked(addrs)
    /\ UNCHANGED <<serverVars, source>>

PipelineNext ==
    \/ \E r \in Requests : SendTransaction(r)
    \/ Shared
    \/ Servers
    \/ Client

PipelineSpec == PipelineInit /\ [][PipelineNext]_pvars

-------------------------------------------------------------------------------
(* Properties. *)

\* The promise end to end: a transaction whose client asked for protection,
\* over either server, is on its way to the leaders only if none of them was
\* in the set that send_to_workers loaded.  Nothing between the request and
\* that decision, neither the flag byte nor the way through channel and
\* buffer, forgets or swaps the wish.
WishRespected ==
    \A n \in Numbers(ready) :
        I!MevProtect(source[n]) => \A k \in DOMAIN window : window[k] \notin snapshot

\* Nor is protection forced on a client that did not ask for it: only the
\* transactions of clients that did wait in the buffer.
OnlyOnWish == \A n \in Numbers(buffered) : I!MevProtect(source[n])

\* The counters agree at every moment, although different threads write them:
\* no more transactions were buffered than were counted as protected, and no
\* more released than buffered.  This is about the atomics themselves.  A line
\* of the log loads them one after the other, mev_protected_received first, and
\* may show more buffered than protected or more released than buffered.
StatsOrdered ==
    mev_released <= mev_buffered /\ mev_buffered <= counter["mev_protected_received"]
===============================================================================
