------------------------------- MODULE Delivery -------------------------------
(***************************************************************************)
(* What each leader's worker is given.  TpuClient with history variables:  *)
(* every step of the client is taken as it is, and Observe only writes     *)
(* down what the worker channels received, over the whole run and during   *)
(* the latest call of send_to_workers that had something to decide.        *)
(***************************************************************************)
EXTENDS TpuClient

\* The scheduler sends to each address once: the crate takes the leaders of
\* the window without repetition.
ASSUME WindowsAssumption ==
    \A w \in Windows : \A k, l \in DOMAIN w : w[k] = w[l] => k = l

VARIABLES
    sent,     \* numbers put into the channel of the worker of an address
    targets,  \* the addresses of this call
    turns,    \* transactions of this call whose turn is over
    given,    \* of these and the present one, how many the worker took
    room,     \* free slots the worker had when the call began
    kept      \* the worker has lived, and the client run, all through the call

callVars == <<targets, turns, given, room, kept>>
dvars == <<vars, sent, callVars>>

DeliveryInit ==
    /\ Init
    /\ sent = [a \in Addrs |-> << >>]
    /\ targets = {}
    /\ turns = 0
    /\ given = [a \in Addrs |-> 0]
    /\ room = [a \in Addrs |-> 0]
    /\ kept = [a \in Addrs |-> FALSE]

\* This step is the beginning of a call: send_to_workers up to its loop.
Begins == pc = "evaluate" /\ pc' # "evaluate"

\* This step puts a transaction into the channel of the worker of a.
Gets(a) == Len(inbox'[a]) > Len(inbox[a])

Observe ==
    /\ sent' = [a \in Addrs |->
                   IF Gets(a) THEN Append(sent[a], inbox'[a][Len(inbox'[a])][1]) ELSE sent[a]]
    /\ targets' = IF Begins THEN {window[k] : k \in DOMAIN window} ELSE targets
    /\ turns' = IF Begins THEN 0
                ELSE IF pc = "send" THEN turns + Len(ready) - Len(ready')
                ELSE turns
    /\ given' = [a \in Addrs |-> IF Begins THEN 0
                                 ELSE IF Gets(a) THEN given[a] + 1
                                 ELSE given[a]]
    /\ room' = IF Begins THEN [a \in Addrs |-> WorkerChannelSize - Len(inbox[a])] ELSE room
    /\ kept' = [a \in Addrs |-> /\ Begins \/ kept[a]
                                /\ worker'[a] = "live"
                                /\ ~cancelled']

DeliveryNext == Next /\ Observe

DeliverySpec == DeliveryInit /\ [][DeliveryNext]_dvars

-------------------------------------------------------------------------------
(* Properties. *)

\* Over the whole run a leader's worker is given each transaction at most
\* once, and each class in the order of acceptance: buffering, releasing,
\* full and vanished workers and changing windows never make the broadcaster
\* repeat a transaction or let it overtake one of its class.
GivenInOrder ==
    \A a \in Addrs : \A k, l \in DOMAIN sent[a] :
        k < l /\ SameClass(sent[a][k], sent[a][l]) => sent[a][k] < sent[a][l]

\* "If we have failed to send a transaction, it will be dropped", but no more
\* than that: of a call's transactions, a leader whose worker lives all
\* through the call is given at least as many as its channel had room for
\* when the call began.  What a leader loses is what exceeds its own room,
\* however many transactions a release lets go at once, and whatever becomes
\* of the workers of the leaders before it in the window.
LossIsOwn ==
    cursor = 1 => \A a \in targets :
        kept[a] => given[a] >= turns \/ given[a] >= room[a]
===============================================================================
