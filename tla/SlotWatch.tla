------------------------------- MODULE SlotWatch -------------------------------
(***************************************************************************)
(* FailFastWebsocketNodeAddressService: the task that reads slot updates   *)
(* from a websocket and forwards the ones that matter to the leader cache  *)
(* (NodeAddressService), its watchdog, and the shutdown of the service.    *)
(* Any failure of the task aborts the whole process, so that Iris never    *)
(* runs on with a leader schedule that no longer advances; a cancellation  *)
(* is meant to end it without one.                                         *)
(*                                                                         *)
(* The n-th notification of the server has number n, which stands for its  *)
(* slot.  The websocket and the leader cache are external and modelled     *)
(* from how the task uses them.                                            *)
(***************************************************************************)
EXTENDS Integers, Sequences

CONSTANTS
    ChannelSize,  \* capacity of the channel to the leader cache
    MaxUpdates    \* bound: notifications of the server

ASSUME SlotWatchAssumption ==
    /\ ChannelSize \in Nat \ {0}
    /\ MaxUpdates \in Nat

VARIABLES
    task,       \* where run_websocket_subscription is
    updates,    \* number of notifications so far
    arrived,    \* notifications not yet read
    ended,      \* the server has closed the subscription
    event,      \* the event being forwarded, 0 when none
    channel,    \* events not yet taken by the leader cache
    consumer,   \* the leader cache: "live" or "stopped"
    taken,      \* the last event it took
    cancelled,  \* the cancellation token
    stopper     \* the caller of LeaderUpdater::stop

vars == <<task, updates, arrived, ended, event, channel, consumer, taken,
          cancelled, stopper>>

\* The kinds of slot updates.
Kinds == {"FirstShredReceived", "Completed", "Other"}

\* FirstShredReceived becomes a Start and Completed an End event; the other
\* kinds become nothing.
map_websocket_update_to_slot_event(update) ==
    update.kind \in {"FirstShredReceived", "Completed"}

\* The task awaits next_notification; when it is "overdue", the 30 s of the
\* watchdog are over and the task has not yet been polled.
Waiting == task \in {"wait", "overdue"}

\* std::process::abort ends every thread.
Running == task # "aborted"

Init ==
    /\ task = "connect"
    /\ updates = 0
    /\ arrived = << >>
    /\ ended = FALSE
    /\ event = 0
    /\ channel = << >>
    /\ consumer = "live"
    /\ taken = 0
    /\ cancelled = FALSE
    /\ stopper = "none"

-------------------------------------------------------------------------------
(* run_websocket_subscription. *)

\* PubsubClient::new and slot_updates_subscribe; an error aborts.  The code
\* limits neither in time and races neither with the token.
Connect ==
    /\ task \in {"connect", "subscribe"}
    /\ \/ task' = IF task = "connect" THEN "subscribe" ELSE "wait"
       \/ task' = "aborted"
    /\ UNCHANGED <<updates, arrived, ended, event, channel, consumer, taken,
                   cancelled, stopper>>

\* next_notification returns an update.  One that maps to no event only
\* resets the watchdog.  timeout looks at the subscription before the clock.
NextNotification ==
    /\ Waiting
    /\ arrived # << >>
    /\ arrived' = Tail(arrived)
    /\ IF map_websocket_update_to_slot_event(Head(arrived))
       THEN task' = "send" /\ event' = Head(arrived).number
       ELSE task' = "wait" /\ UNCHANGED event
    /\ UNCHANGED <<updates, ended, channel, consumer, taken, cancelled, stopper>>

\* next_notification finds the subscription closed, and may do so although
\* the token is set: select! tries its branches in random order.
Closed ==
    /\ Waiting
    /\ arrived = << >>
    /\ ended
    /\ task' = "aborted"
    /\ UNCHANGED <<updates, arrived, ended, event, channel, consumer, taken,
                   cancelled, stopper>>

\* 30 s since next_notification was called.  A task called with the token set,
\* or woken by it, does not wait that long.
TimerElapses ==
    /\ task = "wait"
    /\ arrived = << >>
    /\ ~ended
    /\ ~cancelled
    /\ task' = "overdue"
    /\ UNCHANGED <<updates, arrived, ended, event, channel, consumer, taken,
                   cancelled, stopper>>

\* Waits on after 30 s of silence.
Mutant_Stalled == FALSE

\* timeout reports that the time is over.  As in Closed, select! may take this
\* branch although the token has been set since.
Stalled ==
    /\ task = "overdue"
    /\ arrived = << >>
    /\ ~ended
    /\ task' = "aborted"
    /\ UNCHANGED <<updates, arrived, ended, event, channel, consumer, taken,
                   cancelled, stopper>>

\* next_notification takes the branch of the token.
CancelSeen ==
    /\ Waiting
    /\ cancelled
    /\ task' = "close"
    /\ UNCHANGED <<updates, arrived, ended, event, channel, consumer, taken,
                   cancelled, stopper>>

\* Puts the event in front of the ones that wait.
Mutant_SendOk ==
    /\ task = "send"
    /\ consumer = "live"
    /\ Len(channel) < ChannelSize
    /\ channel' = <<event>> \o channel
    /\ event' = 0
    /\ task' = "wait"
    /\ UNCHANGED <<updates, arrived, ended, consumer, taken, cancelled, stopper>>

SendOk ==
    /\ task = "send"
    /\ consumer = "live"
    /\ Len(channel) < ChannelSize
    /\ channel' = Append(channel, event)
    /\ event' = 0
    /\ task' = "wait"
    /\ UNCHANGED <<updates, arrived, ended, consumer, taken, cancelled, stopper>>

\* Keeps the event in hand when the task is over.
Mutant_SendClosed ==
    /\ task = "send"
    /\ consumer = "stopped"
    /\ task' = IF cancelled THEN "close" ELSE "aborted"
    /\ UNCHANGED <<updates, arrived, ended, event, channel, consumer, taken, cancelled, stopper>>

\* No room for 100 ms: the event is dropped.
SendTimeout ==
    /\ task = "send"
    /\ consumer = "live"
    /\ Len(channel) = ChannelSize
    /\ event' = 0
    /\ task' = "wait"
    /\ UNCHANGED <<updates, arrived, ended, channel, consumer, taken, cancelled, stopper>>

\* The leader cache is gone: the end of the task when Iris shuts down, and
\* an abort otherwise.
SendClosed ==
    /\ task = "send"
    /\ consumer = "stopped"
    /\ task' = IF cancelled THEN "close" ELSE "aborted"
    /\ event' = 0
    /\ UNCHANGED <<updates, arrived, ended, channel, consumer, taken, cancelled, stopper>>

\* Connects again whenever the subscription is over.
Mutant_Close ==
    /\ task = "close"
    /\ task' \in {"connect", "aborted"}
    /\ UNCHANGED <<updates, arrived, ended, event, channel, consumer, taken,
                   cancelled, stopper>>

\* unsubscribe and pubsub_client.shutdown(), without a time limit; an error of
\* the latter aborts.
Close ==
    /\ task = "close"
    /\ task' \in {"done", "aborted"}
    /\ UNCHANGED <<updates, arrived, ended, event, channel, consumer, taken,
                   cancelled, stopper>>

-------------------------------------------------------------------------------
(* The server, the leader cache and the shutdown. *)

Notify(kind) ==
    /\ Waiting \/ task = "send"
    /\ ~ended
    /\ updates < MaxUpdates
    /\ updates' = updates + 1
    /\ arrived' = Append(arrived, [kind |-> kind, number |-> updates + 1])
    /\ UNCHANGED <<task, ended, event, channel, consumer, taken, cancelled, stopper>>

EndSubscription ==
    /\ Waiting \/ task = "send"
    /\ ~ended
    /\ ended' = TRUE
    /\ UNCHANGED <<task, updates, arrived, event, channel, consumer, taken,
                   cancelled, stopper>>

Consume ==
    /\ Running
    /\ consumer = "live"
    /\ channel # << >>
    /\ taken' = Head(channel)
    /\ channel' = Tail(channel)
    /\ UNCHANGED <<task, updates, arrived, ended, event, consumer, cancelled, stopper>>

\* The leader cache ends, on the token or after too many failures.
ConsumerStops ==
    /\ Running
    /\ consumer = "live"
    /\ consumer' = "stopped"
    /\ channel' = << >>
    /\ UNCHANGED <<task, updates, arrived, ended, event, taken, cancelled, stopper>>

Cancel ==
    /\ Running
    /\ ~cancelled
    /\ cancelled' = TRUE
    /\ UNCHANGED <<task, updates, arrived, ended, event, channel, consumer, taken, stopper>>

\* LeaderUpdater::stop, called by a scheduler that saw the token.
StopCalled ==
    /\ Running
    /\ cancelled
    /\ stopper = "none"
    /\ stopper' = "service"
    /\ UNCHANGED <<task, updates, arrived, ended, event, channel, consumer, taken, cancelled>>

\* service.shutdown() returns once the leader cache has ended; its error is
\* logged and the task is then not waited for.
ServiceStopped ==
    /\ Running
    /\ stopper = "service"
    /\ consumer = "stopped"
    /\ stopper' \in {"join", "returned"}
    /\ UNCHANGED <<task, updates, arrived, ended, event, channel, consumer, taken, cancelled>>

\* handle.await.
Joined ==
    /\ stopper = "join"
    /\ task = "done"
    /\ stopper' = "returned"
    /\ UNCHANGED <<task, updates, arrived, ended, event, channel, consumer, taken, cancelled>>

\* The loop over the notifications: each of its awaits has a time limit.
Loop ==
    \/ NextNotification \/ Closed \/ TimerElapses \/ Stalled \/ CancelSeen
    \/ SendOk \/ SendTimeout \/ SendClosed

Next ==
    \/ Connect \/ Loop \/ Close
    \/ \E kind \in Kinds : Notify(kind)
    \/ EndSubscription \/ Consume \/ ConsumerStops \/ Cancel
    \/ StopCalled \/ ServiceStopped \/ Joined

Spec == Init /\ [][Next]_vars

\* tokio runs the loop and its timers, and the caller of stop; the leader
\* cache ends once the token is set.  Connect and Close are not fair: they wait
\* for the server, and a silent one keeps the task there for ever.  Nothing is
\* assumed of the leader cache as long as the token is not set.
Fairness ==
    /\ WF_vars(Loop)
    /\ WF_vars(cancelled /\ ConsumerStops)
    /\ WF_vars(ServiceStopped)
    /\ WF_vars(Joined)

FairSpec == Spec /\ Fairness

-------------------------------------------------------------------------------
(* Properties. *)

\* The types of the variables; the task holds an event exactly while it
\* forwards one.
TypeOK ==
    /\ task \in {"connect", "subscribe", "wait", "overdue", "send", "close", "done", "aborted"}
    /\ updates \in 0..MaxUpdates
    /\ arrived \in Seq([kind : Kinds, number : 1..MaxUpdates])
    /\ ended \in BOOLEAN
    /\ event \in 0..MaxUpdates
    /\ task = "send" <=> event # 0
    /\ channel \in Seq(1..MaxUpdates)
    /\ Len(channel) <= ChannelSize
    /\ consumer \in {"live", "stopped"}
    /\ taken \in 0..MaxUpdates
    /\ cancelled \in BOOLEAN
    /\ stopper \in {"none", "service", "join", "returned"}

\* The leader cache sees slot events in the order of the server and none
\* twice, although events are dropped when it does not keep up: what it took
\* is before what waits, that before the event in hand, that before what has
\* not been read.
SlotOrder ==
    LET queue == channel \o (IF event = 0 THEN << >> ELSE <<event>>)
                         \o [k \in DOMAIN arrived |-> arrived[k].number]
    IN  /\ \A k \in DOMAIN queue : taken < queue[k]
        /\ \A k, l \in DOMAIN queue : k < l => queue[k] < queue[l]

\* Fail fast, once subscribed: when notifications cease for ever (the server
\* sends at most MaxUpdates), the task does not stay in its loop, even if the
\* leader cache takes nothing; it leaves the loop or ends the process.  Before
\* the loop nothing watches: a server that never answers Connect is not noticed.
Watchdog == Waiting \/ task = "send" ~> task \in {"close", "aborted"}

\* The assumption on the server: whatever the task asks it is answered.
Answers ==
    \A await \in {"connect", "subscribe", "close"} : task = await ~> task # await

\* Shutting the service down returns, unless the process is gone already or
\* the server leaves the task without an answer for ever: neither the leader
\* cache nor a full channel nor a late subscription keeps the caller.
StopReturns ==
    Answers => (stopper = "service" ~> stopper = "returned" \/ task = "aborted")

\* The test cancellation_is_not_a_failure: next_notification on a cancelled
\* token reports no failure, which would abort the process.
CancellationIsNotAFailure == [][Waiting /\ task' = "aborted" => ~cancelled]_vars
===============================================================================
