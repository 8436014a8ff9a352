--------------------------- MODULE TransactionStats ---------------------------
(***************************************************************************)
(* The counters of transaction_stats and the task `report` that logs, every*)
(* five seconds, how much each of them has grown since the last line and   *)
(* what it is in total.  Any thread adds to any counter at any time, also  *)
(* while the task loads them: it loads one atomic after the other, with    *)
(* Ordering::Relaxed, so a snapshot mixes values of different moments and  *)
(* the loads may happen in any order.                                      *)
(***************************************************************************)
EXTENDS Integers, FiniteSets

CONSTANTS
    Counters,  \* the counters
    MaxCount   \* bound: the value of a counter

ASSUME StatsAssumption == MaxCount \in Nat

VARIABLES
    counter,   \* the atomics
    reporter,  \* where the task is: "wait", "load" or "stopped"
    loaded,    \* the counters already in this snapshot
    total,     \* this snapshot
    previous,  \* the snapshot of the last line
    cancelled, \* the cancellation token
    logged     \* history: sum of the growth logged so far

vars == <<counter, reporter, loaded, total, previous, cancelled, logged>>

Zero == [c \in Counters |-> 0]

Init ==
    /\ counter = Zero
    /\ reporter = "wait"
    /\ loaded = {}
    /\ total = Zero
    /\ previous = Zero
    /\ cancelled = FALSE
    /\ logged = Zero

\* The buffered and released counters grow by the size of a batch, the others
\* by one.
Record(c, count) ==
    /\ counter[c] + count <= MaxCount
    /\ counter' = [counter EXCEPT ![c] = @ + count]
    /\ UNCHANGED <<reporter, loaded, total, previous, cancelled, logged>>

Tick ==
    /\ reporter = "wait"
    /\ reporter' = "load"
    /\ UNCHANGED <<counter, loaded, total, previous, cancelled, logged>>

\* One load of Snapshot::load.
Load(c) ==
    /\ reporter = "load"
    /\ c \notin loaded
    /\ loaded' = loaded \cup {c}
    /\ total' = [total EXCEPT ![c] = counter[c]]
    /\ UNCHANGED <<counter, reporter, previous, cancelled, logged>>

\* u64::saturating_sub
saturating_sub(x, y) == IF x >= y THEN x - y ELSE 0

\* Takes the counters as they are now for the last snapshot.
Mutant_Report ==
    /\ reporter = "load"
    /\ loaded = Counters
    /\ logged' = [c \in Counters |-> logged[c] + saturating_sub(total[c], previous[c])]
    /\ previous' = counter
    /\ loaded' = {}
    /\ total' = Zero
    /\ reporter' = "wait"
    /\ UNCHANGED <<counter, cancelled>>

\* Keeps the snapshot for the next line instead of loading it again.
Mutant_ReportKeeps ==
    /\ reporter = "load"
    /\ loaded = Counters
    /\ logged' = [c \in Counters |-> logged[c] + saturating_sub(total[c], previous[c])]
    /\ previous' = total
    /\ reporter' = "wait"
    /\ UNCHANGED <<counter, loaded, total, cancelled>>

\* total.since(previous), previous = total, and the log line.
Report ==
    /\ reporter = "load"
    /\ loaded = Counters
    /\ logged' = [c \in Counters |-> logged[c] + saturating_sub(total[c], previous[c])]
    /\ previous' = total
    /\ loaded' = {}
    /\ total' = Zero
    /\ reporter' = "wait"
    /\ UNCHANGED <<counter, cancelled>>

\* Goes on after the token is set.
Mutant_Stop == FALSE

\* The token is seen between two lines only.
Stop ==
    /\ reporter = "wait"
    /\ cancelled
    /\ reporter' = "stopped"
    /\ UNCHANGED <<counter, loaded, total, previous, cancelled, logged>>

Cancel ==
    /\ ~cancelled
    /\ cancelled' = TRUE
    /\ UNCHANGED <<counter, reporter, loaded, total, previous, logged>>

ReportNext == Tick \/ (\E c \in Counters : Load(c)) \/ Report

Next ==
    \/ \E c \in Counters, count \in 1..MaxCount : Record(c, count)
    \/ ReportNext
    \/ Stop
    \/ Cancel

Spec == Init /\ [][Next]_vars

\* tokio fires the interval and runs the task; select! takes the token some
\* day when it keeps finding both.
FairSpec == Spec /\ WF_vars(ReportNext) /\ SF_vars(Stop)

-------------------------------------------------------------------------------
(* Properties. *)

\* The types of the variables.
TypeOK ==
    /\ counter \in [Counters -> 0..MaxCount]
    /\ reporter \in {"wait", "load", "stopped"}
    /\ loaded \subseteq Counters
    /\ reporter # "load" => loaded = {}
    /\ total \in [Counters -> 0..MaxCount]
    /\ previous \in [Counters -> 0..MaxCount]
    /\ cancelled \in BOOLEAN
    /\ logged \in [Counters -> Nat]

\* No event is lost between two lines or logged twice, however the loads
\* interleave with the threads that count: the logged growth of a counter
\* adds up to the total of the last line, and that total is never ahead of
\* the counter.
LinesAddUp ==
    \A c \in Counters : logged[c] = previous[c] /\ previous[c] <= counter[c]

\* Every event shows up in a line some day, unless Iris is shut down first.
EventsAreLogged ==
    \A c \in Counters : \A n \in 1..MaxCount :
        counter[c] >= n ~> logged[c] >= n \/ reporter = "stopped"

\* Cancellation ends the task.
CancelStops == cancelled ~> reporter = "stopped"
===============================================================================
