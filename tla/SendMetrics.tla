------------------------------ MODULE SendMetrics ------------------------------
(***************************************************************************)
(* send_metrics_stats (src/src/tpu_next_client.rs): a task of the TPU      *)
(* client that once a second copies the client's statistics, one atomic    *)
(* after the other, to the gauges of the same names.  It runs in the       *)
(* runtime of the task `report` of TransactionStats and under the same     *)
(* token, but looks at the token only between two rounds.                  *)
(***************************************************************************)
EXTENDS TransactionStats

CONSTANTS
    Fields,  \* the fields of SendTransactionStats that are exported
    MaxSent  \* bound: value of a field

ASSUME MetricsAssumption == MaxSent \in Nat

VARIABLES
    stats,     \* SendTransactionStats
    gauge,     \* the Prometheus gauges
    exporter,  \* "check", "tick", "copy", "ended"
    left       \* the fields this round has still to copy

exportVars == <<stats, gauge, exporter, left>>

MetricsInit ==
    /\ Init
    /\ stats = [f \in Fields |-> 0]
    /\ gauge = [f \in Fields |-> 0]
    /\ exporter = "check"
    /\ left = {}

\* A connection worker counts a success or an error.
Count(f) ==
    /\ stats[f] < MaxSent
    /\ stats' = [stats EXCEPT ![f] = @ + 1]
    /\ UNCHANGED <<gauge, exporter, left>>

\* Does not look at the token.
Mutant_Check ==
    /\ exporter = "check"
    /\ exporter' = "tick"
    /\ UNCHANGED <<stats, gauge, left>>

\* while !cancel.is_cancelled()
Check ==
    /\ exporter = "check"
    /\ exporter' = IF cancelled THEN "ended" ELSE "tick"
    /\ UNCHANGED <<stats, gauge, left>>

\* tick.tick().await: not raced with the token.
SecondOver ==
    /\ exporter = "tick"
    /\ exporter' = "copy"
    /\ left' = Fields
    /\ UNCHANGED <<stats, gauge>>

\* gauge!(..).set(stats.<field>.load(Relaxed)), in any order.
Copy(f) ==
    /\ exporter = "copy"
    /\ f \in left
    /\ gauge' = [gauge EXCEPT ![f] = stats[f]]
    /\ left' = left \ {f}
    /\ exporter' = IF left' = {} THEN "check" ELSE "copy"
    /\ UNCHANGED stats

\* run() returns and drops the runtime, which ends the task where it awaits.
RuntimeDropped ==
    /\ cancelled
    /\ exporter = "tick"
    /\ exporter' = "ended"
    /\ UNCHANGED <<stats, gauge, left>>

Export == Check \/ SecondOver \/ \E f \in Fields : Copy(f)

MetricsNext ==
    \/ Next /\ UNCHANGED exportVars
    \/ (Export \/ RuntimeDropped \/ \E f \in Fields : Count(f)) /\ UNCHANGED vars

\* The tasks run and their intervals fire; when main returns is left open.
MetricsSpec ==
    /\ MetricsInit
    /\ [][MetricsNext]_<<vars, exportVars>>
    /\ WF_vars(ReportNext) /\ SF_vars(Stop)
    /\ WF_exportVars(Export)

-------------------------------------------------------------------------------
(* Properties. *)

\* The exporter ends after the cancellation although it never waits for it:
\* one round later at most.
ExporterStops == cancelled ~> exporter = "ended"
===============================================================================
