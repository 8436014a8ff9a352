------------------------ MODULE TransactionStatsProofs ------------------------
(***************************************************************************)
(* The lines of the statistics add up, for any set of counters, any number *)
(* of events and any interleaving of the loads with the threads that count.*)
(***************************************************************************)
EXTENDS SendMetrics, TLAPS

\* A snapshot under way lies between the last one and the counters, since
\* counters only grow.
Between ==
    \A c \in loaded : previous[c] <= total[c] /\ total[c] <= counter[c]

Inv == TypeOK /\ LinesAddUp /\ Between

\* The invariant holds at the start and is kept by every step.
LEMMA InvCorrect == Spec => []Inv
<1>1. Init => Inv
  <2> SUFFICES ASSUME Init PROVE Inv
    OBVIOUS
  <2>1. Zero \in [Counters -> 0..MaxCount] /\ Zero \in [Counters -> Nat]
    BY StatsAssumption DEF StatsAssumption, Zero
  <2>2. TypeOK
    BY <2>1 DEF Init, TypeOK
  <2>3. LinesAddUp /\ Between
    BY StatsAssumption DEF StatsAssumption, Init, LinesAddUp, Between, Zero
  <2> QED
    BY <2>2, <2>3 DEF Inv
<1>2. Inv /\ [Next]_vars => Inv'
  <2> SUFFICES ASSUME Inv, [Next]_vars PROVE Inv'
    OBVIOUS
  <2> USE StatsAssumption DEF StatsAssumption, Inv, TypeOK, LinesAddUp, Between
  <2>1. ASSUME NEW c \in Counters, NEW count \in 1..MaxCount, Record(c, count)
        PROVE  Inv'
    BY <2>1 DEF Record
  <2>2. CASE Tick
    BY <2>2 DEF Tick
  <2>3. ASSUME NEW c \in Counters, Load(c) PROVE Inv'
    BY <2>3 DEF Load
  <2>4. CASE Report
    <3>1. \A c \in Counters : saturating_sub(total[c], previous[c]) = total[c] - previous[c]
      BY <2>4 DEF Report, saturating_sub
    <3>2. \A c \in Counters : logged'[c] = total[c]
      BY <2>4, <3>1 DEF Report
    <3>3. logged' \in [Counters -> Nat]
      BY <2>4, <3>1 DEF Report
    <3> QED
      BY <2>4, <3>2, <3>3 DEF Report, Zero
  <2>5. CASE Stop
    BY <2>5 DEF Stop
  <2>6. CASE Cancel
    BY <2>6 DEF Cancel
  <2>7. CASE UNCHANGED vars
    BY <2>7 DEF vars
  <2> QED
    BY <2>1, <2>2, <2>3, <2>4, <2>5, <2>6, <2>7 DEF Next, ReportNext
<1> QED
  BY <1>1, <1>2, PTL DEF Spec

\* Type correctness of the counters and of the reporting task.
THEOREM TypeCorrect == Spec => []TypeOK
  BY InvCorrect, PTL DEF Inv

\* The growth that `report` logs adds up to the totals it logs, which never
\* run ahead of the counters: torn snapshots lose and invent nothing.
THEOREM LinesAddUpCorrect == Spec => []LinesAddUp
  BY InvCorrect, PTL DEF Inv

\* The exporter of the TPU client, which runs beside the reporting task under
\* the same token, does not disturb it: the two together are a behaviour of
\* the reporting task, so the lines add up there as well.
THEOREM ReportingIsStats == MetricsSpec => Spec /\ []LinesAddUp
<1>1. MetricsInit => Init
  BY DEF MetricsInit
<1>2. [MetricsNext]_<<vars, exportVars>> => [Next]_vars
  BY DEF MetricsNext
<1> QED  BY <1>1, <1>2, LinesAddUpCorrect, PTL DEF MetricsSpec, Spec
===============================================================================
