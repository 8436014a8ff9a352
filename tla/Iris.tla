--------------------------------- MODULE Iris ---------------------------------
(***************************************************************************)
(* The TPU client and the refresh thread of the shield, which run in       *)
(* different threads and share the published set of blocked addresses (an  *)
(* ArcSwap) and the cancellation token.  The thread replaces the set       *)
(* between any two steps of the scheduler, in particular between the step  *)
(* that decides about a batch and the steps that send it.                  *)
(***************************************************************************)
EXTENDS TpuClient

CONSTANTS Identities, NoAddr, Tables, Accounts

VARIABLES account, nodes, refresher, fetched, pending, steady

S == INSTANCE Shield

\* The tables and accounts are what the shield takes them to be.
ASSUME IrisAssumption ==
    /\ NoAddr \notin Addrs
    /\ Tables \subseteq [Identities -> Addrs \cup {NoAddr}]
    /\ Accounts \subseteq [len : Nat, kind : 0..255, strategy : 0..255,
                           words : Seq(Identities)]

shieldVars == <<account, nodes, refresher, fetched, pending, steady>>
irisVars == <<vars, shieldVars>>

\* The client's variables but for the published set.
clientVars == <<channel, flushing, cancelled, leaders, buffered,
                schedulerVars, workerVars, stats, historyVars>>

IrisInit == Init /\ S!Init

IrisNext ==
    \/ ClientNext /\ UNCHANGED shieldVars
    \/ (S!Quiet \/ S!Cluster) /\ UNCHANGED vars
    \/ S!StoreBlocked /\ UNCHANGED clientVars

IrisSpec == IrisInit /\ [][IrisNext]_irisVars

\* The addresses among targets at which a denied validator listens.
Reaches(targets, pairs) == \E p \in pairs : \E k \in DOMAIN targets : targets[k] = p[2]

\* When the scheduler decides to send protected transactions, no leader they
\* go to has been denied since before the last successful refresh began: not
\* with a refresh under way, after failed ones, or with the refresh thread
\* gone.
ShieldedRelease ==
    [][(pc = "evaluate" /\ \E n \in Numbers(ready') : n \in protected)
           => ~Reaches(window, steady)]_irisVars

\* "Added an mev protect feature to prevent users from sending transactions to
\* malicious leaders": a protected transaction is not sent to a leader that
\* the policy denies.
DeniedNotReached ==
    (pc = "send" /\ \E n \in Numbers(ready) : n \in protected)
        => ~Reaches(window, S!Denied(nodes, account))
===============================================================================
