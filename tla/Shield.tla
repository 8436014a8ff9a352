-------------------------------- MODULE Shield --------------------------------
(***************************************************************************)
(* The refresh thread of MevProtectedBroadcaster::run and the Yellowstone  *)
(* shield provider it calls.  Every ten minutes the thread asks an RPC     *)
(* node first for the cluster's node table and then for the account of the *)
(* shield policy, and publishes the TPU addresses of the identities that   *)
(* the policy denies.  The two answers are not taken at one moment: the    *)
(* table and the policy may change before, between and after the calls,    *)
(* and each call, or both together after 10 s, may fail.                   *)
(***************************************************************************)
EXTENDS Integers, Sequences, FiniteSets

CONSTANTS
    Identities,  \* validator identities
    Addrs,       \* TPU QUIC addresses
    NoAddr,      \* the tpu_quic of a node that publishes none
    Tables,      \* the node tables the cluster may have
    Accounts     \* the contents the policy account may have

\* An account is its length in bytes, its first two bytes, and the 32-byte
\* words that follow the header of its kind; the last word may be cut short.
ASSUME ShieldAssumption ==
    /\ NoAddr \notin Addrs
    /\ Tables \subseteq [Identities -> Addrs \cup {NoAddr}]
    /\ Accounts \subseteq [len : Nat, kind : 0..255, strategy : 0..255,
                           words : Seq(Identities)]

VARIABLES
    account,    \* the policy account, as the RPC node serves it now
    nodes,      \* the node table, as the RPC node serves it now
    refresher,  \* where the refresh thread is
    fetched,    \* the node table it holds while it waits for the account
    blocked,    \* the published set, blocked_leaders
    cancelled,  \* the cancellation token
    pending,    \* history: pairs denied ever since this refresh began
    steady      \* history: pairs denied ever since the last good one began

shieldVars == <<account, nodes, refresher, fetched, pending, steady>>
vars == <<shieldVars, blocked, cancelled>>

-------------------------------------------------------------------------------
(* The policy account. *)

\* Policy::LEN and PolicyV2::LEN, the lengths of the headers.
Policy_LEN == 7
PolicyV2_LEN == 39

\* The header that data[0] chooses.
LEN(kind) == IF kind = 0 THEN Policy_LEN ELSE PolicyV2_LEN

\* data[0] of an empty account.
Panics(data) == data.len = 0

\* get_blocked_identities returns Ok: a known kind, a whole header, the deny
\* strategy.  An allow list is refused.
Readable(data) ==
    /\ data.len > 0
    /\ data.kind \in {0, 1}
    /\ data.len >= LEN(data.kind)
    /\ data.strategy = 0

\* try_deserialize_identities: the whole 32-byte chunks after the header,
\* whatever identities_len says.
try_deserialize_identities(data) ==
    {data.words[i] : i \in {k \in DOMAIN data.words : LEN(data.kind) + 32 * k <= data.len}}

\* Forgets that a node may publish no address.
Mutant_get_blocked_ips(cluster_nodes, data) ==
    {cluster_nodes[i] : i \in try_deserialize_identities(data)}

\* The addresses of the denied identities that have one.
get_blocked_ips(cluster_nodes, data) ==
    {cluster_nodes[i] : i \in try_deserialize_identities(data)} \ {NoAddr}

\* History: who is denied under which address.
Denied(cluster_nodes, data) ==
    IF Readable(data)
    THEN {p \in Identities \X Addrs : /\ p[1] \in try_deserialize_identities(data)
                                      /\ p[2] = cluster_nodes[p[1]]}
    ELSE {}

-------------------------------------------------------------------------------
(* The refresh thread. *)

Init ==
    /\ account \in Accounts
    /\ nodes \in Tables
    /\ refresher = "idle"
    /\ fetched = nodes
    /\ blocked = {}
    /\ cancelled = FALSE
    /\ pending = {}
    /\ steady = {}

\* interval.tick(), the first one at once.
Tick ==
    /\ refresher = "idle"
    /\ refresher' = "nodes"
    /\ pending' = Denied(nodes, account)
    /\ UNCHANGED <<account, nodes, fetched, blocked, cancelled, steady>>

\* Keeps the node table of the first refresh.
Mutant_get_cluster_nodes ==
    /\ refresher = "nodes"
    /\ refresher' = "policy"
    /\ UNCHANGED <<account, nodes, fetched, blocked, cancelled, pending, steady>>

\* rpc.get_cluster_nodes() answers.
get_cluster_nodes ==
    /\ refresher = "nodes"
    /\ refresher' = "policy"
    /\ fetched' = nodes
    /\ UNCHANGED <<account, nodes, blocked, cancelled, pending, steady>>

\* get_account_data answers with a policy that can be used; the set is stored.
StoreBlocked ==
    /\ refresher = "policy"
    /\ Readable(account)
    /\ blocked' = get_blocked_ips(fetched, account)
    /\ refresher' = "idle"
    /\ steady' = pending
    /\ pending' = {}
    /\ UNCHANGED <<account, nodes, fetched, cancelled>>

\* Clears the set when a refresh fails.
Mutant_RefreshFails ==
    /\ refresher \in {"nodes", "policy"}
    /\ refresher' = "idle"
    /\ blocked' = {}
    /\ pending' = {}
    /\ UNCHANGED <<account, nodes, fetched, cancelled, steady>>

\* Tries again at once instead of waiting for the next tick.
Mutant_RefreshRetries ==
    /\ refresher \in {"nodes", "policy"}
    /\ refresher' = "nodes"
    /\ pending' = Denied(nodes, account)
    /\ UNCHANGED <<account, nodes, fetched, blocked, cancelled, steady>>

\* A call fails, the policy cannot be used, or the 10 s are over.  The old
\* set stays.
RefreshFails ==
    /\ refresher \in {"nodes", "policy"}
    /\ refresher' = "idle"
    /\ pending' = {}
    /\ UNCHANGED <<account, nodes, fetched, blocked, cancelled, steady>>

\* The account exists and is empty: indexing it ends the thread.
Panic ==
    /\ refresher = "policy"
    /\ Panics(account)
    /\ refresher' = "dead"
    /\ pending' = {}
    /\ UNCHANGED <<account, nodes, fetched, blocked, cancelled, steady>>

\* The token is looked at between two refreshes only.
Stop ==
    /\ refresher = "idle"
    /\ cancelled
    /\ refresher' = "stopped"
    /\ UNCHANGED <<account, nodes, fetched, blocked, cancelled, pending, steady>>

-------------------------------------------------------------------------------
(* The cluster. *)

\* The owner of the policy changes the account.
Publish(data) ==
    /\ account' = data
    /\ pending' = IF Readable(data) THEN pending \cap Denied(nodes, data) ELSE pending
    /\ steady' = IF Readable(data) THEN steady \cap Denied(nodes, data) ELSE steady
    /\ UNCHANGED <<nodes, refresher, fetched, blocked, cancelled>>

\* Validators move to other addresses.
Move(table) ==
    /\ nodes' = table
    /\ pending' = {p \in pending : p[2] = table[p[1]]}
    /\ steady' = {p \in steady : p[2] = table[p[1]]}
    /\ UNCHANGED <<account, refresher, fetched, blocked, cancelled>>

Cancel ==
    /\ ~cancelled
    /\ cancelled' = TRUE
    /\ UNCHANGED <<shieldVars, blocked>>

\* The steps of the thread that leave the published set alone.
Quiet == Tick \/ get_cluster_nodes \/ RefreshFails \/ Panic \/ Stop

Cluster == (\E data \in Accounts : Publish(data)) \/ (\E table \in Tables : Move(table))

Next == Quiet \/ StoreBlocked \/ Cluster \/ Cancel

Spec == Init /\ [][Next]_vars

\* The timer fires, the 10 s limit ends a refresh that hangs, select! takes
\* the cancellation some day, and an RPC node that is asked again and again
\* answers some day.
Fairness ==
    /\ WF_vars(Tick)
    /\ WF_vars(RefreshFails)
    /\ SF_vars(Stop)
    /\ SF_vars(get_cluster_nodes)
    /\ SF_vars(StoreBlocked)

FairSpec == Spec /\ Fairness

-------------------------------------------------------------------------------
(* Properties. *)

\* The types of the variables; in particular the published set holds addresses
\* only, never the missing address of a node that publishes none.
TypeOK ==
    /\ account \in Accounts
    /\ nodes \in Tables
    /\ refresher \in {"idle", "nodes", "policy", "dead", "stopped"}
    /\ fetched \in Tables
    /\ blocked \subseteq Addrs
    /\ cancelled \in BOOLEAN
    /\ pending \subseteq Identities \X Addrs
    /\ steady \subseteq Identities \X Addrs

\* Who was denied, under one address, from before the last successful refresh
\* began until now is in the published set.  Failed, timed out and
\* panicking refreshes, unusable policies and changes of the node table
\* between the two calls do not let such a leader slip out.
SteadyBlocked == \A p \in steady : p[2] \in blocked

\* Once the policy is usable and neither it nor the table changes any more,
\* the published set becomes what the two say, unless the thread has stopped.
Converges ==
    <>[][UNCHANGED <<account, nodes>>]_<<account, nodes>> /\ <>[]Readable(account)
        => <>[](\/ refresher \in {"dead", "stopped"}
                \/ blocked = get_blocked_ips(nodes, account))

\* Cancellation ends the thread.
CancelStops == cancelled ~> refresher \in {"dead", "stopped"}
===============================================================================
