----------------------------- MODULE ShieldProofs -----------------------------
(***************************************************************************)
(* Proofs about the refresh thread for every set of identities, addresses, *)
(* node tables and policy accounts.                                        *)
(***************************************************************************)
EXTENDS Shield, TLAPS

\* A usable account names identities only, and a table gives each an address
\* or none, so a refresh publishes addresses only (get_blocked_ips).
LEMMA BlockedAreAddrs ==
    ASSUME NEW table \in Tables, NEW data \in Accounts
    PROVE  /\ try_deserialize_identities(data) \subseteq Identities
           /\ get_blocked_ips(table, data) \subseteq Addrs
<1>1. data.words \in Seq(Identities)
  BY ShieldAssumption
<1>2. \A k \in DOMAIN data.words : data.words[k] \in Identities
  BY <1>1
<1>3. try_deserialize_identities(data) \subseteq Identities
  BY <1>2 DEF try_deserialize_identities
<1>4. table \in [Identities -> Addrs \cup {NoAddr}]
  BY ShieldAssumption
<1> QED  BY <1>3, <1>4 DEF get_blocked_ips

\* Every variable keeps its type; the published set holds addresses only.
THEOREM TypeCorrect == Spec => []TypeOK
<1>1. Init => TypeOK
  BY DEF Init, TypeOK
<1>2. TypeOK /\ [Next]_vars => TypeOK'
  <2> SUFFICES ASSUME TypeOK, [Next]_vars PROVE TypeOK'
    OBVIOUS
  <2> USE DEF shieldVars
  <2>1. \A table, data : Denied(table, data) \subseteq Identities \X Addrs
    BY DEF Denied
  <2>2. CASE Quiet
    BY <2>1, <2>2 DEF Quiet, Tick, get_cluster_nodes, RefreshFails, Panic, Stop, TypeOK
  <2>3. CASE StoreBlocked
    <3>1. blocked' \subseteq Addrs
      BY <2>3, BlockedAreAddrs DEF StoreBlocked, TypeOK
    <3> QED  BY <2>3, <3>1 DEF StoreBlocked, TypeOK
  <2>4. ASSUME NEW data \in Accounts, Publish(data) PROVE TypeOK'
    BY <2>4 DEF Publish, TypeOK
  <2>5. ASSUME NEW table \in Tables, Move(table) PROVE TypeOK'
    BY <2>5 DEF Move, TypeOK
  <2>6. CASE Cancel
    BY <2>6 DEF Cancel, TypeOK
  <2>7. CASE UNCHANGED vars
    BY <2>7 DEF vars, TypeOK
  <2> QED  BY <2>2, <2>3, <2>4, <2>5, <2>6, <2>7 DEF Next, Cluster
<1> QED  BY <1>1, <1>2, PTL DEF Spec

-------------------------------------------------------------------------------
(* The inductive invariant. *)

\* A pair that has been denied since the refresh began is still what a usable
\* account and the table say, and what the table in hand says.
PendingHolds ==
    /\ \A p \in pending : p[2] = nodes[p[1]]
    /\ Readable(account) => \A p \in pending : p[1] \in try_deserialize_identities(account)
    /\ refresher = "policy" => \A p \in pending : p[2] = fetched[p[1]]

Inv == SteadyBlocked /\ PendingHolds

\* A refresh that succeeds has seen every pair denied all through it, and no
\* other step shrinks the published set.
THEOREM SteadyBlockedCorrect == Spec => []SteadyBlocked
<1>1. Init => Inv
  BY DEF Init, Inv, SteadyBlocked, PendingHolds
<1>2. TypeOK /\ Inv /\ [Next]_vars => Inv'
  <2> SUFFICES ASSUME TypeOK, Inv, [Next]_vars PROVE Inv'
    OBVIOUS
  <2> USE DEF shieldVars, Inv
  <2>1. CASE Tick
    BY <2>1 DEF Tick, SteadyBlocked, PendingHolds, Denied
  <2>2. CASE get_cluster_nodes
    BY <2>2 DEF get_cluster_nodes, SteadyBlocked, PendingHolds
  <2>3. CASE RefreshFails \/ Panic
    BY <2>3 DEF RefreshFails, Panic, SteadyBlocked, PendingHolds
  <2>4. CASE Stop
    BY <2>4 DEF Stop, SteadyBlocked, PendingHolds
  <2>5. CASE StoreBlocked
    <3>1. ASSUME NEW p \in pending PROVE p[2] \in get_blocked_ips(fetched, account)
      <4>1. p[1] \in try_deserialize_identities(account) /\ p[2] = fetched[p[1]]
        BY <2>5 DEF StoreBlocked, PendingHolds
      <4>2. p[2] # NoAddr
        BY ShieldAssumption DEF TypeOK
      <4> QED  BY <4>1, <4>2 DEF get_blocked_ips
    <3> QED  BY <2>5, <3>1 DEF StoreBlocked, SteadyBlocked, PendingHolds
  <2>6. ASSUME NEW data \in Accounts, Publish(data) PROVE Inv'
    <3>1. /\ account' = data /\ pending' \subseteq pending /\ steady' \subseteq steady
          /\ UNCHANGED <<nodes, refresher, fetched, blocked>>
      BY <2>6 DEF Publish
    <3>2. Readable(data) => \A p \in pending' : p[1] \in try_deserialize_identities(data)
      BY <2>6 DEF Publish, Denied
    <3> QED  BY <3>1, <3>2 DEF SteadyBlocked, PendingHolds
  <2>7. ASSUME NEW table \in Tables, Move(table) PROVE Inv'
    BY <2>7 DEF Move, SteadyBlocked, PendingHolds
  <2>8. CASE Cancel \/ UNCHANGED vars
    BY <2>8 DEF Cancel, vars, SteadyBlocked, PendingHolds
  <2> QED
    BY <2>1, <2>2, <2>3, <2>4, <2>5, <2>6, <2>7, <2>8 DEF Next, Quiet, Cluster
<1>3. Inv => SteadyBlocked
  BY DEF Inv
<1> QED  BY <1>1, <1>2, <1>3, TypeCorrect, PTL DEF Spec
===============================================================================
