-------------------------------- MODULE MCIris --------------------------------
(***************************************************************************)
(* Instances of Iris for TLC: one validator that the policy denies or not, *)
(* at one of two addresses.                                                *)
(***************************************************************************)
EXTENDS Iris

CONSTANTS i, a1, b1

MCWindows == {<<b1, a1>>}

\* The validator moves from a1 to b1.
MCTables == {[n \in {i} |-> a1], [n \in {i} |-> b1]}

\* A policy that denies i, one that denies nobody, and an empty account.
MCAccounts == {[len |-> 39, kind |-> 0, strategy |-> 0, words |-> <<i>>],
               [len |-> 7, kind |-> 0, strategy |-> 0, words |-> << >>],
               [len |-> 0, kind |-> 0, strategy |-> 0, words |-> << >>]}

\* A cluster in which nothing ever changes: i is denied and stays at a1.
MCTablesFixed == {[n \in {i} |-> a1]}
MCAccountsFixed == {[len |-> 39, kind |-> 0, strategy |-> 0, words |-> <<i>>]}
===============================================================================
