------------------------------- MODULE MCShield -------------------------------
(***************************************************************************)
(* An instance of Shield for TLC: two validators, two addresses.           *)
(***************************************************************************)
EXTENDS Shield

CONSTANTS i, j, a1, b1

\* i and j apart, exchanged, and i without an address.
MCTables == {[n \in {i, j} |-> IF n = i THEN a1 ELSE b1],
             [n \in {i, j} |-> IF n = i THEN b1 ELSE a1],
             [n \in {i, j} |-> IF n = i THEN NoAddr ELSE b1]}

Data(len, kind, strategy, words) ==
    [len |-> len, kind |-> kind, strategy |-> strategy, words |-> words]

\* Usable policies of both kinds, one of them with its second entry cut
\* short; an allow list, an unknown kind, a cut header and an empty account.
MCAccounts == {Data(71, 0, 0, <<i, j>>), Data(70, 0, 0, <<i, j>>), Data(39, 1, 0, << >>),
               Data(71, 1, 1, <<i>>), Data(38, 1, 0, << >>), Data(0, 0, 0, << >>)}
===============================================================================
