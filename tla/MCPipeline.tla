------------------------------ MODULE MCPipeline ------------------------------
(***************************************************************************)
(* An instance of Pipeline for TLC: two requests, one validator.           *)
(***************************************************************************)
EXTENDS Pipeline, TLC

CONSTANT a1

MCAddrs == {a1}

\* The validator leads, or no leader is known.
MCWindows == {<<a1>>, << >>}

\* A request of every kind that is treated differently: protected and plain
\* ones over either server, and refused ones.
MCBodies ==
    {[via |-> "quic", valid |-> TRUE, empty |-> FALSE, mev_protect |-> "true"],
     [via |-> "quic", valid |-> TRUE, empty |-> TRUE, mev_protect |-> "false"],
     [via |-> "quic", valid |-> FALSE, empty |-> FALSE, mev_protect |-> "None"],
     [via |-> "rpc", valid |-> TRUE, empty |-> FALSE, mev_protect |-> "true"],
     [via |-> "rpc", valid |-> TRUE, empty |-> FALSE, mev_protect |-> "None"],
     [via |-> "rpc", valid |-> FALSE, empty |-> FALSE, mev_protect |-> "true"]}

\* Requests are interchangeable.
Symmetry == Permutations(Requests)
===============================================================================
