------------------------------ MODULE MCTpuClient ------------------------------
(***************************************************************************)
(* An instance of TpuClient for TLC: two validators.                       *)
(***************************************************************************)
EXTENDS TpuClient

CONSTANTS a1, b1

\* Two validators, so that a window can mix a blocked and a free leader.
MCAddrs == {a1, b1}

\* A window of two leaders, where either may be the blocked one, and a moment
\* in which no leader is known.
MCWindows == {<<a1, b1>>, << >>}
===============================================================================
