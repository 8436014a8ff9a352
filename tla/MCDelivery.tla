------------------------------ MODULE MCDelivery ------------------------------
(***************************************************************************)
(* An instance of Delivery for TLC: two validators.                        *)
(***************************************************************************)
EXTENDS Delivery

CONSTANTS a1, b1

MCAddrs == {a1, b1}

\* Either leader may come first, so that each can meet the other's trouble.
MCWindows == {<<a1, b1>>, <<b1>>}
===============================================================================
