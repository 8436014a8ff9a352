------------------------------- MODULE MCIngress -------------------------------
(***************************************************************************)
(* An instance of Ingress for TLC, with the size limits of the two servers.*)
(***************************************************************************)
EXTENDS Ingress, DecodeTransaction

\* The limits have no state: TLC evaluates what is said of them once, for the
\* sizes and bytes of the instance.  IngressProofs proves it for all.
ASSUME LimitsFit == Base64Exact /\ Base58Exact /\ QuicTakesAll /\ Bounded
===============================================================================
