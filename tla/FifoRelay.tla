------------------------------- MODULE FifoRelay -------------------------------
(***************************************************************************)
(* What the TPU client promises its callers, without channels, leaders,    *)
(* buffers or workers: accepted transactions are numbered in order, each   *)
(* is relayed at most once, and two transactions of the same class (both   *)
(* MEV-protected, or both plain) are relayed in the order of acceptance.   *)
(* Nothing is said about the order between the classes: a plain            *)
(* transaction may overtake a protected one that has to wait.              *)
(***************************************************************************)
EXTENDS Integers

VARIABLES
    accepted,   \* number of transactions accepted
    protected,  \* the MEV-protected ones among 1..accepted
    done        \* the ones relayed

vars == <<accepted, protected, done>>

Init ==
    /\ accepted = 0
    /\ protected = {}
    /\ done = {}

Accept(mev_protect) ==
    /\ accepted' = accepted + 1
    /\ protected' = IF mev_protect THEN protected \cup {accepted + 1} ELSE protected
    /\ UNCHANGED done

Relay(n) ==
    /\ n \notin done
    /\ \A m \in 1..(n - 1) :
          ((m \in protected) <=> (n \in protected)) => m \in done
    /\ done' = done \cup {n}
    /\ UNCHANGED <<accepted, protected>>

Next ==
    \/ \E mev_protect \in BOOLEAN : Accept(mev_protect)
    \/ \E n \in 1..accepted : Relay(n)

Spec == Init /\ [][Next]_vars
===============================================================================
