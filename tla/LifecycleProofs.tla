--------------------------- MODULE LifecycleProofs ----------------------------
(***************************************************************************)
(* Proof about the start and the end of the process, for every             *)
(* configuration and every fate of its threads.                            *)
(***************************************************************************)
EXTENDS Lifecycle, TLAPS

\* How far run() is says what it has started and seen end.  While it has not
\* ended, nobody knows how the process ends.
RunInv ==
    /\ thread \in [Threads -> {"none", "starting", "running", "ended", "panicked"}]
    /\ main # "over" <=> exit = "none"
    /\ main \in {"cancel", "join_quic", "return"} => thread["rpc"] = "ended"
    /\ main \in {"join_quic", "return"} => cancelled
    /\ main \in {"configure", "broadcaster", "tpu", "admin", "quic"} => thread["quic"] = "none"
    /\ main \in {"rpc", "join_rpc", "cancel", "join_quic"} =>
          (WantsQuic <=> thread["quic"] # "none")
    /\ main = "return" => thread["quic"] = (IF WantsQuic THEN "ended" ELSE "none")
    /\ CleanExit

\* In every configuration and for every fate of the threads, a clean exit
\* means that both servers ended in order and that the token was set.
THEOREM CleanExitCorrect == Spec => []CleanExit
<1>1. Init => RunInv
  BY DEF Init, RunInv, CleanExit, Threads
<1>2. RunInv /\ [Next]_vars => RunInv'
  <2> SUFFICES ASSUME RunInv, [Next]_vars PROVE RunInv'
    OBVIOUS
  <2> USE DEF RunInv, CleanExit, WantsQuic, Threads, Becomes, Goto, MainPanics
  <2>1. CASE Configure \/ RunBroadcaster \/ spawn_tpu_client_next
             \/ spawn_admin_rpc_server
    BY <2>1 DEF Configure, RunBroadcaster, spawn_tpu_client_next,
                spawn_admin_rpc_server
  <2>2. CASE SpawnQuic
    BY <2>2 DEF SpawnQuic
  <2>3. CASE spawn_json_rpc_server
    BY <2>3 DEF spawn_json_rpc_server
  <2>4. CASE JoinRpc \/ CancelAll
    BY <2>4 DEF JoinRpc, CancelAll
  <2>5. CASE JoinQuic
    BY <2>5 DEF JoinQuic
  <2>6. CASE Return
    BY <2>6 DEF Return
  <2>7. ASSUME NEW t \in Threads, Bind(t) PROVE RunInv'
    BY <2>7 DEF Bind
  <2>8. ASSUME NEW t \in Threads, SeesCancel(t) PROVE RunInv'
    BY <2>8 DEF SeesCancel
  <2>9. CASE RpcStopped \/ RefreshPanics
    BY <2>9 DEF RpcStopped, RefreshPanics
  <2>10. CASE Abort
    BY <2>10 DEF Abort
  <2>11. CASE UNCHANGED vars
    BY <2>11 DEF vars
  <2> QED
    BY <2>1, <2>2, <2>3, <2>4, <2>5, <2>6, <2>7, <2>8, <2>9, <2>10, <2>11
       DEF Next, Run
<1>3. RunInv => CleanExit
  BY DEF RunInv
<1> QED  BY <1>1, <1>2, <1>3, PTL DEF Spec
===============================================================================
