------------------------------- MODULE Lifecycle -------------------------------
(***************************************************************************)
(* Start, run and end of the process: run() in src/src/main.rs reads the   *)
(* configuration, starts the parts one after the other, waits for the      *)
(* JSON-RPC thread, cancels the token, waits for the QUIC thread and       *)
(* returns.  A part may fail when it binds its port, the refresh thread    *)
(* may panic, the websocket task may abort the process, and nobody joins   *)
(* the refresh thread and the admin thread.  When main ends, by returning  *)
(* or by a panic, the process ends and takes every thread with it.         *)
(*                                                                         *)
(* The configuration is what the start distinguishes.                      *)
(***************************************************************************)
EXTENDS Naturals

VARIABLES
    config,     \* the environment, read once
    main,       \* where the main thread is
    thread,     \* state of each thread it started
    cancelled,  \* the cancellation token
    exit        \* how the process ended

vars == <<config, main, thread, cancelled, exit>>

Threads == {"refresh", "tpu", "admin", "quic", "rpc"}

\* keys: identity file and policy key can be read; num_connections and the
\* two settings of the QUIC server are given or not.
Configs == [keys : BOOLEAN, num_connections : {0, 1},
            quic_rt : BOOLEAN, quic_bind_address : BOOLEAN]

Init ==
    /\ config \in Configs
    /\ main = "configure"
    /\ thread = [t \in Threads |-> "none"]
    /\ cancelled = FALSE
    /\ exit = "none"

Becomes(t, state) == thread' = [thread EXCEPT ![t] = state]

\* main panics, or run() returns an error and main's expect does.
MainPanics == main' = "over" /\ exit' = "failed"

\* main goes on with its next step.
Goto(label) == main' = label /\ UNCHANGED exit

-------------------------------------------------------------------------------
(* run(). *)

\* Reads the keys and installs the Prometheus listener; either may fail.
\* leaders_fanout + 1 is a u8: 255 panics here in a debug build and is a
\* lookahead of 0 in a release build.
Configure ==
    /\ main = "configure"
    /\ \/ MainPanics
       \/ config.keys /\ Goto("broadcaster")
    /\ UNCHANGED <<config, thread, cancelled>>

\* MevProtectedBroadcaster::run starts the refresh thread.
RunBroadcaster ==
    /\ main = "broadcaster"
    /\ Goto("tpu")
    /\ Becomes("refresh", "running")
    /\ UNCHANGED <<config, cancelled>>

\* spawn_tpu_client_next: a socket, NonZeroUsize::new(num_connections), the
\* leader cache, the client.
spawn_tpu_client_next ==
    /\ main = "tpu"
    /\ \/ MainPanics /\ UNCHANGED thread
       \/ /\ config.num_connections # 0
          /\ Goto("admin")
          /\ Becomes("tpu", "running")
    /\ UNCHANGED <<config, cancelled>>

spawn_admin_rpc_server ==
    /\ main = "admin"
    /\ Goto("quic")
    /\ Becomes("admin", "starting")
    /\ UNCHANGED <<config, cancelled>>

\* config.quic_rt.zip(config.quic_bind_address)
WantsQuic == config.quic_rt /\ config.quic_bind_address

\* quic_server::spawn_new, which may fail before there is a thread, or the
\* branch without a QUIC server.
SpawnQuic ==
    /\ main = "quic"
    /\ \/ WantsQuic /\ MainPanics /\ UNCHANGED thread
       \/ WantsQuic /\ Goto("rpc") /\ Becomes("quic", "starting")
       \/ ~WantsQuic /\ Goto("rpc") /\ UNCHANGED thread
    /\ UNCHANGED <<config, cancelled>>

spawn_json_rpc_server ==
    /\ main = "rpc"
    /\ Goto("join_rpc")
    /\ Becomes("rpc", "starting")
    /\ UNCHANGED <<config, cancelled>>

\* rpc_t.join().expect(..)
JoinRpc ==
    /\ main = "join_rpc"
    /\ \/ thread["rpc"] = "panicked" /\ MainPanics
       \/ thread["rpc"] = "ended" /\ Goto("cancel")
    /\ UNCHANGED <<config, thread, cancelled>>

\* Leaves the token alone until the QUIC thread is joined.
Mutant_CancelAll ==
    /\ main = "cancel"
    /\ Goto("join_quic")
    /\ UNCHANGED <<config, thread, cancelled>>

\* cancel.cancel()
CancelAll ==
    /\ main = "cancel"
    /\ cancelled' = TRUE
    /\ Goto("join_quic")
    /\ UNCHANGED <<config, thread>>

\* Does not wait for the QUIC thread.
Mutant_JoinQuic ==
    /\ main = "join_quic"
    /\ Goto("return")
    /\ UNCHANGED <<config, thread, cancelled>>

\* quic_t.join().unwrap(), when there is one.
JoinQuic ==
    /\ main = "join_quic"
    /\ \/ thread["quic"] = "panicked" /\ MainPanics
       \/ thread["quic"] \in {"none", "ended"} /\ Goto("return")
    /\ UNCHANGED <<config, thread, cancelled>>

\* run() returns Ok: its locals go, the TPU client's runtime with its tasks
\* among them, and the process ends.
Return ==
    /\ main = "return"
    /\ main' = "over"
    /\ exit' = "ok"
    /\ Becomes("tpu", "ended")
    /\ UNCHANGED <<config, cancelled>>

-------------------------------------------------------------------------------
(* The threads. *)

\* A server binds its port or panics (unwrap, expect).
Bind(t) ==
    /\ exit = "none"
    /\ t \in {"admin", "quic", "rpc"}
    /\ thread[t] = "starting"
    /\ \E state \in {"running", "panicked"} : Becomes(t, state)
    /\ UNCHANGED <<config, main, cancelled, exit>>

\* A thread sees the cancellation and ends: the refresh loop, the admin
\* server, quic_server_loop, the JSON-RPC server, the tasks of the client.
\* Dropping its runtime waits for what is under way.
SeesCancel(t) ==
    /\ exit = "none"
    /\ cancelled
    /\ thread[t] = "running"
    /\ Becomes(t, "ended")
    /\ UNCHANGED <<config, main, cancelled, exit>>

\* handle.stopped(): the JSON-RPC server stops by itself.
RpcStopped ==
    /\ exit = "none"
    /\ thread["rpc"] = "running"
    /\ Becomes("rpc", "ended")
    /\ UNCHANGED <<config, main, cancelled, exit>>

\* get_blocked_identities panics on an empty account.
RefreshPanics ==
    /\ exit = "none"
    /\ thread["refresh"] = "running"
    /\ Becomes("refresh", "panicked")
    /\ UNCHANGED <<config, main, cancelled, exit>>

\* The websocket task calls std::process::abort.
Abort ==
    /\ exit = "none"
    /\ thread["tpu"] = "running"
    /\ exit' = "aborted"
    /\ main' = "over"
    /\ UNCHANGED <<config, thread, cancelled>>

Run == \/ Configure \/ RunBroadcaster \/ spawn_tpu_client_next
       \/ spawn_admin_rpc_server \/ SpawnQuic \/ spawn_json_rpc_server
       \/ JoinRpc \/ CancelAll \/ JoinQuic \/ Return

Next ==
    \/ Run
    \/ \E t \in Threads : Bind(t) \/ SeesCancel(t)
    \/ RpcStopped \/ RefreshPanics \/ Abort

Spec == Init /\ [][Next]_vars

\* The threads run.  Nothing is assumed of the JSON-RPC server's own end, of
\* panics and of aborts.
FairSpec ==
    /\ Spec
    /\ WF_vars(Run)
    /\ \A t \in Threads : WF_vars(Bind(t) \/ SeesCancel(t))

-------------------------------------------------------------------------------
(* Properties. *)

\* The process does not outlive its JSON-RPC server: however that thread
\* ends, and whatever state the QUIC server is in by then (absent, still
\* binding, serving, failed), main cancels, joins and exits.
RpcEndsProcess == thread["rpc"] \in {"ended", "panicked"} ~> exit # "none"

\* A clean exit says that both servers ended in order: no request was being
\* served, and a QUIC server that could not bind its port does not pass as
\* success although nobody looked at its thread until then.
CleanExit ==
    exit = "ok" => /\ cancelled
                   /\ thread["rpc"] = "ended"
                   /\ thread["quic"] = (IF WantsQuic THEN "ended" ELSE "none")
===============================================================================
