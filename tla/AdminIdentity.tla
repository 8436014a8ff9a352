---------------------------- MODULE AdminIdentity ----------------------------
(***************************************************************************)
(* Changing the identity of a running process: the subcommands set-identity*)
(* and get-info (src/src/main.rs), the admin server that serves them       *)
(* (src/src/admin_rpc.rs), and the connection scheduler, which is handed   *)
(* the new key and takes it up at a time of its own.                       *)
(*                                                                         *)
(* The admin server has one thread, and its handlers contain no await: the *)
(* thread finishes a handler before it polls another.  Within a handler the*)
(* key file, the scheduler, the token and the callers go on.               *)
(***************************************************************************)
EXTENDS Naturals

CONSTANTS
    Keys,   \* keypairs
    NoKey,  \* a file or text that holds none
    Calls   \* invocations of the subcommands

ASSUME AdminAssumption == Keys # {} /\ NoKey \notin Keys

VARIABLES
    file,       \* what the key file holds
    call,       \* state of an invocation: what it asks for, what it was told
    busy,       \* the calls whose handlers the server's thread is inside of
    step,       \* how far the handler of a call is
    key,        \* its local keypair
    identity,   \* AdminRpcImpl.identity, what getIdentity reports
    handed,     \* the key last passed to the scheduler
    in_use,     \* the key the scheduler connects with
    server,     \* state of the admin thread
    scheduler,  \* the scheduler runs
    cancelled   \* the cancellation token

handlerVars == <<busy, step, key, identity, handed>>
vars == <<file, call, handlerVars, in_use, server, scheduler, cancelled>>

Init ==
    /\ file \in Keys
    /\ call = [c \in Calls |-> [asks |-> "nothing", told |-> NoKey]]
    /\ busy = {}
    /\ step = [c \in Calls |-> "none"]
    /\ key = [c \in Calls |-> NoKey]
    /\ identity \in Keys
    /\ handed = identity
    /\ in_use = identity
    /\ server = "starting"
    /\ scheduler = TRUE
    /\ cancelled = FALSE

Asks(c, what) == call' = [call EXCEPT ![c].asks = what]
Goto(c, label) == step' = [step EXCEPT ![c] = label]

-------------------------------------------------------------------------------
(* The command line. *)

\* run_update_identity and run_get_info up to the request.  The keypair of
\* set-identity is in a file the server will read, or it is read here.
Invoke(c) ==
    /\ call[c].asks = "nothing"
    /\ \/ Asks(c, "set_identity") /\ UNCHANGED key
       \/ /\ Asks(c, "set_identity_from_bytes")
          /\ \E k \in Keys \cup {NoKey} : key' = [key EXCEPT ![c] = k]
       \/ Asks(c, "get_identity") /\ UNCHANGED key
    /\ UNCHANGED <<file, busy, step, identity, handed, in_use, server, scheduler, cancelled>>

\* No answer: the server is not there, the reply is lost, or the caller's
\* patience is over.  What the server does goes on.
NoAnswer(c) ==
    /\ call[c].asks \notin {"nothing", "over"}
    /\ Asks(c, "over")
    /\ UNCHANGED <<file, handlerVars, in_use, server, scheduler, cancelled>>

-------------------------------------------------------------------------------
(* The server. *)

\* The thread binds its port, or panics and is gone with nobody to notice.
Bind ==
    /\ server = "starting"
    /\ server' \in {"serving", "gone"}
    /\ UNCHANGED <<file, call, handlerVars, in_use, scheduler, cancelled>>

\* Polls a call although another handler is half way.
Mutant_Begin(c) ==
    /\ server = "serving"
    /\ step[c] = "none"
    /\ call[c].asks \notin {"nothing", "over"}
    /\ busy' = busy \cup {c}
    /\ Goto(c, call[c].asks)
    /\ UNCHANGED <<file, call, key, identity, handed, in_use, server, scheduler, cancelled>>

\* The single thread polls the handler of a call that has arrived.
Begin(c) ==
    /\ server = "serving"
    /\ busy = {}
    /\ step[c] = "none"
    /\ call[c].asks \notin {"nothing", "over"}
    /\ busy' = {c}
    /\ Goto(c, call[c].asks)
    /\ UNCHANGED <<file, call, key, identity, handed, in_use, server, scheduler, cancelled>>

\* The handler of c returns; a caller that still waits is told the answer.
Reply(c, told) ==
    /\ busy' = busy \ {c}
    /\ Goto(c, "done")
    /\ call' = IF call[c].asks = "over" THEN call
               ELSE [call EXCEPT ![c] = [asks |-> "over", told |-> told]]

\* Waits, in the handler, for a file or a request that holds a key.
Mutant_ReadKey(c) ==
    /\ \/ /\ step[c] = "set_identity"
          /\ key' = [key EXCEPT ![c] = file]
       \/ /\ step[c] = "set_identity_from_bytes"
          /\ UNCHANGED key
    /\ key'[c] # NoKey
    /\ Goto(c, "update")
    /\ UNCHANGED <<file, call, busy, identity, handed, in_use, server, scheduler, cancelled>>

\* Keypair::read_from_file, or Keypair::try_from on the bytes of the request.
ReadKey(c) ==
    /\ \/ /\ step[c] = "set_identity"
          /\ key' = [key EXCEPT ![c] = file]
       \/ /\ step[c] = "set_identity_from_bytes"
          /\ UNCHANGED key
    /\ IF key'[c] = NoKey THEN Reply(c, NoKey)
                          ELSE Goto(c, "update") /\ UNCHANGED <<call, busy>>
    /\ UNCHANGED <<file, identity, handed, in_use, server, scheduler, cancelled>>

\* Only remembers the key.
Mutant_update_identity(c) ==
    /\ step[c] = "update"
    /\ Goto(c, "write")
    /\ UNCHANGED <<file, call, busy, key, identity, handed, in_use, server, scheduler, cancelled>>

\* tpu_client.update_identity fails when the scheduler is gone.
update_identity(c) ==
    /\ step[c] = "update"
    /\ IF scheduler
       THEN handed' = key[c] /\ Goto(c, "write") /\ UNCHANGED <<call, busy>>
       ELSE Reply(c, NoKey) /\ UNCHANGED handed
    /\ UNCHANGED <<file, key, identity, in_use, server, scheduler, cancelled>>

\* *l_identity = keypair.pubkey()
WriteIdentity(c) ==
    /\ step[c] = "write"
    /\ identity' = key[c]
    /\ Reply(c, key[c])
    /\ UNCHANGED <<file, key, handed, in_use, server, scheduler, cancelled>>

get_identity(c) ==
    /\ step[c] = "get_identity"
    /\ Reply(c, identity)
    /\ UNCHANGED <<file, key, identity, handed, in_use, server, scheduler, cancelled>>

\* cancel.cancelled().await returns when no handler is being polled; the
\* server stops and its thread ends.
ServerStops ==
    /\ server = "serving"
    /\ busy = {}
    /\ cancelled
    /\ server' = "gone"
    /\ UNCHANGED <<file, call, handlerVars, in_use, scheduler, cancelled>>

Handler(c) == \/ Begin(c) \/ ReadKey(c) \/ update_identity(c)
              \/ WriteIdentity(c) \/ get_identity(c)

-------------------------------------------------------------------------------
(* The rest of the process, and the owner of the key file. *)

\* The scheduler finds a key it was handed; it may have missed others.
Adopt ==
    /\ scheduler
    /\ in_use # handed
    /\ in_use' = handed
    /\ UNCHANGED <<file, call, handlerVars, server, scheduler, cancelled>>

SchedulerExit ==
    /\ cancelled
    /\ scheduler
    /\ scheduler' = FALSE
    /\ UNCHANGED <<file, call, handlerVars, in_use, server, cancelled>>

Cancel ==
    /\ ~cancelled
    /\ cancelled' = TRUE
    /\ UNCHANGED <<file, call, handlerVars, in_use, server, scheduler>>

\* The file is replaced or damaged.
ChangeFile(k) ==
    /\ file' = k
    /\ UNCHANGED <<call, handlerVars, in_use, server, scheduler, cancelled>>

Next ==
    \/ \E c \in Calls : Invoke(c) \/ NoAnswer(c) \/ Handler(c)
    \/ Bind \/ ServerStops \/ Adopt \/ SchedulerExit \/ Cancel
    \/ \E k \in Keys \cup {NoKey} : ChangeFile(k)

Spec == Init /\ [][Next]_vars

\* The server's thread and the scheduler's task run.  The blocking read of the
\* key file is not fair: the path is the caller's, and reading it may never
\* return.  Nothing is assumed of callers or of the token.
FairSpec ==
    /\ Spec
    /\ \A c \in Calls : WF_vars(step[c] # "set_identity" /\ Handler(c))
    /\ WF_vars(Adopt)

-------------------------------------------------------------------------------
(* Properties. *)

\* Between handlers the identity that is reported is the one the scheduler
\* was handed last: concurrent set-identity calls cannot cross, and a failed
\* one, also one that fails because the scheduler has just gone, leaves both.
Agreement == busy = {} => identity = handed

\* "get-info is to check what identity key iris-rs is using": a reported
\* identity is the one in use some day, unless it is replaced or the process
\* is shut down.
Adopted ==
    \A k \in Keys : identity = k ~> in_use = k \/ identity # k \/ cancelled

\* The assumption on the key file: Keypair::read_from_file returns.
ReadsReturn ==
    \A c \in Calls : step[c] = "set_identity" ~> step[c] # "set_identity"

\* The only thread can be wedged by a read of the key file that never returns
\* and by nothing else: as long as reads return, with whatever contents, every
\* handler is run to its end while the server serves, whatever other calls ask
\* for and however they fail.
Served ==
    ReadsReturn =>
        \A c \in Calls :
            server = "serving" /\ call[c].asks \notin {"nothing", "over"}
                ~> step[c] = "done" \/ call[c].asks = "over" \/ server = "gone"
===============================================================================
