# TLA+ specification of Iris

Iris takes Solana transactions from clients over QUIC and JSON-RPC and sends
them to the TPU ports of the current and next leaders. A transaction marked
`mev_protect` is withheld while one of these leaders is on a deny list (a
Yellowstone shield policy account). This directory models the program in TLA+,
checks the models with TLC on small instances and proves the most important
properties with TLAPS for every instance. Paths are relative to the root of the
repository's `src/` tree: `src/broadcaster.rs` is `src/src/broadcaster.rs` in
`PROJECT.json`.

## Inventory

| component | state | operations | runs in |
|---|---|---|---|
| QUIC server (`quic_server.rs`) | connections, stream tasks | accept, handshake, accept stream, read with 2 s limit, decode, hand on | its own multi-thread runtime |
| JSON-RPC server (`rpc_server.rs`, `rpc.rs`, `main.rs`) | none of its own | `sendTransaction`, `health` | its own multi-thread runtime |
| TPU client (`tpu_next_client.rs`) | bounded channel | `send_transaction` (never waits), flush task every 400 ms, metrics exporter every second | TPU runtime |
| connection scheduler, workers (crate solana-tpu-client-next) | worker cache, one bounded channel per worker | take a message, ask for leaders, call the broadcaster | TPU runtime, external |
| `MevProtectedBroadcaster` (`broadcaster.rs`) | blocked set (ArcSwap), buffer (Mutex) | `send_to_workers`, `prepare_transactions` | called by the scheduler |
| refresh thread (`broadcaster.rs`, `shield.rs`) | writes the blocked set | every 10 min: node table, policy account, store | own thread |
| slot-update websocket (`websocket_node_address_service.rs`) | subscription, channel of 256 | forward slot events, watchdog, shutdown; aborts the process on failure | TPU runtime |
| transaction statistics (`transaction_stats.rs`) | nine atomic counters, one gauge | `record_*`, `report` every 5 s | everywhere |
| admin RPC (`admin_rpc.rs`, `main.rs`) | identity | set and get identity | own single-thread runtime |
| decoding (`vendor/solana_rpc.rs`) | none | `decode_transaction` | pure |
| lifecycle (`main.rs`) | cancellation token | start all, join JSON-RPC, cancel, join QUIC, exit | main thread |
| runtime construction (`runtime.rs`) | a counter per runtime | pin a starting thread to the next CPU | every thread of a runtime |
| HTTP middleware (`http_middleware.rs`), telemetry (`otel_tracer.rs`) | none | log and measure | JSON-RPC runtime, start-up |

How they interact. Both servers call `send_transaction`, which puts the bytes of
the transaction and one flag byte into the TPU client's channel or drops the
transaction when it is full or closed. The scheduler takes a message, asks the
leader cache for the next leaders and calls `send_to_workers`. That call loads
the blocked set once, decides whether the message is withheld, whether the
buffer is released, and offers every transaction that may go to every leader's
worker. The refresh thread replaces the blocked set at any moment. An empty
message, posted by the flush task, makes the broadcaster look again although no
transaction arrives. Slot events from the websocket move the leader window. The
token is cancelled by `run()` after the JSON-RPC server has ended, and by
nothing else.

What is hard here, and what makes each part correct:

* client and broadcaster: the blocked set and the window change between any two
  steps; a message may be refused anywhere. Correct means: protected
  transactions respect the set that was loaded, nothing is lost, duplicated or
  reordered within its class, what is withheld leaves once it is safe.
* refresh: two RPC answers from different moments, failures, a time limit, an
  account with any content. Correct means: who stays denied stays blocked.
* websocket: three events race in one `select!`, the consumer may be slow or
  gone, shutdown waits for two parties. Correct means: order, an end to a
  subscription gone silent, a shutdown that returns when the server answers.
* servers and statistics: many threads, each counter an atomic of its own.
  Correct means: totals balance, a refused request is not sent, snapshots that
  mix moments lose nothing.

* decoding: four limits in two files that have to fit each other, one of them
  chosen by looking at two characters of text. Correct means: what is taken is
  exactly what is of legal size.
* admin RPC: two copies of the identity, a scheduler that takes the key up
  later, one thread for all calls. Correct means: the report agrees with what
  was handed over and comes true; no call blocks the others, as far as the code
  can help it: it reads the key file on its only thread.
* lifecycle: servers fail on threads nobody watches, and joins are ordered.
  Correct means: the process ends with its JSON-RPC server, and says "ok" only
  when both servers did.

`PROJECT.json` lists the hazards line by line with the properties aimed at them.

## Modules

| module | models | composes |
|---|---|---|
| `TpuPayload` | the message format: wire bytes and a flag byte, the empty flush message | |
| `TpuClient` | channel, flush task, scheduler, broadcaster, workers | `TpuPayload` |
| `FifoRelay` | abstract: each transaction relayed at most once, in order per class | implemented by `TpuClient` |
| `Shield` | refresh thread, policy account, node table | |
| `Iris` | client and refresh thread sharing blocked set and token | `TpuClient`, `Shield` |
| `SlotWatch` | websocket task, leader cache, shutdown | |
| `Ingress` | QUIC and JSON-RPC requests up to the channel, counters | `TpuPayload` |
| `TransactionStats` | counters and reporting task | |
| `Delivery` | history on top of `TpuClient`: what each worker was given, in all and in the latest call | `TpuClient` |
| `Pipeline` | servers and client around one channel | `Ingress`, `TpuClient` |
| `DecodeTransaction` | `decode_transaction`, the QUIC stream limit, the JSON-RPC body limit: operators only | |
| `AdminIdentity` | admin server, command line, scheduler taking up a key | |
| `Lifecycle` | `run()`: start, joins, cancellation, exit | |
| `SendMetrics` | `send_metrics_stats` beside the reporting task | `TransactionStats` |
| `MC*` | constants for TLC; `MCIngress` also evaluates `DecodeTransaction` | |
| `TpuClientProofs`, `ShieldProofs`, `SlotWatchProofs`, `AdminIdentityProofs`, `LifecycleProofs` | theorems | the module they are named after |
| `SystemProofs` | theorems about the client with what surrounds it | `Delivery`, `Iris`, `Pipeline` |
| `IngressProofs` | theorems | `Ingress`, `DecodeTransaction` |
| `TransactionStatsProofs` | theorems | `TransactionStats`, `SendMetrics` |

Definitions keep the source's names where they model one function. Where one
function is several steps, because others may run in between, each step is an
action named for what it does.

### TpuClient

* The n-th transaction the channel accepts is the wire transaction `<<n>>`; the
  program never looks into a transaction, so distinct ones lose nothing.
* `Recv` is the scheduler taking a message, asking for the leaders (`window`)
  and making sure they have workers. `send_to_workers` is the part of that
  function from the load of the blocked set to the end of
  `prepare_transactions`: no await, one lock. `Offer` is one iteration of its
  inner loop, with each result of the worker cache: accepted, full, no worker,
  worker gone (and then removed), shutdown. Between offers anything may happen.
* `StoreBlocked` (any set, any time) stands for the refresh thread when the
  client is taken alone; `Iris` replaces it by the steps of `Shield`.
* `protected` and `handled` are history; `snapshot` is the set the call loaded.
* `tpu_enqueued` and the `try_send` before it are one step here, since no one
  in this module reads the counter in between; `Ingress` splits them.

### Shield

A policy account is its length, its kind and strategy bytes and its 32-byte
entries: what `get_blocked_identities` distinguishes (header lengths 7 and 39,
unknown kind, allow list, entry cut short, empty account and the panic of
`data[0]`). `get_cluster_nodes` and `StoreBlocked` are different steps, the
cluster (`Publish`, `Move`) acts between them. `steady` is history: the pairs
(validator, address) denied without interruption since before the last
successful refresh began.

### SlotWatch

Notifications are numbered by the server. `Connect`, `NextNotification`,
`Closed`, `TimerElapses`, `Stalled`, `CancelSeen`, `SendOk`, `SendTimeout`,
`SendClosed` and `Close` are the branches of `run_websocket_subscription`;
`"aborted"` is `std::process::abort`. The 30 s timer and the poll that finds it
are two steps, since the token may be set in between. `StopCalled`,
`ServiceStopped` and `Joined` are `LeaderUpdater::stop`.

Connecting, subscribing, unsubscribing and closing have no time limit in the
code and are not raced with the token. So they are not fair here: a server that
accepts the connection and stays silent keeps the task in `Connect` or `Close`
for ever, the watchdog does not run there, and `stop` waits behind it.
`Watchdog` therefore speaks of the loop only, where every await has a limit, and
`StopReturns` assumes that the server answers (`Answers`).

### Ingress and TransactionStats

A request is a QUIC stream or a JSON-RPC call. Each counter is incremented in a
step of its own, in the order of the code: JSON-RPC counts the flag before it
validates, QUIC after. The several refusals of `sendTransaction` are one
outcome, `rejected`. Replies are left out: `sendTransaction` returns the
signature whether the channel took the transaction or not, so `SentOnce` says
what is sent and nothing about what a client was told. A dropped runtime ends a task only where it awaits, so
only while it reads. `Cancel` follows the end of the JSON-RPC server as in
`run()`. `TransactionStats` takes any set of counters; a snapshot loads them one
at a time in any order (the loads are relaxed) while others add.

### Delivery and Pipeline

`Delivery` takes every step of `TpuClient` as it is and writes down, for each
address, the numbers its worker's channel received over the whole run (`sent`),
and for the latest call of `send_to_workers` how many of its transactions have
had their turn (`turns`), how many the worker took (`given`), the room it had
when the call began (`room`) and whether it has lived since (`kept`). `Observe`
constrains none of the client's variables. `WindowsAssumption`: the crate hands
the broadcaster distinct addresses. The comment in the code, "If we have failed
to send a transaction, it will be dropped", leaves open how much; `LossIsOwn`
says: of a call, never more than what exceeds that leader's own room.

`Pipeline` lets the two views of the channel move together: `Ingress` sees who
put a message in, `TpuClient` what the scheduler makes of it. A step on the
channel or the token is a step of both modules, any other step belongs to one
and leaves the other alone. `source` remembers which request an accepted
transaction came from. Here the increment of `tpu_enqueued` belongs to the
client's step; the server's view of it (`counter`) follows in a step of its own.

### DecodeTransaction

A transaction is its length and its first two bytes; a text is its length, its
first two characters and whether it is well formed. `Base64` computes both
characters by the alphabet, `Base58Lengths` the range of lengths base58 can have
for that many bytes (5281/3867 approximates log 256 / log 58 closely enough for
every length up to 4990 bytes, beyond any limit here). `Texts` is what a client
may send: either encoding, intact or damaged. The function has no state, so it
is an operator and its properties are statements about constants: TLC evaluates
them as the assumption `LimitsFit` of `MCIngress`, and they are theorems.

### AdminIdentity

The handlers contain no await and the runtime has one thread, so a handler,
once begun, is finished before another begins (`busy` is empty or one call).
Within it the key file, the callers, the token and the scheduler go on:
`ReadKey`, `update_identity` and `WriteIdentity` are separate steps. The
scheduler (`Adopt`) sees the key last handed over, as a watch channel gives it.
`setIdentity` reads a file of the caller's choice on that one thread. The read
may never return (no fairness), and then no call is served again; `Served`
assumes `ReadsReturn` and says that nothing else has this effect.

### Lifecycle

One action per statement of `run()` that starts, joins or cancels. A `Bind` may
panic on the thread that tries it, the refresh thread may panic, the websocket
task may abort the process; nobody joins the refresh and the admin thread.

### SendMetrics

The exporter of the TPU client next to the task of `TransactionStats`, under the
same token. One round copies the fields one at a time while workers count; the
code's fixed order is left open, which allows more. The exporter does not race
its timer with the token. `Fields` are the fields the code exports; whether
these are all the crate has is not something the model can tell.

## Runs

| run | instance | shows |
|---|---|---|
| `tpu_client` | 2 transactions, channel 1, workers 2, leaders `<<a1, b1>>` or none, any blocked set | `TypeOK`, `SafeRelease`, `ExactlyOnePlace`, `BufferAccounting`, `WorkerFIFO`, `RefinesRelay`; `Drains`, `PlainFlows`, `CancelStops` |
| `delivery` | 2 transactions, channel 1, workers 1, leaders `<<a1, b1>>` or `<<b1>>` | `GivenInOrder`, `LossIsOwn` |
| `shield` | 2 validators, 3 node tables, 6 accounts | `TypeOK`, `SteadyBlocked`; `Converges`, `CancelStops` |
| `iris_shielded` | 2 transactions, 2 leaders, 1 validator that moves, 3 accounts | `ShieldedRelease` |
| `iris_boot` | the same with a cluster that never changes | `DeniedNotReached` is violated |
| `slot_watch` | 3 notifications, channel 2 | `TypeOK`, `SlotOrder`; `Watchdog`, `StopReturns` |
| `slot_watch_cancel` | 1 notification | `CancellationIsNotAFailure` is violated |
| `ingress` | 2 requests, 1 connection, channel 1; 13 sizes around the limits, 12 values for each of two bytes, both encodings | `TypeOK`, `Conservation`, `Genuine`, `SentOnce`; `EveryRequestEnds`; `LimitsFit` is evaluated |
| `reporting` | 2 counters and 2 gauges up to 2 | `LinesAddUp`; `EventsAreLogged`, `CancelStops`, `ExporterStops` |
| `pipeline` | 2 requests, channel 1, worker 1, windows `<<a1>>` and `<<>>` | `WishRespected`, `OnlyOnWish`, `StatsOrdered` |
| `admin_identity` | 2 calls, 2 keys | `Agreement`; `Adopted`, `Served` |
| `lifecycle` | every configuration | `CleanExit`; `RpcEndsProcess` |

Bounds. Two transactions are one withheld and one that arrives while it waits,
passes it or triggers its release; larger numbers are covered by the theorems
about the same properties. A channel of one makes flush messages and
transactions compete for the only slot. Two leaders give a window in which only
the second is blocked. In `Shield` the validators exchange addresses and lose
one; one account has an entry cut one byte short. Two counters are the smallest
snapshot that can be torn. In `delivery` a release of two does not fit a worker
of one, and either leader's worker may be full or gone while the other's is not.
In `pipeline` two requests overtake each other between channel and counters;
clients choose among six bodies (`Bodies`), one of each kind that is treated
differently. Two admin calls can cross in every way, one of them may ask while
the other sets. The sizes and bytes of `ingress` are the limits with their
neighbours and the values around the v1 prefix and the seams of the base64
alphabet. `CHECK_DEADLOCK FALSE` is set for `SlotWatch`, `Ingress`, `Pipeline`,
`Lifecycle` and `SendMetrics`: there the process, the task or the request really
ends. Bounds in guards: `MaxEnqueued`, `MaxDropped` (TpuClient), `MaxUpdates`
(SlotWatch), `MaxCount` (TransactionStats), `MaxSent` (SendMetrics).

### What the code does and a text says otherwise

* `iris_boot`: the change log (`CHANGELOG.md:83`) says the feature is there "to
  prevent users from sending transactions to malicious leaders". The blocked set
  is empty until the first refresh succeeds (`src/broadcaster.rs:42`), and
  sending does not wait for it. What holds instead is `ShieldedRelease`: from
  the first good refresh on, leaders denied since before it are spared.
* `slot_watch_cancel`: a test is named `cancellation_is_not_a_failure`
  (`src/websocket_node_address_service.rs:189`) and uses a pending stream. When
  the server closes the subscription, or the 30 s are over, by the time the task
  is polled with the token set, `select!` may pick that branch, and the error
  aborts the process during an orderly shutdown.

Two more were met while `Lifecycle` was written. Both are read off one line and
concern a setting read once at the start, so no run is spent on them:

* the configuration's comment (`src/main.rs:84`) says "Runtime config for the
  QUIC server (default: 2 threads, no pinning)" and the change log
  (`CHANGELOG.md:40`) calls `QUIC_RT__NUM_THREADS` optional. The code zips the
  two settings (`src/main.rs:262`, `WantsQuic`): with an address and no runtime
  settings there is no QUIC server, and the process runs without it.
* `LEADERS_FANOUT` "determines how far into the future leaders are estimated"
  (`src/main.rs:71`). `leaders_fanout + 1` (`src/main.rs:219`) is an addition in
  u8: 0 for 255 in a release build, a panic in a debug build.

### Fairness

Weak fairness for steps of tokio tasks and timers: a task that can run, runs,
and an interval fires. Strong fairness only where `select!` keeps finding
another branch ready besides the cancellation: it polls in random order. For
the refresh thread strong fairness of the two RPC answers is an assumption about
the RPC node (asked again and again, it answers some day); without it
`Converges` is not to be expected. Clients, leaders, workers, the websocket
server (and with it `Connect` and `Close` of `SlotWatch`) and, until the token is
set, the leader cache have no fairness. In
`Lifecycle` nothing makes the JSON-RPC server end, panic or abort; in
`AdminIdentity` only the admin thread, except where it reads a file, and the
scheduler's task are fair; in
`SendMetrics` only the exporter, and when `main` drops its runtime is open.

`Drains` assumes that from some time on neither the current window nor the one
the scheduler has asked for already contains a blocked leader. The second half
is needed: window and set are read at different moments. `StopReturns` assumes
`Answers` (the server answers) and `Served` assumes `ReadsReturn` (reading the key
file returns): the code bounds neither wait.

## Proofs

All are for arbitrary constants under the named assumptions of the modules
(`ConstantsAssumption`, `WindowsAssumption`, `ShieldAssumption`,
`IrisAssumption`, `StatsAssumption`, `IngressAssumption`, `DecodeAssumption`,
`PipelineAssumption`, `SlotWatchAssumption`), which TLC evaluates in the runs.
Every safety property that a passing run checks is also a theorem.

* `TpuClientProofs`: `PayloadRoundTrip` (flag and bytes survive, no payload is a
  flush message), `TypeCorrect`, `SafeReleaseCorrect`, `ExactlyOnePlaceCorrect`,
  `BufferAccountingCorrect`, `WorkerFIFOCorrect` and `Refinement` (the client
  implements `FifoRelay`). None of these is inductive alone. The invariant
  `Inv` says: the places a transaction can be in are disjoint and cover what was
  accepted; each place is sorted; the flag byte in a message is the class the
  sender asked for; everything in a later place of the same class is older than
  everything in an earlier one (worker before batch before buffer before hand
  before channel); only protected transactions wait; and a batch with a
  protected member has a free window. The order across places is what makes
  releasing the buffer in front of the triggering transaction right.
* `ShieldProofs`: `TypeCorrect`, `SteadyBlockedCorrect`. The strengthening says
  that a pair pending in a refresh under way has the address of the node table
  already fetched, so storing can lose none.
* `TransactionStatsProofs`: `TypeCorrect`, `LinesAddUpCorrect`. The
  strengthening says that what is loaded so far lies between the last snapshot
  and the counters, so `saturating_sub` never saturates. `ReportingIsStats`: with
  the exporter of `SendMetrics` beside it the task still behaves like this.
* `IngressProofs`, the servers: `TypeCorrect`, `SentOnceCorrect`,
  `GenuineCorrect`, `ConservationCorrect`, `FlagsCountedCorrect`. `SentOnce` and
  `Genuine` follow from one invariant: what was sent is what is in the channel
  or has left it, without repetition, and each message is still the one its
  request would make now (`Recorded`), which needs that a request's body never
  changes after it was read. `Conservation` is inductive by itself once the
  totals are named (`Received`, `Settled`): each step moves one request into or
  out of `InFlight`. `FlagsCounted` relates the count of protected requests to
  the set of those past that count.
* `IngressProofs`, the size limits: `Base64ExactCorrect`, `Base58ExactCorrect`,
  `QuicTakesAllCorrect`, `BoundedCorrect`, for every size and every value of the
  bytes. The lemmas say that the text limits are implied by the
  byte limits (`Lengths`), that a v1 prefix always sorts at or after `gQ` and a
  legacy one before it (`V1Prefix`, `LegacyPrefix`).
* `SystemProofs`, deliveries: `GivenInOrderCorrect` and `LossIsOwnCorrect`; a
  delivery is a behaviour of the client (`DeliveryIsClient`), so `Inv` is
  available. Only these use `WindowsAssumption`. For the
  first, `GivenInv` says: what a worker was given is either done or, for the
  leaders before the cursor, the transaction whose turn it is (`Past`). With the
  order across places that makes every new gift later than the earlier ones of
  its class. For the second, `CallInv` says: a worker that has lived through the
  call holds no more than it held at its beginning plus what it was given
  (`RoomLeft`), so a full channel means that it was given all it had room for;
  and in the middle of a turn the leaders before the cursor have had one chance
  more than those behind it (`Progress`).
* `SystemProofs`, the refresh thread (`Iris`): `IrisIsShield` and `IrisIsClient`
  (the composition implements both specifications), and from the invariants of
  the two `ShieldedReleaseCorrect`.
* `SystemProofs`, the servers (`Pipeline`): the composition implements both of its
  parts (`PipelineIsClient`, `PipelineIsIngress`), so all theorems about them hold of
  it. `OneChannelCorrect`: the two views of the channel agree in every state, in
  length, in being closed and in whose message is where; so the two modules never
  disagree about whether a send succeeds. The invariant
  `Traced` ties the n-th accepted transaction to one request, the same one for
  ever and no other's, with the flag of that request; from it and the client's
  `Inv` follow `WishRespectedCorrect` and `OnlyOnWishCorrect`. For
  `StatsOrderedCorrect` each buffered transaction is counted when it is evaluated
  and only then (`BufferedCounted`), and `source` maps the protected transactions
  one to one into the requests that `FlagsCounted` counts. It is about the atomics
  at one moment; a log line, loaded counter by counter, may show more buffered
  than protected.
* `SlotWatchProofs`: `TypeCorrect` and `SlotOrderCorrect`, where `Queued` states
  the order of the channel, the event in hand and the unread notifications place
  by place.
* `LifecycleProofs`: `CleanExitCorrect`, where `RunInv` says for each statement of
  `run()` what it has started and what it has seen end.
* `AdminIdentityProofs`: `AgreementCorrect`, where `AdminInv` says that the thread
  is inside one handler at most and that between `update_identity` and the
  assignment after it the handler still has the key it handed over.

Only model-checked: every liveness property (`Drains`, `PlainFlows`,
`CancelStops`, `Converges`, `Watchdog`, `StopReturns`, `EveryRequestEnds`,
`EventsAreLogged`, `ExporterStops`, `Adopted`, `Served`,
`RpcEndsProcess`), since fairness and ENABLED are outside the prover, and the two
properties the code violates.

## Not modelled

* `http_middleware.rs` and `otel_tracer.rs`, with `init_tracing`: they observe
  requests or set up logging and keep no state that the program reads.
* `runtime.rs`: builds the tokio runtimes; its hook pins threads to CPUs in
  turn. No property above depends on where a thread runs.
* TLS and transport parameters of the QUIC endpoint (`configure_server`): they
  are handed to quinn, whose behaviour they tune.
* Prometheus counters and histograms that are incremented next to the ones of
  `transaction_stats`: written and never read.
* The inside of solana-tpu-client-next, quinn, jsonrpsee, tokio and the base64
  and base58 crates, which appear as the program uses them. An eviction from the
  worker cache (`max_cache_size`) looks to the broadcaster like a worker that
  ended.
* u64 counters do not wrap in the models: at one event per nanosecond that
  takes centuries.

## Plan

1. `TpuPayload`, `TpuClient`, `FifoRelay` with proofs - done.
2. `Shield`, `Iris` with proofs - done.
3. `SlotWatch`, `Ingress`, `TransactionStats` - done.
4. `DecodeTransaction` with proofs - done.
5. `AdminIdentity`, `Lifecycle`, `SendMetrics` - done.
6. `Delivery` with the proof of `LossIsOwn`, `Pipeline` - done.
7. Proofs of the remaining safety properties (`IngressProofs`, `SystemProofs`,
   `SlotWatchProofs`, `LifecycleProofs`, `AdminIdentityProofs`) - done.
8. Left: invariants of the exporter's gauges in `SendMetrics` (never ahead of what
   they copy), and the two halves of `Iris` and `Pipeline` in one composition, for
   which the theorems `IrisIsClient` and `PipelineIsClient` are the pieces.
