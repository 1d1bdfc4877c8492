# luckfox_rknn_grpc: verification project

TLA+ models, TLC runs and TLAPS proofs for the RKNN accelerator server and its
Python client. Each module is written from the source file its header names;
`PROJECT.json` maps every definition to the lines it stands for.

## The system

A Luckfox board (one NPU, one YOLOv5 model) runs a C++ gRPC server. Clients find
it by UDP broadcast, open the one session it grants, send images and get
detections. The Python client is a library and a Tk program that also plays
videos and runs inference on their frames.

| Component | Source | State | Operations | What makes it correct |
| --- | --- | --- | --- | --- |
| Session store | `server/src/session_store.cc` | table id -> (model, last access), generator | open, validate, close, count; each prunes (close does not) under one mutex | capacity, no resurrection, no eviction of live sessions, idle sessions reclaimed |
| Accelerator engine | `server/src/accelerator_engine.cc` | shared input and output tensors, `npu_mutex`, `waiting` | infer, queue_depth | mutual exclusion, own detections, exact queue depth, progress through every error return |
| gRPC service | `server/src/grpc_server.cc` | running handlers | Health, OpenSession, Infer, StreamInfer, CloseSession, (GetServerInfo, GetPerformance) | one holder, responses in order, closed stays closed, every call answered |
| Server lifecycle | `server/src/grpc_server.cc` (`server_run`) | objects created so far, signal thread, gRPC server | startup, error returns, signal, shutdown, teardown | no use before creation or after destruction, nothing left behind, a signal ends it |
| Discovery service | `server/src/discovery_service.cc` | socket, `stopping`, worker | start, loop, stop | the worker ends and never outlives what it uses |
| System metrics | `server/src/system_metrics.cc` | last CPU sample | create, read | percentages in range |
| Command line | `server/src/main.cc` | options | parse | limits non-zero |
| Client library | `client/rknn_client.py` | channel, stub, session id | connect, infer, close, discover, health, performance | never two clients connected; lost answers, late closes and crashes are survived |
| GUI video pipeline | `client/tk_app.py` | two one-slot queues, event queue, generation, stop events | start, stop, capture, inference, poll | nothing stale shown, no silent death, threads end |
| GUI operations | `client/tk_app.py` | enabled buttons, dialog, event queue, one client used by all workers | scan, connect, close, refresh, infer, video, exit | the buttons come to match the connection; operations that cross leave no half a connection |
| Service scripts | `deploy/initd`, `deploy/install_service.sh`, `start_server.sh` | PID file, process | start, stop, restart, install | one server, never one that stop does not find |
| Updater | `deploy/update_server.sh` | the installed, the old and the new tree | local and remote update | password and a whole package survive |

Interaction: client library and GUI call the gRPC service; its handlers share
the store and the engine; the discovery worker counts sessions in the same store
through a callback; `server_run` creates and destroys all of them; the init
script starts and signals the process.

What is hard here: handler threads interleaving over store and engine; a session
checked once and used long after; sessions that outlive their clients (lost
answers, crashes) and calls that outlive their sessions; failures while the
mutex is held; teardown under running threads; video threads that nobody joins
and that share queues with their successors; a client object without a lock used
by several workers; scripts cut off between two commands. `PROJECT.json` lists these hazards
at their lines with the properties that cover them.

## Modules

| Module | Role |
| --- | --- |
| `ExclusiveLease` | abstract: a lease service with capacity and term |
| `SessionStore` | the store; one action per operation and outcome; `Lease` is its refinement mapping |
| `AtomicInference` | abstract: an inference answered in one step from the caller's own image |
| `AcceleratorEngine` | the engine; one action per access to shared state; `Atomic` is its refinement mapping |
| `GrpcServer` | the handlers; composes one `SessionStore` and one `AcceleratorEngine` |
| `MCGrpcServer` | `GrpcServer` with the symmetry set for TLC |
| `DiscoveryService` | start, worker and stop of the UDP responder |
| `ServerLifecycle` | `server_run`; composes `DiscoveryService` |
| `RknnClient` | several client processes on a lossy network; composes one `SessionStore` |
| `SharedClient` | one client object used by several threads, statement by statement |
| `AcceleratorApp` | the window: buttons, workers, events; extends `SharedClient` |
| `MCAcceleratorApp` | `AcceleratorApp` with the symmetry of its workers for TLC |
| `VideoPipeline` | the video threads of the GUI |
| `Deployment` | init script, updater, board |

`SessionStoreProofs`, `AcceleratorEngineProofs`, `GrpcServerProofs`,
`ServerLifecycleProofs`, `RknnClientProofs`, `AcceleratorAppProofs`,
`VideoPipelineProofs` and `DeploymentProofs` hold the theorems about the modules
they are named after.

Operators whose comment begins with "Mutated" are plausible bugs; nothing
refers to them in the models. `PROJECT.json` "mutants" pairs each checked
property with one that it refutes.

### How state and actions correspond to the code

**SessionStore.** Each C function holds `store->mutex` from its first access to
its return, so each is one action per result: `Open`/`OpenRefused` (0, -2),
`Validate`/`ValidateRefused`, `Close`/`CloseRefused`, `Count`. The argument
checks for NULL are unreachable from the server and left out. `Pruned` is
`session_store_prune_locked`; `Open`, `Validate` and `Count` apply it, `Close`
does not. The code keeps `last_access` and only ever uses `now - last_access`;
the model keeps that difference, `idle`, in ticks and caps it at the timeout, the
largest value the code tells apart. Ids are 128 bits from `mt19937_64`: the model
assumes that no id is drawn twice (`random`), which holds with overwhelming
probability and which `NoResurrection` and `LateCloseHarmless` rest on.

**AcceleratorEngine.** A thread's `stage` is where it is in
`accelerator_engine_infer`. Between two stages lies exactly one access to shared
state: the atomic counter, the mutex, `input_mems[0]`, `output_mems`. An image,
its resized copy and its detections are one value, because what matters is whose
they are. A failed `rknn_run` leaves any content in the outputs; both it and
`post_process` (external) may fail.

**GrpcServer.** A handler that enters the store once is one action. `Health`
enters it and then reads the queue depth: two actions. `run_inference` is
`ValidateSession` (the store's critical section), `CheckRequest` (the tests of
the image and the call of the engine), `EngineStep` for the engine's actions, and
`AnswerInference` (error mapping, or the response made). A response counts as
`sent` when it leaves the handler: for `Infer` when it returns, for `StreamInfer`
when its `Write` succeeds. A `Write` that fails ends the stream with OK and that
one response unsent; it stays in `reply`. `StreamInfer` goes round
`Read` -> ... -> `Write` -> `Read`. gRPC calls a handler once per RPC; an RPC is
a member of `Calls`.

**DiscoveryService, ServerLifecycle.** `main` is the next statement group of
`server_run`; every error return is the alternative of the step that fails, with
its code and its own chain of destructions. A handler is only "running": what it
touches is checked as "all three objects alive". Signals kill the process before
`pthread_sigmask` and are pending after it. `session_store_create` cannot fail
there, since `main` refuses zero limits.

**RknnClient.** Each client runs one operation at a time: `connect` is `close`,
`Health` (which stands for channel readiness and `GetServerInfo` too) and
`OpenSession`. A call is pending, then answered; a deadline may strike in
between, which abandons the call to `orphans`, where the server may still handle
it or it is lost. Of the server only the store matters here.

**SharedClient, AcceleratorApp.** `RknnClient` has no lock, and the Tk program
calls it from a new thread per operation. `connect` and `close` are modelled
statement by statement (`stage` names the statement that comes next), the reading
operations by their accesses to `stub` and `session_id`. The handlers of buttons
and events are one step of the Tk thread each; `connected`, which they read once,
is read in that step. `close` tests `stub` and `session_id`, reads `stub`
(`ReadStub`) and then `session_id` for the call (`CallClose`): three accesses with
no lock around them. A worker's last step and its `events.put` are one, for
nobody can see the time between. A dialog for the source of a video that has been
left open (`video_dialog`) starts a video whatever the button that opened it shows
by then. `disturbed` and `overlapped` are history:
they record that a connect or close ran beside another operation.

**VideoPipeline.** One capture and one inference thread per video, identified by
the generation they were started with. `_put_latest` is its three queue
operations, because the two other threads may come in between. `PollFrame` and
`PollEvent` are the two halves of `_poll_events`. A frame or an event is the
generation it carries: no decision of the code depends on anything else in it.
`video_error` and `video_end` are handled alike, and so are one event.
`AcceleratorApp` sees of a video only whether it runs.

**Deployment.** A script is the sequence of commands it still has to run; each
action executes the first one. Of a tree only its package and its password
file count. One script runs at a time. `start` is three steps: launching the
server (`StartServer`, which remembers it in `launched`), writing its PID
(`WritePid`) and the check a second later (`CheckServer`). A crash of the server,
a reboot, an interrupt or a lost connection may come between any two commands. Of
the commands these may fail: `Stage` and `Upload` (a part of the package arrives),
`CopyPassword`, `RemoveOld` (cut off half done), `Promote` of a package in `/tmp`
(while it copies, or while it removes the source) and `WritePid`. Whether a partial
package has the binary and the model that `start` looks for, or the two files that
a local update looks for, is left open: it may. After a reboot the numbers of old processes may belong to new
ones, and what was in `/tmp` may be gone.

## Runs

| Run | Config | Shows |
| --- | --- | --- |
| `session_store` | `SessionStore.cfg` | capacity, no resurrection, no eviction, reclamation of idle sessions, refinement of `ExclusiveLease` |
| `accelerator_engine` | `AcceleratorEngine.cfg` | exclusion, queue depth, own detections, progress, refinement of `AtomicInference` |
| `server_safety` | `GrpcServer.cfg` | handlers interleaved: one holder, responses written in the order of the requests and at most the one whose `Write` failed missing behind an OK, one acknowledged close per session and its finality, refusal only while a session is live |
| `server_progress` | `ServerLive.cfg` | every call is answered |
| `ownership` | `ServerOwnership.cfg` | violation: a request of an expired or closed session is on the NPU while another client's session is live |
| `client_sessions` | `RknnClient.cfg` | clients over a lossy network, with timeouts and crashes: one connected at most, late closes harmless, leaked sessions reclaimed |
| `video` | `VideoPipeline.cfg` | two overlapping videos: nothing stale shown, no thread dies unannounced, the threads of a stopped video end |
| `video_stop` | `VideoStop.cfg` | violation: after an inference error Stop no longer reaches the capture thread |
| `video_put` | `VideoPut.cfg` | violation: `queue.Full` from a leftover thread of the earlier video ends the current one |
| `server_lifecycle` | `ServerLifecycle.cfg` | startup, error returns, teardown: no use of missing objects, nothing left, a signal ends the server |
| `app_controls` | `AcceleratorApp.cfg` | operations that cross in the window: the buttons settle, no busy window without a reason, the client whole and free of internal errors as long as connects and closes do not overlap |
| `deployment` | `Deployment.cfg` | scripts, failures and reboots: a failure costs the PID file one server at most, and without one it never misses the server; the password survives what does not fail, a whole package one failure |

The three violations are findings, in `PROJECT.json` with the lines of code and
documentation that disagree.

What the models show besides, without a run of its own:

- Closing a session that has expired and has not been pruned yet answers
  `closed=true` (`session_store.cc` does not prune in close), where
  `docs/API.md:47` says `false`. `ClosedOnce` and `ClosedStaysClosed` hold all
  the same.
- `RowsCollide`: a second scan that fills a dialog which still has the rows of
  the first raises a `TclError` in `_poll_events`, which is then never scheduled
  again. The properties of the window are stated for `polling`.
- Connect and close can overlap (a row of the scan dialog stays usable while an
  operation runs; so does the window's close button). The fields may then belong
  to two connections; `ConnectionWhole` and `InternalErrorOnlyByOverlap` say that
  nothing else makes them so.
- A PID file that names another process makes `start` do nothing and `stop` end
  that process (`deploy/initd`). `ServerTracked` is about the server's side.
- A script cut off between the launch and the writing of the PID
  (`deploy/initd/luckfox-rknn-grpc:79-89`), or an `echo` that fails, leaves a
  server that no `stop` finds, and the next `start` launches another beside it.
  `ServerTracked` allows one such server per failure: with one failure there may
  be two servers.
- `PasswordKept` needs `failures = 0` and `PackageSurvives` at most one: an
  update that is cut off and run again removes the tree it had backed up, and
  the password with it; a second failed transfer leaves no whole package.
- `docs/BUILD_AND_DEPLOY.md:54` says that the install script starts the server;
  `install_service.sh` only shows its status.

### Bounds

- `SessionIds`: four in the store's own run (two live at once, two to replace
  them), two where the server's single session is what matters: one is live
  while the other is a dead or a new one. Ids are never reused, so the set also
  bounds the sessions of a behaviour; in `ServerLive.cfg` one is enough for
  requests that are let through and requests that are not.
- `IdleTimeout`, `TicksPerSecond`: 2 x 2 in the store's run, so that truncation
  to seconds has fractions to lose; 1 x 2 and 2 x 1 elsewhere. Only whether the
  timeout is reached counts there.
- `Threads`, `Calls`: three; a holder of the NPU, one waiting, one overtaking or
  failing. `ServerOwnership.cfg` needs four calls: two opens, an inference and
  its predecessor's end. The lifecycle needs two, one that ends and one that
  goes on.
- `MaxRequests`: two per stream, so that there is an order of responses and a
  first request to be trusted wrongly.
- `Images`: one for each branch of the checks and one more decodable one.
- `MaxOrphans`: two abandoned calls under way; orphans are a set, so two equal
  ones count once. They would act in sequence and the second finds nothing to do.
- `MaxVideos`: two, the current one and one whose threads are left over.
- `MaxEvents`: the code's event queue is unbounded. In the model a response that
  finds `MaxEvents` events waiting is dropped (a frame skipped, as far as the
  thread goes); the end of a thread is always put. No thread waits for room.
- `MaxActive`, `Threads` of `AcceleratorApp.cfg`: two operations at once, which is
  where fields are torn apart; the Tk thread and two workers. `Connections`: one
  granted session; a refused connect needs none.
- `Pids`: four; two servers that two failures have put out of reach, a third that
  the PID file names, and a stranger. `MaxFailures`: two scripts failed or cut off,
  one more than `PackageSurvives` forgives and enough for `ServerTracked` to count.
- `MaxDatagrams`: two, a probe behind something that is not one.

`CHECK_DEADLOCK FALSE` stands in the video, lifecycle and window configurations,
where the program really ends: the last video's threads exit, the process exits,
the window is destroyed.

### Fairness

- Handler threads and engine steps: weak fairness per thread. `std::mutex`
  promises no order, so nothing says that a given waiter is ever served:
  `NpuServesSomeone` and not "everyone is served" is what the engine's run
  shows. `CallsAnswered` holds all the same because a behaviour has finitely
  many calls.
- `WF(ReadEnd)` and `WF(End)`: clients end their calls. This is an assumption about
  them and not what the code does: the server cannot force them, and without it a
  silent `StreamInfer` keeps its handler, and `Shutdown()`, waiting. So
  `SignalEndsServer` says nothing of a client that never ends its stream. It is
  named at the formula.
- `WF(Tick)`: time passes.
- Client calls end by an answer or by their deadline (`timeout=` on every call).
- Video threads: weak fairness for each thread; `infer_bytes` has a timeout of 5 s,
  `get` one of 0.1 s, and the puts do not block. `capture.read` is given a read
  timeout for URLs only: that it returns for a file or a camera is assumed.
  Nothing is assumed of the Tk thread: `ThreadsEnd` is about what follows
  once the stop event is set.
- `AcceleratorApp` and `Deployment` state no fairness and no liveness. The window
  cannot promise that an operation's end is ever shown, since `RowsCollide` may
  end polling; scripts are run, and run again, by people.

## Proofs

The theorems hold for all values of the constants the modules' assumptions allow.
Each module proves one inductive invariant and reads the properties off it. Besides
the properties of the runs, the proof modules state some of their own: what limits
the findings, and what remains of each liveness property when fairness is taken
away (see below).

`SessionStoreProofs`. `SafeStore` is the inductive invariant: `TypeOK`, a finite
table, and `CapacityRespected`. Finiteness is needed because `Cardinality` says
nothing about infinite sets. `ExpiredAtTimeout` shows that truncating to seconds
does not move the moment of expiry, since the timeout is a whole number of
seconds; with `PrunedTable` and `StoredTable` it gives `StoreNoResurrection`,
`StoreOnlyCloseOrTimeEnds` and the step simulation of `StoreImplementsLease`: a
tick of the store is a tick of the lease service, and pruning is invisible to it.
`StoreOnlyUseRenews` follows the idle time of one live session through the same
steps.

`AcceleratorEngineProofs`. `SafeEngine` says who holds the mutex, whose data are
in the tensors at each stage of the holder, and what a result may be;
`ExclusiveNpu` is part of it and is what keeps the other threads from
disturbing the tensors. `QueueDepthExact` is proved inductive beside it from how
`Cardinality` changes when one thread enters or leaves. `EngineImplementsAtomic`
maps the step into "returned" to the abstract answer. `EngineHolderLeaves` counts
the stages from `Lock` to `Unlock`; `ExclusiveNpu` is why another thread's step
does not count.

`GrpcServerProofs`. The composition. `SafeCalls` ties each handler's phase to what
it has read and written and to its stage in the engine; `SafeParts` are the
invariants of the store and the engine, taken from their own proof modules by
instantiation: `StoreSame` and `EngineSame` show that the instance a server
contains and the instance the theorems are about are one, and every step of a
handler is a step of each part or leaves it alone. `ServerContainsStore` and
`ServerContainsEngine` are that fact as theorems. `Granted`, proved on top,
is the ledger of sessions: each drawn id was given to exactly one `OpenSession`,
each acknowledged close names an id that is out of the table, no two the same.
`AnswersInOrder` is read off `SafeCalls`, which has at each phase how many of the
requests read are answered, and at the end of a stream whether `Write` failed.
With it `OneHolder` follows from the store's capacity of one, and
`ClosedStaysClosed` because an id is drawn once. The refinements are carried up:
`ServerImplementsLease` and `ServerImplementsInference` say that the store and the
engine keep their promises to the handlers' clients, through `LeaseSame` and
`AtomicSame`, which identify the two instances of each abstract module.

The run `ownership` refutes that a request on the NPU still has the live session.
Two theorems say what is left of exclusive ownership: in the step in which
`validate_session` lets a request through its session is the only live one
(`ServerAdmittedExclusively`), and from there on it was handed out by `OpenSession`
and shares the table with no other while it lives (`ServerOnlyHoldersInfer`).

`RknnClientProofs`. `SafeClients` says that every session drawn has at most one
owner (a client that has it, or whose `OpenSession` is on its way back) and that
an abandoned `CloseSession` names a session nobody owns. The store is again
instantiated from its own proofs, and so is its refinement
(`ClientsImplementLease`). `ClientsForgottenOnlyAge` takes a session that is
`Named` nowhere, in no client and in no call: no step names it again (`NamesStay`),
so every step of the store but the clock is `Untouching` for it.

`ServerLifecycleProofs`. `SafeLifecycle` describes, for every position of the
main thread, what may exist and run. `StopPlaced` adds where
`discovery_service_stop` stands; from the two follow `LifecycleWaitsAnswered` (no
wait is for a thread that was not told to end) and `LifecycleOnlyNearsEnd`, with
the distances `EndLeft` and `WorkerLeft` to the exits.

`VideoPipelineProofs`. `SafeVideo`: generations still to come are untouched
(`Fresh`), the running video has the current one (`Current`), and a thread of it
that is on its way out has put its event, or been told to stop by the other,
which has (`Told`). `Bounded` counts: each video takes two generations and each
of its threads announces its end once, which is what bounds the events. `Reasons`,
inductive over it, delimits the two findings about videos: Stop is lost only when
an exception has ended the inference thread (`VideoStopLostOnlyByError`), and
`_put_latest` fails only by a frame of another video (`VideoFullOnlyByLeftover`;
a thread that has emptied a slot does not find its own frame there, `SlotsOwn`).
`VideoStoppedEnds` counts the steps a stopped thread has left.

`AcceleratorAppProofs`. `SafeClient` states for each statement of connect and
close what the thread finds in the fields (`Found`), as long as no two have
overlapped (`Orderly`). `SafeApp` adds that a finished worker is in the queue
exactly once, that nobody starts a connect or close while the window is being
closed (`ExitAlone`), and `Settling`: an event that will update the buttons is
awaited, or they are right but for what a bad file or a running refresh explains.

`DeploymentProofs`. `SafeDeployment`: which commands can still follow which
(`Shape`), where the three trees are given the commands to come (`TreesPlaced`),
which process the PID file and `launched` can name there (`PidPlaced`), and how many
servers nothing names (`Tracked`). What makes `ServerTracked` inductive is that a
script moves the PID file away with the old tree only after its stop has waited for
the process the file named, so no server within reach is lost by it. `Charged` says
it of every step: the set of untracked servers does not grow, or grows by one while
`failures` does; with the theorems on the cardinality of finite sets that bounds
both counts.
On top of it `Placed` says at which command the password and a whole package are
in which tree, before any failure and after one; `PasswordKept` and
`PackageSurvives` follow for any number of scripts.

Model-checked only: all liveness, because the prover handles neither fairness nor
`ENABLED`. For five of the six properties the part that is not about fairness is
proved: no step undoes the progress, and each step that counts makes some.

| Model-checked | Proved of it | What only TLC shows |
| --- | --- | --- |
| `IdleSessionReclaimed` | `StoreOnlyUseRenews` | time passes |
| `LeakReclaimed` | `ClientsForgottenOnlyAge` | time passes, abandoned calls come to an end |
| `NpuServesSomeone` | `EngineHolderLeaves` | the holder takes its next step; some waiter locks a free mutex |
| `ThreadsEnd` | `VideoStoppedEnds` | the two threads take their next step |
| `SignalEndsServer` | `LifecycleOnlyNearsEnd`, `LifecycleWaitsAnswered` | threads take their steps, running calls end |
| `CallsAnswered` | - | all of it |

The table's theorems do not add up to the liveness properties: that a next step
is enabled is not among them. Every other property of a passing run is a theorem.
Not stated as theorems yet: that `SharedClient` used by one thread at a time
behaves as a client whose operations are atomic, and anything of
`DiscoveryService` apart from `server_run`, which owns its state.
Assumed: the `ASSUME`s in the modules, and that ids do not repeat.

## Not modelled

- Image decoding, scaling, post-processing arithmetic and detection options;
  board and model information; the JSON of discovery; logging, drawing, layout,
  zoom and the result viewer of the window.
- `GetServerInfo` and `GetPerformance`: they change nothing the other handlers
  see. `Health` is modelled, with its two separate readings. Authentication is a
  boolean.
- `system_metrics.cc`: it parses `/proc`; its one state, the last CPU sample, is
  updated under a mutex, and what could go wrong is arithmetic on numbers the
  kernel supplies.
- The option parser of `main.cc`, and the arithmetic on `max_image_bytes` between
  it and the message size: one expression on a start-up option, with no state.
- The numbers of file descriptors: that one opened while `discovery_service_stop`
  closes the socket gets the same number, and the worker receives from it, cannot
  happen in the model.
- In `update_server.sh`: an `rm -rf` or the `mv` of the back-up that returns an error
  and lets the script go on, after which a tree would be moved into another; and
  writes that a power failure takes back.
- `install_service.sh`, which copies files once, and `start_server.sh`, the older
  starter with its own PID file, which the init script does not know.
- Build, packaging, code generation and board setup: no state while the
  system runs. The tests were read as documentation.

Hazards that no property covers are in `PROJECT.json` with the reason.
