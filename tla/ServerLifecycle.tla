---------------------------- MODULE ServerLifecycle ----------------------------
(***************************************************************************)
(* server/src/grpc_server.cc, server_run: startup with its error returns,  *)
(* serving, and the ordered teardown after SIGINT or SIGTERM, while gRPC   *)
(* handlers, the signal thread and the discovery worker run.               *)
(*                                                                         *)
(* The objects are followed from creation to destruction.  What a handler  *)
(* does is in GrpcServer; here it is a user of all three of them.          *)
(* Composes DiscoveryService.  The gRPC server object is external:         *)
(* Shutdown() without a deadline lets running calls end and takes no new.  *)
(***************************************************************************)
EXTENDS Integers, Sequences

CONSTANTS Calls,       \* the RPCs of a behaviour
          MaxDatagrams \* what the discovery socket buffers

ASSUME LifecycleAssumption == MaxDatagrams \in Nat

VARIABLES main,          \* what server_run does next
          exit_code,     \* what it returns, once decided
          engine, sessions, metrics, \* "none", "alive" or "destroyed"
          server,        \* "none", "listening", "draining" or "stopped"
          call,          \* of each RPC: "none", "running" or "done"
          signalled,     \* a SIGINT or SIGTERM is pending
          signal_thread, \* "none", "sigwait", "Shutdown" or "exited"
          service, stopping, socket_fd, inbox, worker, stop_stage

Discovery == INSTANCE DiscoveryService

objects == <<engine, sessions, metrics>>
grpc == <<server, call>>
signals == <<signalled, signal_thread>>
discovery == <<service, stopping, socket_fd, inbox, worker, stop_stage>>
vars == <<main, exit_code, objects, grpc, signals, discovery>>

Mains == {"create_engine", "create_sessions", "create_metrics", "block_signals",
          "listen", "start_discovery", "abort", "start_signal_thread", "Wait", "join",
          "stop_discovery", "destroy_metrics", "destroy_sessions", "destroy_engine",
          "exited"}

Undecided == -1
Killed == 143 \* by a signal nobody handles

-------------------------------------------------------------------------------

Init == /\ main = "create_engine"
        /\ exit_code = Undecided
        /\ engine = "none" /\ sessions = "none" /\ metrics = "none"
        /\ server = "none"
        /\ call = [c \in Calls |-> "none"]
        /\ signalled = FALSE
        /\ signal_thread = "none"
        /\ Discovery!Init

Goto(from, to) == main = from /\ main' = to

Fail(code) == exit_code' = code

\* accelerator_engine_create
CreateEngine ==
    /\ \/ Goto("create_engine", "create_sessions") /\ engine' = "alive" /\ UNCHANGED exit_code
       \/ Goto("create_engine", "exited") /\ Fail(3) /\ UNCHANGED engine
    /\ UNCHANGED <<sessions, metrics, grpc, signals, discovery>>

\* session_store_create, whose only error, a zero in the configuration, main
\* has ruled out.
CreateSessions ==
    /\ Goto("create_sessions", "create_metrics")
    /\ sessions' = "alive"
    /\ UNCHANGED <<exit_code, engine, metrics, grpc, signals, discovery>>

\* system_metrics_sampler_create, which may be out of memory
CreateMetrics ==
    /\ \/ Goto("create_metrics", "block_signals") /\ metrics' = "alive" /\ UNCHANGED exit_code
       \/ Goto("create_metrics", "destroy_sessions") /\ Fail(5) /\ UNCHANGED metrics
    /\ UNCHANGED <<engine, sessions, grpc, signals, discovery>>

\* pthread_sigmask(SIG_BLOCK)
BlockSignals ==
    /\ Goto("block_signals", "listen")
    /\ UNCHANGED <<exit_code, objects, grpc, signals, discovery>>

\* Mutated: the error return forgets one object.
ListenLeaking ==
    /\ \/ Goto("listen", "start_discovery") /\ server' = "listening" /\ UNCHANGED exit_code
       \/ Goto("listen", "destroy_sessions") /\ Fail(5) /\ UNCHANGED server
    /\ UNCHANGED <<objects, call, signals, discovery>>

\* BuildAndStart: the handlers are running from here on.
Listen ==
    /\ \/ Goto("listen", "start_discovery") /\ server' = "listening" /\ UNCHANGED exit_code
       \/ Goto("listen", "destroy_metrics") /\ Fail(5) /\ UNCHANGED server
    /\ UNCHANGED <<objects, call, signals, discovery>>

\* Mutated: returns the code of discovery_service_start.
StartDiscoveryCode ==
    /\ \/ Goto("start_discovery", "start_signal_thread") /\ Discovery!Start
          /\ UNCHANGED <<exit_code, server>>
       \/ Goto("start_discovery", "abort") /\ Discovery!StartFailed
          /\ Fail(-3) /\ server' = "draining"
    /\ UNCHANGED <<objects, call, signals>>

\* discovery_service_start; if it fails server->Shutdown() is called
StartDiscovery ==
    /\ \/ Goto("start_discovery", "start_signal_thread") /\ Discovery!Start
          /\ UNCHANGED <<exit_code, server>>
       \/ Goto("start_discovery", "abort") /\ Discovery!StartFailed
          /\ Fail(6) /\ server' = "draining"
    /\ UNCHANGED <<objects, call, signals>>

\* ... and returns when the last handler has.
Abort ==
    /\ Goto("abort", "destroy_metrics")
    /\ server = "stopped"
    /\ UNCHANGED <<exit_code, objects, grpc, signals, discovery>>

StartSignalThread ==
    /\ Goto("start_signal_thread", "Wait")
    /\ signal_thread' = "sigwait"
    /\ UNCHANGED <<exit_code, objects, grpc, signalled, discovery>>

\* server->Wait()
Wait ==
    /\ Goto("Wait", "join")
    /\ server = "stopped"
    /\ UNCHANGED <<exit_code, objects, grpc, signals, discovery>>

\* Mutated: leaves the discovery service running while the sessions go.
JoinUnstopped ==
    /\ Goto("join", "destroy_metrics")
    /\ signal_thread = "exited"
    /\ exit_code' = 0
    /\ UNCHANGED <<objects, grpc, signals, discovery>>

\* signal_thread.join(): from here to return 0
Join ==
    /\ Goto("join", "stop_discovery")
    /\ signal_thread = "exited"
    /\ exit_code' = 0
    /\ UNCHANGED <<objects, grpc, signals, discovery>>

\* discovery_service_stop
StopDiscovery ==
    /\ main = "stop_discovery"
    /\ Discovery!StopStep
    /\ main' = IF stop_stage' = "stopped" THEN "destroy_metrics" ELSE main
    /\ UNCHANGED <<exit_code, objects, grpc, signals>>

\* The end of every path: each destroys what it had created.
DestroyMetrics ==
    /\ Goto("destroy_metrics", "destroy_sessions")
    /\ metrics' = "destroyed"
    /\ UNCHANGED <<exit_code, engine, sessions, grpc, signals, discovery>>

DestroySessions ==
    /\ Goto("destroy_sessions", "destroy_engine")
    /\ sessions' = "destroyed"
    /\ UNCHANGED <<exit_code, engine, metrics, grpc, signals, discovery>>

DestroyEngine ==
    /\ Goto("destroy_engine", "exited")
    /\ engine' = "destroyed"
    /\ UNCHANGED <<exit_code, sessions, metrics, grpc, signals, discovery>>

-------------------------------------------------------------------------------

\* SIGINT or SIGTERM: it ends the process before pthread_sigmask, and is pending
\* from then on.
Signal ==
    /\ ~ signalled /\ main # "exited"
    /\ signalled' = TRUE
    /\ IF main \in {"create_engine", "create_sessions", "create_metrics", "block_signals"}
         THEN main' = "exited" /\ exit_code' = Killed
         ELSE UNCHANGED <<main, exit_code>>
    /\ UNCHANGED <<objects, grpc, signal_thread, discovery>>

\* The signal thread: sigwait, server->Shutdown(), which returns when the server
\* has stopped.
SignalThread ==
    /\ \/ /\ signal_thread = "sigwait" /\ signalled
          /\ signal_thread' = "Shutdown"
          /\ server' = "draining"
       \/ /\ signal_thread = "Shutdown" /\ server = "stopped"
          /\ signal_thread' = "exited"
          /\ UNCHANGED server
    /\ UNCHANGED <<main, exit_code, objects, call, signalled, discovery>>

\* A handler begins ...
Begin(c) ==
    /\ server = "listening"
    /\ call[c] = "none"
    /\ call' = [call EXCEPT ![c] = "running"]
    /\ UNCHANGED <<main, exit_code, objects, server, signals, discovery>>

\* ... and returns.
End(c) ==
    /\ call[c] = "running"
    /\ call' = [call EXCEPT ![c] = "done"]
    /\ UNCHANGED <<main, exit_code, objects, server, signals, discovery>>

\* gRPC: shutting down is over when no handler runs any more.
Drained ==
    /\ server = "draining"
    /\ \A c \in Calls : call[c] # "running"
    /\ server' = "stopped"
    /\ UNCHANGED <<main, exit_code, objects, call, signals, discovery>>

DiscoveryWorker == /\ main # "exited"
                   /\ Discovery!Worker
                   /\ UNCHANGED <<main, exit_code, objects, grpc, signals>>

Datagram == /\ \E probe \in BOOLEAN : Discovery!Arrive(probe)
            /\ UNCHANGED <<main, exit_code, objects, grpc, signals>>

-------------------------------------------------------------------------------

Main == \/ CreateEngine \/ CreateSessions \/ CreateMetrics \/ BlockSignals
        \/ Listen \/ StartDiscovery \/ Abort \/ StartSignalThread \/ Wait \/ Join
        \/ StopDiscovery \/ DestroyMetrics \/ DestroySessions \/ DestroyEngine

Next == \/ Main
        \/ Signal \/ SignalThread
        \/ \E c \in Calls : Begin(c) \/ End(c)
        \/ Drained
        \/ DiscoveryWorker \/ Datagram

Spec == Init /\ [][Next]_vars

\* Threads run.  That every call ends is an assumption about clients: Shutdown()
\* has no deadline and waits for a StreamInfer that its client leaves open.
FairSpec == /\ Spec
            /\ WF_vars(Main) /\ WF_vars(SignalThread) /\ WF_vars(Drained)
            /\ WF_vars(DiscoveryWorker)
            /\ \A c \in Calls : WF_vars(End(c))

-------------------------------------------------------------------------------

TypeOK == /\ Discovery!TypeOK
          /\ main \in Mains
          /\ exit_code \in {Undecided, Killed, 0, 3, 5, 6}
          /\ {engine, sessions, metrics} \subseteq {"none", "alive", "destroyed"}
          /\ server \in {"none", "listening", "draining", "stopped"}
          /\ call \in [Calls -> {"none", "running", "done"}]
          /\ signalled \in BOOLEAN
          /\ signal_thread \in {"none", "sigwait", "Shutdown", "exited"}

\* Nobody uses an object before it is created or after it is destroyed: not a
\* handler, of which Shutdown may leave some running for long, and not the
\* discovery worker, which counts sessions through a pointer of its own.
UsersHaveObjects ==
    /\ (\E c \in Calls : call[c] = "running")
         => engine = "alive" /\ sessions = "alive" /\ metrics = "alive"
    /\ worker = "respond" /\ main # "exited" => sessions = "alive"
    /\ worker \in {"loop", "receive", "respond", "send"} => service = "alive"

\* Whichever way server_run returns, it leaves nothing behind: no object, no
\* thread, no socket, no handler.
NothingLeft ==
    main = "exited" /\ exit_code # Killed =>
        /\ "alive" \notin {engine, sessions, metrics, service}
        /\ worker \in {"none", "exited"}
        /\ socket_fd \in {"none", "closed"}
        /\ signal_thread \in {"none", "exited"}
        /\ server \in {"none", "stopped"}

\* A signal ends the server, provided the clients end their calls.
SignalEndsServer == signalled ~> main = "exited"
===============================================================================
