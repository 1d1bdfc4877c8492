------------------------ MODULE ServerLifecycleProofs ------------------------
(***************************************************************************)
(* Proofs about ServerLifecycle, for any number of calls and datagrams.    *)
(* The main thread's position decides what state everything else may be    *)
(* in: SafeLifecycle says so for the objects, for the gRPC server and its  *)
(* signal thread, and for the discovery service.                           *)
(***************************************************************************)
EXTENDS ServerLifecycle, TLAPS

BeforeServer == {"create_engine", "create_sessions", "create_metrics", "block_signals",
                 "listen"}

Ending == {"destroy_metrics", "destroy_sessions", "destroy_engine", "exited"}

Busy == {"loop", "receive", "respond", "send"}

Stages == /\ main \in Mains
          /\ call \in [Calls -> {"none", "running", "done"}]
          /\ worker \in Busy \cup {"none", "exited"}

\* What has been created is there until the main thread destroys it, in the
\* reverse order; every path to the exit passes the destructions it needs.
ObjectsPlaced ==
    /\ main \notin {"create_engine", "exited"} => engine = "alive"
    /\ main \notin {"create_engine", "create_sessions", "destroy_engine", "exited"}
         => sessions = "alive"
    /\ main \notin {"create_engine", "create_sessions", "create_metrics",
                    "destroy_sessions", "destroy_engine", "exited"} => metrics = "alive"
    /\ main = "create_engine" => engine = "none" /\ sessions = "none" /\ metrics = "none"
    /\ main = "create_sessions" => sessions = "none" /\ metrics = "none"
    /\ main = "create_metrics" => metrics = "none"
    /\ main \in {"destroy_sessions", "destroy_engine"} => metrics # "alive"
    /\ main = "destroy_engine" => sessions # "alive"
    /\ main = "exited" /\ exit_code # Killed
         => "alive" \notin {engine, sessions, metrics}

\* Handlers run only while the main thread starts, waits or aborts.
ServerPlaced ==
    /\ main \in BeforeServer => server = "none" /\ signal_thread = "none"
    /\ main \in {"start_discovery", "start_signal_thread"}
         => server = "listening" /\ signal_thread = "none"
    /\ main = "abort" => server \in {"draining", "stopped"} /\ signal_thread = "none"
    /\ main = "Wait" => \/ signal_thread = "sigwait" /\ server = "listening"
                        \/ signal_thread = "Shutdown" /\ server \in {"draining", "stopped"}
                        \/ signal_thread = "exited" /\ server = "stopped"
    /\ main = "join" => signal_thread \in {"Shutdown", "exited"} /\ server = "stopped"
    /\ main = "stop_discovery" => signal_thread = "exited" /\ server = "stopped"
    /\ main \in Ending => signal_thread \in {"none", "exited"} /\ server \in {"none", "stopped"}
    /\ server \in {"none", "stopped"} => \A c \in Calls : call[c] # "running"

\* The discovery worker runs only between its start and its join.
DiscoveryPlaced ==
    /\ main \in BeforeServer \cup {"start_discovery"}
         => service = "none" /\ worker = "none" /\ stop_stage = "none" /\ socket_fd = "none"
    /\ main = "abort" => /\ service = "none" /\ worker = "none"
                         /\ stop_stage = "none" /\ socket_fd \in {"none", "closed"}
    /\ main \in {"start_signal_thread", "Wait", "join"}
         => service = "alive" /\ stop_stage = "none"
    /\ main = "stop_discovery" => /\ service = "alive"
                                  /\ stop_stage \in {"none", "shutdown", "close", "join"}
                                  /\ stop_stage = "join" => socket_fd = "closed"
    /\ main \in Ending => /\ service # "alive" /\ worker \notin Busy
                          /\ socket_fd \in {"none", "closed"}

SafeLifecycle == Stages /\ ObjectsPlaced /\ ServerPlaced /\ DiscoveryPlaced

USE DEF Stages, ObjectsPlaced, ServerPlaced, DiscoveryPlaced, Mains, BeforeServer, Ending,
        Busy, vars, objects, grpc, signals, discovery, Goto, Fail, Undecided, Killed

\* Initially nothing exists.
LEMMA LifecycleInit == Init => SafeLifecycle
BY DEF Init, Discovery!Init, SafeLifecycle

\* The main thread's steps up to the server: creation, and the error returns.
LEMMA StartupSteps ==
    ASSUME SafeLifecycle,
           CreateEngine \/ CreateSessions \/ CreateMetrics \/ BlockSignals \/ Listen
    PROVE  SafeLifecycle'
<1>1. CASE CreateEngine BY <1>1 DEF CreateEngine, SafeLifecycle
<1>2. CASE CreateSessions BY <1>2 DEF CreateSessions, SafeLifecycle
<1>3. CASE CreateMetrics BY <1>3 DEF CreateMetrics, SafeLifecycle
<1>4. CASE BlockSignals BY <1>4 DEF BlockSignals, SafeLifecycle
<1>5. CASE Listen BY <1>5 DEF Listen, SafeLifecycle
<1> QED BY <1>1, <1>2, <1>3, <1>4, <1>5

\* Starting discovery, with its error return, and waiting for the end.
LEMMA ServingSteps ==
    ASSUME SafeLifecycle,
           StartDiscovery \/ Abort \/ StartSignalThread \/ Wait \/ Join
    PROVE  SafeLifecycle'
<1>1. CASE StartDiscovery
  <2>1. CASE Discovery!Start
    BY <1>1, <2>1 DEF StartDiscovery, Discovery!Start, Discovery!StartFailed, SafeLifecycle
  <2>2. CASE Discovery!StartFailed
    BY <1>1, <2>2 DEF StartDiscovery, Discovery!Start, Discovery!StartFailed, SafeLifecycle
  <2> QED BY <1>1, <2>1, <2>2 DEF StartDiscovery
<1>2. CASE Abort BY <1>2 DEF Abort, SafeLifecycle
<1>3. CASE StartSignalThread BY <1>3 DEF StartSignalThread, SafeLifecycle
<1>4. CASE Wait BY <1>4 DEF Wait, SafeLifecycle
<1>5. CASE Join BY <1>5 DEF Join, SafeLifecycle
<1> QED BY <1>1, <1>2, <1>3, <1>4, <1>5

\* The teardown: the worker is joined before the sessions it counts are destroyed.
LEMMA TeardownSteps ==
    ASSUME SafeLifecycle,
           StopDiscovery \/ DestroyMetrics \/ DestroySessions \/ DestroyEngine
    PROVE  SafeLifecycle'
<1>1. CASE StopDiscovery
  <2> USE DEF StopDiscovery, SafeLifecycle, Discovery!StopGoto
  <2>1. CASE Discovery!StopFlag BY <1>1, <2>1 DEF Discovery!StopFlag
  <2>2. CASE Discovery!StopSocket BY <1>1, <2>2 DEF Discovery!StopSocket
  <2>3. CASE Discovery!StopJoin BY <1>1, <2>3 DEF Discovery!StopJoin
  <2> QED BY <1>1, <2>1, <2>2, <2>3 DEF Discovery!StopStep
<1>2. CASE DestroyMetrics BY <1>2 DEF DestroyMetrics, SafeLifecycle
<1>3. CASE DestroySessions BY <1>3 DEF DestroySessions, SafeLifecycle
<1>4. CASE DestroyEngine BY <1>4 DEF DestroyEngine, SafeLifecycle
<1> QED BY <1>1, <1>2, <1>3, <1>4

\* Signals, the signal thread and the handlers.
LEMMA ServerSteps ==
    ASSUME SafeLifecycle,
           Signal \/ SignalThread \/ Drained \/ \E c \in Calls : Begin(c) \/ End(c)
    PROVE  SafeLifecycle'
<1>1. CASE Signal BY <1>1 DEF Signal, SafeLifecycle
<1>2. CASE SignalThread BY <1>2 DEF SignalThread, SafeLifecycle
<1>3. CASE Drained BY <1>3 DEF Drained, SafeLifecycle
<1>4. ASSUME NEW c \in Calls, Begin(c) PROVE SafeLifecycle'
  BY <1>4 DEF Begin, SafeLifecycle
<1>5. ASSUME NEW c \in Calls, End(c) PROVE SafeLifecycle'
  BY <1>5 DEF End, SafeLifecycle
<1> QED BY <1>1, <1>2, <1>3, <1>4, <1>5

\* The discovery worker and its socket.
LEMMA DiscoverySteps ==
    ASSUME SafeLifecycle, DiscoveryWorker \/ Datagram
    PROVE  SafeLifecycle'
<1>1. CASE DiscoveryWorker
  <2> USE DEF DiscoveryWorker, SafeLifecycle, Discovery!WorkerGoto
  <2>1. CASE Discovery!WorkerLoop BY <1>1, <2>1 DEF Discovery!WorkerLoop
  <2>2. CASE Discovery!WorkerReceive
    <3>1. worker = "receive" /\ worker' \in {"respond", "loop"}
      BY <2>2 DEF Discovery!WorkerReceive
    <3> QED BY <1>1, <2>2, <3>1 DEF Discovery!WorkerReceive
  <2>3. CASE Discovery!WorkerRespond BY <1>1, <2>3 DEF Discovery!WorkerRespond
  <2> QED BY <1>1, <2>1, <2>2, <2>3 DEF Discovery!Worker
<1>2. CASE Datagram BY <1>2 DEF Datagram, Discovery!Arrive, SafeLifecycle
<1> QED BY <1>1, <1>2

\* The invariant that places every thread and object relative to the main thread.
THEOREM LifecycleSafe == Spec => []SafeLifecycle
<1>1. Init => SafeLifecycle BY LifecycleInit
<1>2. SafeLifecycle /\ [Next]_vars => SafeLifecycle'
  <2>1. SafeLifecycle /\ UNCHANGED vars => SafeLifecycle' BY DEF SafeLifecycle
  <2>2. SafeLifecycle /\ Next => SafeLifecycle'
    BY StartupSteps, ServingSteps, TeardownSteps, ServerSteps, DiscoverySteps
    DEF Next, Main
  <2> QED BY <2>1, <2>2
<1> QED BY <1>1, <1>2, PTL DEF Spec

\* A datagram is buffered only where there is room, and taken from the front.
LEMMA InboxTyped ==
    Discovery!TypeOK
        => /\ Discovery!BoundedSeq(BOOLEAN, MaxDatagrams)
                = {s \in Seq(BOOLEAN) : Len(s) <= MaxDatagrams}
           /\ inbox \in Seq(BOOLEAN) /\ Len(inbox) <= MaxDatagrams
<1> DEFINE Bounded == {s \in Seq(BOOLEAN) : Len(s) <= MaxDatagrams}
<1>1. Discovery!BoundedSeq(BOOLEAN, MaxDatagrams) = Bounded
  <2>1. ASSUME NEW s \in Discovery!BoundedSeq(BOOLEAN, MaxDatagrams) PROVE s \in Bounded
    <3>1. PICK n \in 0 .. MaxDatagrams : s \in [1 .. n -> BOOLEAN]
          BY <2>1 DEF Discovery!BoundedSeq, Discovery!SeqOf
    <3> QED BY <3>1, LifecycleAssumption
  <2>2. ASSUME NEW s \in Bounded PROVE s \in Discovery!BoundedSeq(BOOLEAN, MaxDatagrams)
    <3>1. Len(s) \in 0 .. MaxDatagrams /\ s \in [1 .. Len(s) -> BOOLEAN]
          BY LifecycleAssumption
    <3> QED BY <3>1 DEF Discovery!BoundedSeq, Discovery!SeqOf
  <2> QED BY <2>1, <2>2
<1> QED BY <1>1 DEF Discovery!TypeOK

\* The discovery service changes its own variables only, and each within its range.
LEMMA DiscoveryTyped ==
    ASSUME Discovery!TypeOK,
           \/ Discovery!Start \/ Discovery!StartFailed \/ Discovery!StopStep
           \/ Discovery!Worker \/ \E probe \in BOOLEAN : Discovery!Arrive(probe)
    PROVE  Discovery!TypeOK'
<1> DEFINE Bounded == {s \in Seq(BOOLEAN) : Len(s) <= MaxDatagrams}
<1>1. Discovery!BoundedSeq(BOOLEAN, MaxDatagrams) = Bounded /\ inbox \in Bounded
      BY InboxTyped
<1>2. inbox' \in Bounded
  <2>1. ASSUME NEW probe \in BOOLEAN, Discovery!Arrive(probe) PROVE inbox' \in Bounded
        BY <1>1, <2>1, LifecycleAssumption DEF Discovery!Arrive
  <2>2. CASE Discovery!WorkerReceive
    <3>1. inbox' = inbox \/ (inbox # <<>> /\ inbox' = Tail(inbox))
          BY <2>2 DEF Discovery!WorkerReceive
    <3>2. inbox # <<>> => Tail(inbox) \in Seq(BOOLEAN) /\ Len(Tail(inbox)) = Len(inbox) - 1
          BY <1>1
    <3> QED BY <1>1, <3>1, <3>2, LifecycleAssumption
  <2> QED BY <1>1, <2>1, <2>2
          DEF Discovery!Start, Discovery!StartFailed, Discovery!StopStep, Discovery!StopFlag,
              Discovery!StopSocket, Discovery!StopJoin, Discovery!Worker,
              Discovery!WorkerLoop, Discovery!WorkerRespond
<1> HIDE DEF Bounded
<1> USE DEF Discovery!TypeOK, Discovery!WorkerStages, Discovery!StopStages,
            Discovery!WorkerGoto, Discovery!StopGoto
<1>3. CASE Discovery!Start \/ Discovery!StartFailed
      BY <1>1, <1>2, <1>3 DEF Discovery!Start, Discovery!StartFailed
<1>4. CASE Discovery!StopStep
      BY <1>1, <1>2, <1>4
      DEF Discovery!StopStep, Discovery!StopFlag, Discovery!StopSocket, Discovery!StopJoin
<1>5. CASE Discovery!WorkerReceive
  <2>1. worker' \in {"respond", "loop"}
        BY <1>5 DEF Discovery!WorkerReceive
  <2> QED BY <1>1, <1>2, <1>5, <2>1 DEF Discovery!WorkerReceive
<1>6. CASE Discovery!WorkerLoop \/ Discovery!WorkerRespond
      BY <1>1, <1>2, <1>6 DEF Discovery!WorkerLoop, Discovery!WorkerRespond
<1>7. ASSUME NEW probe \in BOOLEAN, Discovery!Arrive(probe) PROVE Discovery!TypeOK'
      BY <1>1, <1>2, <1>7 DEF Discovery!Arrive
<1> QED BY <1>3, <1>4, <1>5, <1>6, <1>7 DEF Discovery!Worker

\* What neither SafeLifecycle nor Discovery!TypeOK says of the types
ObjectsTyped == /\ exit_code \in {Undecided, Killed, 0, 3, 5, 6}
                /\ engine \in {"none", "alive", "destroyed"}
                /\ sessions \in {"none", "alive", "destroyed"}
                /\ metrics \in {"none", "alive", "destroyed"}
                /\ server \in {"none", "listening", "draining", "stopped"}
                /\ signalled \in BOOLEAN
                /\ signal_thread \in {"none", "sigwait", "Shutdown", "exited"}

LEMMA TypedParts == SafeLifecycle /\ Discovery!TypeOK /\ ObjectsTyped => TypeOK
BY DEF SafeLifecycle, ObjectsTyped, TypeOK

LEMMA ObjectsStep == ObjectsTyped /\ [Next]_vars => ObjectsTyped'
<1> SUFFICES ASSUME ObjectsTyped, [Next]_vars PROVE ObjectsTyped'
    OBVIOUS
<1> HIDE DEF Mains, Undecided, Killed
<1> USE DEF ObjectsTyped
<1>1. CASE CreateEngine BY <1>1 DEF CreateEngine
<1>2. CASE CreateSessions BY <1>2 DEF CreateSessions
<1>3. CASE CreateMetrics BY <1>3 DEF CreateMetrics
<1>4. CASE BlockSignals BY <1>4 DEF BlockSignals
<1>5. CASE Listen BY <1>5 DEF Listen
<1>6. CASE StartDiscovery BY <1>6 DEF StartDiscovery
<1>7. CASE Abort BY <1>7 DEF Abort
<1>8. CASE StartSignalThread BY <1>8 DEF StartSignalThread
<1>9. CASE Wait BY <1>9 DEF Wait
<1>10. CASE Join BY <1>10 DEF Join
<1>11. CASE StopDiscovery BY <1>11 DEF StopDiscovery
<1>12. CASE DestroyMetrics BY <1>12 DEF DestroyMetrics
<1>13. CASE DestroySessions BY <1>13 DEF DestroySessions
<1>14. CASE DestroyEngine BY <1>14 DEF DestroyEngine
<1>15. CASE Signal BY <1>15 DEF Signal
<1>16. CASE SignalThread BY <1>16 DEF SignalThread
<1>17. CASE Drained BY <1>17 DEF Drained
<1>18. CASE \E c \in Calls : Begin(c) \/ End(c) BY <1>18 DEF Begin, End
<1>19. CASE DiscoveryWorker \/ Datagram BY <1>19 DEF DiscoveryWorker, Datagram
<1>20. CASE UNCHANGED vars BY <1>20
<1> QED BY <1>1, <1>2, <1>3, <1>4, <1>5, <1>6, <1>7, <1>8, <1>9, <1>10,
           <1>11, <1>12, <1>13, <1>14, <1>15, <1>16, <1>17, <1>18, <1>19, <1>20
        DEF Next, Main

\* The rest of the server leaves the discovery service alone.
LEMMA DiscoveryStep == Discovery!TypeOK /\ [Next]_vars => Discovery!TypeOK'
<1> SUFFICES ASSUME Discovery!TypeOK, [Next]_vars PROVE Discovery!TypeOK'
    OBVIOUS
<1>1. CASE UNCHANGED discovery
      BY <1>1 DEF Discovery!TypeOK, Discovery!BoundedSeq, Discovery!SeqOf
<1>2. CASE StartDiscovery
      BY <1>2, DiscoveryTyped DEF StartDiscovery
<1>3. CASE StopDiscovery
      BY <1>3, DiscoveryTyped DEF StopDiscovery
<1>4. CASE DiscoveryWorker \/ Datagram
      BY <1>4, DiscoveryTyped DEF DiscoveryWorker, Datagram
<1> QED BY <1>1, <1>2, <1>3, <1>4
        DEF Next, Main, CreateEngine, CreateSessions, CreateMetrics, BlockSignals, Listen,
            Abort, StartSignalThread, Wait, Join, DestroyMetrics, DestroySessions,
            DestroyEngine, Signal, SignalThread, Begin, End, Drained

\* However startup, signals and shutdown interleave, every variable keeps to its
\* range; the socket never buffers more than it can.
THEOREM LifecycleTyping == Spec => []TypeOK
<1>1. Init => Discovery!TypeOK
  <2>1. <<>> \in [1 .. 0 -> BOOLEAN] /\ 0 \in 0 .. MaxDatagrams
        BY LifecycleAssumption
  <2>2. <<>> \in Discovery!BoundedSeq(BOOLEAN, MaxDatagrams)
        BY <2>1 DEF Discovery!BoundedSeq, Discovery!SeqOf
  <2> QED BY <2>2 DEF Init, Discovery!Init, Discovery!TypeOK, Discovery!WorkerStages,
                      Discovery!StopStages
<1>2. Init => ObjectsTyped
      BY DEF Init, ObjectsTyped
<1> QED BY <1>1, <1>2, DiscoveryStep, ObjectsStep, LifecycleSafe, TypedParts, PTL DEF Spec

\* No handler and no discovery worker ever uses an object that is not there.
THEOREM LifecycleUsers == Spec => []UsersHaveObjects
<1>1. SafeLifecycle => UsersHaveObjects
  <2> SUFFICES ASSUME SafeLifecycle PROVE UsersHaveObjects OBVIOUS
  <2>1. (\E c \in Calls : call[c] = "running")
          => engine = "alive" /\ sessions = "alive" /\ metrics = "alive"
    BY DEF SafeLifecycle
  <2>2. worker = "respond" /\ main # "exited" => sessions = "alive" BY DEF SafeLifecycle
  <2>3. worker \in Busy => service = "alive" BY DEF SafeLifecycle
  <2> QED BY <2>1, <2>2, <2>3 DEF UsersHaveObjects
<1> QED BY <1>1, LifecycleSafe, PTL

\* server_run leaves nothing behind on any of its returns.
THEOREM LifecycleNothingLeft == Spec => []NothingLeft
<1>1. SafeLifecycle => NothingLeft BY DEF SafeLifecycle, NothingLeft
<1> QED BY <1>1, LifecycleSafe, PTL

-------------------------------------------------------------------------------
\* How the server ends

\* The steps server_run has before it at most, by where it is, ...
MainLeft(at) == CASE at = "exited" -> 0
                  [] at = "destroy_engine" -> 1
                  [] at = "destroy_sessions" -> 2
                  [] at = "destroy_metrics" -> 3
                  [] at \in {"stop_discovery", "abort"} -> 4
                  [] at = "join" -> 5
                  [] at = "Wait" -> 6
                  [] at = "start_signal_thread" -> 7
                  [] at = "start_discovery" -> 8
                  [] at = "listen" -> 9
                  [] at = "block_signals" -> 10
                  [] at = "create_metrics" -> 11
                  [] at = "create_sessions" -> 12
                  [] at = "create_engine" -> 13

\* ... discovery_service_stop in it ...
StopLeft(at) == CASE at = "none" -> 4
                  [] at = "shutdown" -> 3
                  [] at = "close" -> 2
                  [] at = "join" -> 1
                  [] at = "stopped" -> 0

EndLeft(at, stop_at) == MainLeft(at) + StopLeft(stop_at)

\* ... and the discovery worker once stopping is set
WorkerLeft(at) == CASE at \in {"none", "exited"} -> 0
                    [] at = "loop" -> 1
                    [] at = "send" -> 2
                    [] at = "respond" -> 3
                    [] at = "receive" -> 4

Down == {"draining", "stopped"}

\* The server only ever comes nearer to its end.  No step takes the main thread back, and
\* each of its own takes it on; once the server shuts down it does not listen again and
\* no call begins, so those that are running are the last; and once the discovery service
\* is told to stop its worker goes straight to its exit, whatever datagrams arrive.  What
\* SignalEndsServer adds is that the threads go on and the clients end their calls.
OnlyNearsEnd ==
    [][/\ EndLeft(main', stop_stage') <= EndLeft(main, stop_stage)
       /\ Main => EndLeft(main', stop_stage') < EndLeft(main, stop_stage)
       /\ server \in Down =>
            server' \in Down /\ \A c \in Calls : call'[c] = "running" => call[c] = "running"
       /\ stopping =>
            /\ stopping'
            /\ WorkerLeft(worker') <= WorkerLeft(worker)
            /\ DiscoveryWorker => WorkerLeft(worker') < WorkerLeft(worker)]_vars

\* No wait of the main thread is for something that will not come: whenever it waits,
\* the thread it waits for was told to end, and needs nothing of the main thread for it.
\* The one wait that is not so is Wait() itself, until there is a signal.
WaitsAnswered ==
    /\ main = "abort" => server \in Down
    /\ main = "Wait" => server \in Down \/ (signal_thread = "sigwait" /\ server = "listening")
    /\ main = "join" =>
          signal_thread = "exited" \/ (signal_thread = "Shutdown" /\ server = "stopped")
    /\ main = "stop_discovery" /\ stop_stage = "join" => stopping /\ worker # "none"

\* The discovery service is told to stop first, and is there while it can be.
StopPlaced == /\ stop_stage \in {"shutdown", "close", "join"} => stopping
              /\ service = "alive" => worker # "none"
              /\ stop_stage \in {"none", "shutdown", "close", "join", "stopped"}
              /\ main \in BeforeServer \cup {"start_discovery", "abort"} => ~ stopping

LEMMA StopPlacedStep ==
    SafeLifecycle /\ StopPlaced /\ [Next]_vars => StopPlaced'
<1> SUFFICES ASSUME SafeLifecycle, StopPlaced, [Next]_vars PROVE StopPlaced'
    OBVIOUS
<1> USE DEF StopPlaced, SafeLifecycle
<1>1. CASE StartDiscovery
      BY <1>1 DEF StartDiscovery, Discovery!Start, Discovery!StartFailed
<1>2. CASE StopDiscovery
      BY <1>2 DEF StopDiscovery, Discovery!StopStep, Discovery!StopFlag,
                  Discovery!StopSocket, Discovery!StopJoin, Discovery!StopGoto
<1>3. CASE DiscoveryWorker
  <2>1. worker' # "none"
        BY <1>3 DEF DiscoveryWorker, Discovery!Worker, Discovery!WorkerLoop,
                    Discovery!WorkerReceive, Discovery!WorkerRespond, Discovery!WorkerGoto
  <2>2. UNCHANGED <<main, service, stopping, stop_stage>>
        BY <1>3 DEF DiscoveryWorker, Discovery!Worker, Discovery!WorkerLoop,
                    Discovery!WorkerReceive, Discovery!WorkerRespond
  <2> QED BY <2>1, <2>2
<1>4. CASE Datagram
      BY <1>4 DEF Datagram, Discovery!Arrive
<1>5. CASE \/ CreateEngine \/ CreateSessions \/ CreateMetrics \/ BlockSignals \/ Listen
           \/ Abort \/ StartSignalThread \/ Wait \/ Join
           \/ DestroyMetrics \/ DestroySessions \/ DestroyEngine
           \/ Signal \/ SignalThread \/ Drained \/ UNCHANGED vars
           \/ \E c \in Calls : Begin(c) \/ End(c)
      BY <1>5 DEF CreateEngine, CreateSessions, CreateMetrics, BlockSignals, Listen, Abort,
                  StartSignalThread, Wait, Join, DestroyMetrics, DestroySessions,
                  DestroyEngine, Signal, SignalThread, Drained, Begin, End
<1> QED BY <1>1, <1>2, <1>3, <1>4, <1>5 DEF Next, Main

LEMMA StopPlacedInit == Init => StopPlaced
BY DEF Init, Discovery!Init, StopPlaced

\* Every join of the teardown is for a thread that is on its way out.
THEOREM LifecycleWaitsAnswered == Spec => []WaitsAnswered
<1>1. SafeLifecycle /\ StopPlaced => WaitsAnswered
      BY DEF SafeLifecycle, StopPlaced, WaitsAnswered, Down
<1> QED BY <1>1, StopPlacedInit, StopPlacedStep, LifecycleSafe, PTL DEF Spec

\* The main thread's own steps take it on.
LEMMA MainOn ==
    ASSUME SafeLifecycle, StopPlaced, Main
    PROVE  /\ EndLeft(main', stop_stage') <= EndLeft(main, stop_stage)
           /\ EndLeft(main', stop_stage') < EndLeft(main, stop_stage)
<1>1. StopLeft(stop_stage) \in Nat
      BY DEF StopPlaced, StopLeft
<1>2. CASE StopDiscovery
  <2>1. /\ main = "stop_discovery"
        /\ \/ main' = main \/ (main' = "destroy_metrics" /\ stop_stage' = "stopped")
        /\ \/ stop_stage = "none" /\ stop_stage' = "shutdown"
           \/ stop_stage = "shutdown" /\ stop_stage' = "close"
           \/ stop_stage = "close" /\ stop_stage' = "join"
           \/ stop_stage = "join" /\ stop_stage' = "stopped"
        BY <1>2 DEF StopDiscovery, Discovery!StopStep, Discovery!StopFlag,
                    Discovery!StopSocket, Discovery!StopJoin, Discovery!StopGoto
  <2> QED BY <2>1 DEF EndLeft, MainLeft, StopLeft
<1>3. CASE ~ StopDiscovery
  <2>1. stop_stage' = stop_stage
        BY <1>3 DEF Main, CreateEngine, CreateSessions, CreateMetrics, BlockSignals, Listen,
                    StartDiscovery, Abort, StartSignalThread, Wait, Join, DestroyMetrics,
                    DestroySessions, DestroyEngine, Discovery!Start, Discovery!StartFailed
  <2>2. \/ main = "create_engine" /\ main' \in {"create_sessions", "exited"}
        \/ main = "create_sessions" /\ main' = "create_metrics"
        \/ main = "create_metrics" /\ main' \in {"block_signals", "destroy_sessions"}
        \/ main = "block_signals" /\ main' = "listen"
        \/ main = "listen" /\ main' \in {"start_discovery", "destroy_metrics"}
        \/ main = "start_discovery" /\ main' \in {"start_signal_thread", "abort"}
        \/ main = "abort" /\ main' = "destroy_metrics"
        \/ main = "start_signal_thread" /\ main' = "Wait"
        \/ main = "Wait" /\ main' = "join"
        \/ main = "join" /\ main' = "stop_discovery"
        \/ main = "destroy_metrics" /\ main' = "destroy_sessions"
        \/ main = "destroy_sessions" /\ main' = "destroy_engine"
        \/ main = "destroy_engine" /\ main' = "exited"
        BY <1>3 DEF Main, CreateEngine, CreateSessions, CreateMetrics, BlockSignals, Listen,
                    StartDiscovery, Abort, StartSignalThread, Wait, Join, DestroyMetrics,
                    DestroySessions, DestroyEngine
  <2>3. /\ MainLeft(main') \in Nat /\ MainLeft(main) \in Nat
        /\ MainLeft(main') <= MainLeft(main) - 1
        BY <2>2 DEF MainLeft
  <2> HIDE DEF Mains
  <2>4. \A a, b, c \in Nat : a <= b - 1 => a + c <= b + c /\ a + c < b + c
        OBVIOUS
  <2> QED BY <1>1, <2>1, <2>3, <2>4, Zenon DEF EndLeft
<1> QED BY <1>2, <1>3

\* Nobody else moves it, except the signal that ends the process.
LEMMA MainKept ==
    ASSUME SafeLifecycle, StopPlaced, [Next]_vars, ~ Main
    PROVE  EndLeft(main', stop_stage') <= EndLeft(main, stop_stage)
<1>1. stop_stage' = stop_stage /\ main' \in {main, "exited"}
      BY DEF Next, Signal, SignalThread, Begin, End, Drained, DiscoveryWorker, Datagram,
             Discovery!Worker, Discovery!WorkerLoop, Discovery!WorkerReceive,
             Discovery!WorkerRespond, Discovery!Arrive
<1>2. MainLeft(main) \in Nat /\ StopLeft(stop_stage) \in Nat /\ MainLeft("exited") = 0
      BY DEF SafeLifecycle, StopPlaced, MainLeft, StopLeft
<1>3. \A a, b \in Nat : a + b <= a + b /\ 0 + b <= a + b
      OBVIOUS
<1> QED BY <1>1, <1>2, <1>3, Zenon DEF EndLeft

\* A server that shuts down goes on doing so, and takes no call.
LEMMA DownStays ==
    ASSUME SafeLifecycle, [Next]_vars, server \in Down
    PROVE  server' \in Down /\ \A c \in Calls : call'[c] = "running" => call[c] = "running"
<1> USE DEF SafeLifecycle, Down
<1>1. ASSUME NEW c \in Calls, Begin(c) \/ End(c)
      PROVE  server' = server /\ \A d \in Calls : call'[d] = "running" => call[d] = "running"
      BY <1>1 DEF Begin, End
<1>2. CASE Main
      BY <1>2 DEF Main, CreateEngine, CreateSessions, CreateMetrics, BlockSignals, Listen,
                  StartDiscovery, Abort, StartSignalThread, Wait, Join, StopDiscovery,
                  DestroyMetrics, DestroySessions, DestroyEngine
<1>3. CASE Signal \/ SignalThread \/ Drained \/ DiscoveryWorker \/ Datagram \/ UNCHANGED vars
      BY <1>3 DEF Signal, SignalThread, Drained, DiscoveryWorker, Datagram
<1> QED BY <1>1, <1>2, <1>3 DEF Next

LEMMA WorkerOn ==
    ASSUME SafeLifecycle, stopping, DiscoveryWorker
    PROVE  /\ stopping' /\ WorkerLeft(worker') <= WorkerLeft(worker)
           /\ WorkerLeft(worker') < WorkerLeft(worker)
<1>1. /\ stopping'
      /\ \/ worker = "loop" /\ worker' = "exited"
         \/ worker = "receive" /\ worker' \in {"respond", "loop"}
         \/ worker = "respond" /\ worker' = "send"
         \/ worker = "send" /\ worker' = "loop"
      BY DEF DiscoveryWorker, Discovery!Worker, Discovery!WorkerLoop,
             Discovery!WorkerReceive, Discovery!WorkerRespond, Discovery!WorkerGoto
<1> QED BY <1>1 DEF WorkerLeft

LEMMA WorkerKept ==
    ASSUME SafeLifecycle, StopPlaced, [Next]_vars, stopping, ~ DiscoveryWorker
    PROVE  stopping' /\ WorkerLeft(worker') <= WorkerLeft(worker)
<1>1. stopping' /\ worker' = worker
  <2>1. CASE StartDiscovery
        BY <2>1 DEF StartDiscovery, StopPlaced
  <2>2. CASE StopDiscovery
        BY <2>2 DEF StopDiscovery, Discovery!StopStep, Discovery!StopFlag,
                    Discovery!StopSocket, Discovery!StopJoin
  <2>3. CASE ~ StartDiscovery /\ ~ StopDiscovery
        BY <2>3 DEF Next, Main, CreateEngine, CreateSessions, CreateMetrics, BlockSignals,
                    Listen, Abort, StartSignalThread, Wait, Join, DestroyMetrics,
                    DestroySessions, DestroyEngine, Signal, SignalThread, Drained, Begin,
                    End, Datagram, Discovery!Arrive
  <2> QED BY <2>1, <2>2, <2>3
<1>2. WorkerLeft(worker) \in Nat
      BY DEF SafeLifecycle, WorkerLeft
<1>3. \A n \in Nat : n <= n
      OBVIOUS
<1> QED BY <1>1, <1>2, <1>3, Zenon

\* Nothing in the server takes it away from its end.
THEOREM LifecycleOnlyNearsEnd == Spec => OnlyNearsEnd
<1>1. SafeLifecycle /\ StopPlaced /\ [Next]_vars =>
        [/\ EndLeft(main', stop_stage') <= EndLeft(main, stop_stage)
         /\ Main => EndLeft(main', stop_stage') < EndLeft(main, stop_stage)
         /\ server \in Down =>
              server' \in Down /\ \A c \in Calls : call'[c] = "running" => call[c] = "running"
         /\ stopping =>
              /\ stopping'
              /\ WorkerLeft(worker') <= WorkerLeft(worker)
              /\ DiscoveryWorker => WorkerLeft(worker') < WorkerLeft(worker)]_vars
  <2> SUFFICES ASSUME SafeLifecycle, StopPlaced, [Next]_vars
               PROVE  /\ EndLeft(main', stop_stage') <= EndLeft(main, stop_stage)
                      /\ Main => EndLeft(main', stop_stage') < EndLeft(main, stop_stage)
                      /\ stopping =>
                            /\ stopping'
                            /\ WorkerLeft(worker') <= WorkerLeft(worker)
                            /\ DiscoveryWorker => WorkerLeft(worker') < WorkerLeft(worker)
      BY DownStays
  <2>1. /\ EndLeft(main', stop_stage') <= EndLeft(main, stop_stage)
        /\ Main => EndLeft(main', stop_stage') < EndLeft(main, stop_stage)
        BY MainOn, MainKept
  <2>2. stopping => /\ stopping'
                    /\ WorkerLeft(worker') <= WorkerLeft(worker)
                    /\ DiscoveryWorker => WorkerLeft(worker') < WorkerLeft(worker)
        BY WorkerOn, WorkerKept
  <2> QED BY <2>1, <2>2
<1> QED BY <1>1, StopPlacedInit, StopPlacedStep, LifecycleSafe, PTL DEF Spec, OnlyNearsEnd
===============================================================================
