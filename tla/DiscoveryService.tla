--------------------------- MODULE DiscoveryService ---------------------------
(***************************************************************************)
(* server/src/discovery_service.cc: the UDP responder.  A worker thread    *)
(* receives datagrams and answers the probes among them; the main thread   *)
(* starts the service and stops it, closing the socket under the worker.   *)
(*                                                                         *)
(* A datagram is TRUE for a probe and FALSE for anything else.  What an    *)
(* answer says is left out: of its fields only busy changes, and that is   *)
(* the count GrpcServer's AnswerDiscovery takes.                           *)
(***************************************************************************)
EXTENDS Integers, Sequences, SequencesExt

CONSTANT MaxDatagrams \* what the socket buffers; the kernel drops the rest

VARIABLES service,    \* the object: "none", "alive" or "deleted"
          stopping,   \* service->stopping
          socket_fd,  \* "none", "open", "shut" or "closed"
          inbox,      \* the datagrams the socket holds
          worker,     \* where discovery_loop is
          stop_stage  \* how far discovery_service_stop is

vars == <<service, stopping, socket_fd, inbox, worker, stop_stage>>

WorkerStages == {"none", "loop", "receive", "respond", "send", "exited"}
StopStages == {"none", "shutdown", "close", "join", "stopped"}

-------------------------------------------------------------------------------

Init == /\ service = "none"
        /\ stopping = FALSE
        /\ socket_fd = "none"
        /\ inbox = <<>>
        /\ worker = "none"
        /\ stop_stage = "none"

\* discovery_service_start returning 0
Start ==
    /\ service = "none"
    /\ service' = "alive"
    /\ socket_fd' = "open"
    /\ worker' = "loop"
    /\ UNCHANGED <<stopping, inbox, stop_stage>>

\* discovery_service_start failing: no socket, or its port is taken, and then
\* the socket is closed again
StartFailed ==
    /\ service = "none"
    /\ socket_fd' \in {"none", "closed"}
    /\ UNCHANGED <<service, stopping, inbox, worker, stop_stage>>

\* A datagram arrives.
Arrive(datagram) ==
    /\ socket_fd = "open"
    /\ Len(inbox) < MaxDatagrams
    /\ inbox' = Append(inbox, datagram)
    /\ UNCHANGED <<service, stopping, socket_fd, worker, stop_stage>>

-------------------------------------------------------------------------------

WorkerGoto(from, to) == worker = from /\ worker' = to

\* while (!service->stopping.load())
WorkerLoop ==
    /\ WorkerGoto("loop", IF stopping THEN "exited" ELSE "receive")
    /\ UNCHANGED <<service, stopping, socket_fd, inbox, stop_stage>>

\* recvfrom returns a datagram, fails on the closed descriptor, is woken by
\* shutdown or times out after a second.
WorkerReceive ==
    /\ IF inbox # <<>> /\ socket_fd # "closed"
         THEN /\ WorkerGoto("receive", IF Head(inbox) THEN "respond" ELSE "loop")
              /\ inbox' = Tail(inbox)
         ELSE /\ WorkerGoto("receive", "loop")
              /\ UNCHANGED inbox
    /\ UNCHANGED <<service, stopping, socket_fd, stop_stage>>

\* discovery_response asks for the active sessions; then sendto, which the close
\* of the socket makes fail and nobody looks at.
WorkerRespond ==
    /\ WorkerGoto("respond", "send") \/ WorkerGoto("send", "loop")
    /\ UNCHANGED <<service, stopping, socket_fd, inbox, stop_stage>>

Worker == WorkerLoop \/ WorkerReceive \/ WorkerRespond

-------------------------------------------------------------------------------

StopGoto(from, to) == stop_stage = from /\ stop_stage' = to

\* Mutated: only the socket tells the worker to stop.
StopFlagUnset ==
    /\ StopGoto("none", "shutdown")
    /\ UNCHANGED <<service, stopping, socket_fd, inbox, worker>>

\* discovery_service_stop: the flag, ...
StopFlag ==
    /\ StopGoto("none", "shutdown")
    /\ stopping' = TRUE
    /\ UNCHANGED <<service, socket_fd, inbox, worker>>

\* ... shutdown and close of the socket, the worker using it or not, ...
StopSocket ==
    /\ \/ StopGoto("shutdown", "close") /\ socket_fd' = "shut"
       \/ StopGoto("close", "join") /\ socket_fd' = "closed"
    /\ UNCHANGED <<service, stopping, inbox, worker>>

\* ... and, the worker gone, delete service.
StopJoin ==
    /\ StopGoto("join", "stopped")
    /\ worker = "exited"
    /\ service' = "deleted"
    /\ UNCHANGED <<stopping, socket_fd, inbox, worker>>

StopStep == StopFlag \/ StopSocket \/ StopJoin

-------------------------------------------------------------------------------

TypeOK == /\ service \in {"none", "alive", "deleted"}
          /\ stopping \in BOOLEAN
          /\ socket_fd \in {"none", "open", "shut", "closed"}
          /\ inbox \in BoundedSeq(BOOLEAN, MaxDatagrams)
          /\ worker \in WorkerStages
          /\ stop_stage \in StopStages
===============================================================================
