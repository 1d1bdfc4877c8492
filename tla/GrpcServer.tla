------------------------------ MODULE GrpcServer ------------------------------
(***************************************************************************)
(* server/src/grpc_server.cc: the RPC handlers, each on a gRPC thread of   *)
(* its own, over the session store and the accelerator engine they share.  *)
(* Composes SessionStore and AcceleratorEngine: a handler step is a step   *)
(* of the store, a step of the engine, or local.                           *)
(*                                                                         *)
(* A member of Calls is one RPC.  Handlers that touch shared state once    *)
(* are one action; Health reads two things and is two; run_inference is    *)
(* validate, check, the engine's steps and answer.  An image stands for    *)
(* the image bytes and the encoding declared with them.                    *)
(***************************************************************************)
EXTENDS Integers, FiniteSets, Sequences, SequencesExt

CONSTANTS Calls,          \* the RPCs of a behaviour
          SessionIds,     \* ids the store may draw, or a client may send
          Models,         \* model names a client may ask for
          Yolov5,         \* the one that is served
          IdleTimeout,    \* options->idle_timeout_seconds
          TicksPerSecond, \* resolution of the clock
          Images,         \* what a client may send as image and encoding
          Decodable,      \* those that cv::imdecode understands
          Empty,          \* the one of size zero
          TooLarge,       \* those above options->max_image_bytes
          Misdeclared,    \* those with an encoding other than JPEG and PNG
          MaxRequests,    \* bound on the requests of a StreamInfer
          None

ASSUME ServerAssumption == /\ Yolov5 \in Models
                           /\ TooLarge \subseteq Images \ {Empty}
                           /\ Misdeclared \subseteq Images
                           /\ MaxRequests \in Nat
                           /\ {IdleTimeout, TicksPerSecond} \subseteq Nat \ {0}
                           /\ Decodable \subseteq Images
                           /\ Empty \in Images \ Decodable
                           /\ None \notin SessionIds \cup Images \cup Calls
                           /\ IsFiniteSet(Calls)

VARIABLES sessions, random,                          \* the session store
          stage, payload, result, npu_mutex, waiting,
          input_mem, output_mem,                     \* the engine
          method,    \* the RPC each call makes
          phase,     \* how far its handler is
          session,   \* session_id of the request being handled
          received,  \* the images of the requests read so far
          sent,      \* whose detections the responses written hold
          status,    \* the grpc::Status code the handler returned
          reply      \* the response of any other RPC, and what the response a
                     \* stream is about to write holds

\* server_run always configures one session.
Store == INSTANCE SessionStore WITH MaxSessions <- 1

Engine == INSTANCE AcceleratorEngine WITH Threads <- Calls, Payloads <- Images

store == <<sessions, random>>
engine == <<stage, payload, result, npu_mutex, waiting, input_mem, output_mem>>
calls == <<method, phase, session, received, sent, status, reply>>
vars == <<store, engine, calls>>

Methods == {"none", "OpenSession", "Infer", "StreamInfer", "CloseSession", "Health"}

Phases == {"none", "read", "validate", "check", "engine", "write", "health", "done"}

Codes == {"pending", "OK", "INVALID_ARGUMENT", "NOT_FOUND", "RESOURCE_EXHAUSTED",
          "FAILED_PRECONDITION", "UNAUTHENTICATED", "INTERNAL"}

-------------------------------------------------------------------------------

Init == /\ Store!Init
        /\ Engine!Init
        /\ method = [c \in Calls |-> "none"]
        /\ phase = [c \in Calls |-> "none"]
        /\ session = [c \in Calls |-> None]
        /\ received = [c \in Calls |-> <<>>]
        /\ sent = [c \in Calls |-> <<>>]
        /\ status = [c \in Calls |-> "pending"]
        /\ reply = [c \in Calls |-> None]

\* A handler of c is called with the method and session id of the request.
Called(c, m, id) == /\ phase[c] = "none"
                    /\ method' = [method EXCEPT ![c] = m]
                    /\ session' = [session EXCEPT ![c] = id]

Goto(c, from, to) == /\ phase[c] = from
                     /\ phase' = [phase EXCEPT ![c] = to]
                     /\ UNCHANGED status

\* The handler of c returns.
Finish(c, code) == /\ phase' = [phase EXCEPT ![c] = "done"]
                   /\ status' = [status EXCEPT ![c] = code]

Respond(c, fields) == reply' = [reply EXCEPT ![c] = fields]

\* The response to the last request read leaves the handler.
Send(c, detections) == sent' = [sent EXCEPT ![c] = Append(@, detections)]

\* OpenSession: a model that is not served or a wrong password is refused
\* without a look at the store.
OpenSession(c, model, password_ok) ==
    /\ \/ /\ model # Yolov5
          /\ Called(c, "OpenSession", None)
          /\ Finish(c, "NOT_FOUND")
          /\ UNCHANGED <<store, reply>>
       \/ /\ model = Yolov5 /\ ~ password_ok
          /\ Called(c, "OpenSession", None)
          /\ Finish(c, "UNAUTHENTICATED")
          /\ UNCHANGED <<store, reply>>
       \/ \E id \in SessionIds :
             /\ model = Yolov5 /\ password_ok
             /\ Called(c, "OpenSession", id)
             /\ Store!Open(id, model)
             /\ Finish(c, "OK")
             /\ Respond(c, id)
       \/ /\ model = Yolov5 /\ password_ok
          /\ Called(c, "OpenSession", None)
          /\ Store!OpenRefused
          /\ Finish(c, "RESOURCE_EXHAUSTED")
          /\ UNCHANGED reply
    /\ UNCHANGED <<engine, received, sent>>

\* CloseSession always succeeds; closed tells whether the store erased anything.
CloseSession(c, id) ==
    /\ Called(c, "CloseSession", id)
    /\ Finish(c, "OK")
    /\ \/ Store!Close(id) /\ Respond(c, TRUE)
       \/ Store!CloseRefused(id) /\ Respond(c, FALSE)
    /\ UNCHANGED <<engine, received, sent>>

\* Health reads the number of active sessions, which prunes the store, ...
HealthCount(c) ==
    /\ Called(c, "Health", None)
    /\ Goto(c, "none", "health")
    /\ \E n \in 0 .. 1 : Store!Count(n) /\ Respond(c, [active |-> n, queued |-> 0])
    /\ UNCHANGED <<engine, received, sent>>

\* ... and then, the store unlocked, the queue depth.
HealthQueue(c) ==
    /\ phase[c] = "health"
    /\ Finish(c, "OK")
    /\ Respond(c, [reply[c] EXCEPT !.queued = waiting])
    /\ UNCHANGED <<store, engine, method, session, received, sent>>

\* The discovery thread answers a probe with active_session_count, and prunes.
AnswerDiscovery ==
    /\ \E n \in 0 .. 1 : Store!Count(n)
    /\ UNCHANGED <<engine, calls>>

-------------------------------------------------------------------------------

\* Infer: run_inference on its one request
Infer(c, id, image) ==
    /\ Called(c, "Infer", id)
    /\ Goto(c, "none", "validate")
    /\ received' = [received EXCEPT ![c] = <<image>>]
    /\ UNCHANGED <<store, engine, sent, reply>>

StreamInfer(c) ==
    /\ Called(c, "StreamInfer", None)
    /\ Goto(c, "none", "read")
    /\ UNCHANGED <<store, engine, received, sent, reply>>

\* Mutated: a stream validates its first request only.
ReadTrusting(c, id, image) ==
    /\ \/ received[c] = <<>> /\ Goto(c, "read", "validate")
       \/ received[c] # <<>> /\ Goto(c, "read", "check")
    /\ Len(received[c]) < MaxRequests
    /\ session' = [session EXCEPT ![c] = id]
    /\ received' = [received EXCEPT ![c] = Append(@, image)]
    /\ UNCHANGED <<store, engine, method, sent, reply>>

\* stream->Read delivers the next request; each carries its own session id.
Read(c, id, image) ==
    /\ Goto(c, "read", "validate")
    /\ Len(received[c]) < MaxRequests
    /\ session' = [session EXCEPT ![c] = id]
    /\ received' = [received EXCEPT ![c] = Append(@, image)]
    /\ UNCHANGED <<store, engine, method, sent, reply>>

\* stream->Read fails: the client has half-closed or is gone.
ReadEnd(c) ==
    /\ phase[c] = "read"
    /\ Finish(c, "OK")
    /\ UNCHANGED <<store, engine, method, session, received, sent, reply>>

\* validate_session: a critical section of the store, over before the image is
\* looked at
ValidateSession(c) ==
    /\ phase[c] = "validate"
    /\ \/ \E model \in Models :
             /\ Store!Validate(session[c], model)
             /\ \/ model = Yolov5 /\ Goto(c, "validate", "check")
                \/ model # Yolov5 /\ Finish(c, "FAILED_PRECONDITION")
       \/ Store!ValidateRefused(session[c]) /\ Finish(c, "NOT_FOUND")
    /\ UNCHANGED <<engine, method, session, received, sent, reply>>

\* The request's image is checked and accelerator_engine_infer called with it.
CheckRequest(c) ==
    LET image == Last(received[c])
    IN  /\ phase[c] = "check"
        /\ \/ image = Empty /\ Finish(c, "INVALID_ARGUMENT") /\ UNCHANGED engine
           \/ image \in TooLarge /\ Finish(c, "RESOURCE_EXHAUSTED") /\ UNCHANGED engine
           \/ /\ image \in Misdeclared \ (TooLarge \cup {Empty})
              /\ Finish(c, "INVALID_ARGUMENT")
              /\ UNCHANGED engine
           \/ /\ image \notin TooLarge \cup Misdeclared \cup {Empty}
              /\ Engine!Infer(c, image)
              /\ Goto(c, "check", "engine")
        /\ UNCHANGED <<store, method, session, received, sent, reply>>

\* A step of accelerator_engine_infer
EngineStep(c) ==
    /\ phase[c] = "engine"
    /\ Engine!Step(c)
    /\ UNCHANGED <<store, calls>>

\* Mutated: a response is written for a failed inference too.
AnswerInferenceAlways(c) ==
    /\ phase[c] = "engine"
    /\ Engine!Return(c)
    /\ \/ /\ method[c] = "StreamInfer" /\ Goto(c, "engine", "write")
          /\ Respond(c, result[c].detections) /\ UNCHANGED sent
       \/ /\ method[c] = "Infer" /\ Finish(c, "OK")
          /\ Send(c, result[c].detections) /\ UNCHANGED reply
    /\ UNCHANGED <<store, method, session, received>>

\* The engine has returned: the error code is mapped, or the response made.
\* Infer returns its response to gRPC, StreamInfer has its own still to write.
AnswerInference(c) ==
    /\ phase[c] = "engine"
    /\ Engine!Return(c)
    /\ \/ /\ result[c].rc = 0 /\ method[c] = "StreamInfer"
          /\ Goto(c, "engine", "write")
          /\ Respond(c, result[c].detections) /\ UNCHANGED sent
       \/ /\ result[c].rc = 0 /\ method[c] = "Infer"
          /\ Finish(c, "OK")
          /\ Send(c, result[c].detections) /\ UNCHANGED reply
       \/ result[c].rc = -2 /\ Finish(c, "INVALID_ARGUMENT") /\ UNCHANGED <<sent, reply>>
       \/ result[c].rc \notin {0, -2} /\ Finish(c, "INTERNAL") /\ UNCHANGED <<sent, reply>>
    /\ UNCHANGED <<store, method, session, received>>

\* Mutated: a stream goes on after a response it could not write.
WriteIgnoring(c) ==
    /\ Goto(c, "write", "read")
    /\ \/ Send(c, reply[c]) /\ Respond(c, None)
       \/ UNCHANGED sent /\ Respond(c, None)
    /\ UNCHANGED <<store, engine, method, session, received>>

\* stream->Write, and back to Read; if it fails the response is lost and the
\* stream ends, with OK.
Write(c) ==
    /\ \/ Goto(c, "write", "read") /\ Send(c, reply[c]) /\ Respond(c, None)
       \/ phase[c] = "write" /\ Finish(c, "OK") /\ UNCHANGED <<sent, reply>>
    /\ UNCHANGED <<store, engine, method, session, received>>

Tick == Store!Tick /\ UNCHANGED <<engine, calls>>

-------------------------------------------------------------------------------

\* A client begins a call, or sends a request on a stream.
Request(c) == \/ \E model \in Models, ok \in BOOLEAN : OpenSession(c, model, ok)
              \/ \E id \in SessionIds : CloseSession(c, id)
              \/ HealthCount(c)
              \/ \E id \in SessionIds, image \in Images : Infer(c, id, image)
              \/ StreamInfer(c)
              \/ \E id \in SessionIds, image \in Images : Read(c, id, image)

\* The server goes on with a call.
Serve(c) == \/ HealthQueue(c) \/ ValidateSession(c) \/ CheckRequest(c)
            \/ EngineStep(c) \/ AnswerInference(c) \/ Write(c)

Next == \/ \E c \in Calls : Request(c) \/ Serve(c) \/ ReadEnd(c)
        \/ AnswerDiscovery
        \/ Tick

Spec == Init /\ [][Next]_vars

\* gRPC threads run, and time passes.  That a client ends its streams is an
\* assumption about clients, not about the server.
FairSpec == /\ Spec
            /\ \A c \in Calls : WF_vars(Serve(c)) /\ WF_vars(ReadEnd(c))
            /\ WF_vars(Tick)

-------------------------------------------------------------------------------

TypeOK == /\ Store!TypeOK
          /\ Engine!TypeOK
          /\ method \in [Calls -> Methods]
          /\ phase \in [Calls -> Phases]
          /\ session \in [Calls -> SessionIds \cup {None}]
          /\ received \in [Calls -> Seq(Images)]
          /\ sent \in [Calls -> Seq(Images)]
          /\ status \in [Calls -> Codes]

Live == Store!Live

\* The sessions an OpenSession has handed to its client
Opened(c) == method[c] = "OpenSession" /\ status[c] = "OK"

\* A CloseSession of id has been answered with closed = true.
CloseAcknowledged(id) ==
    \E c \in Calls : method[c] = "CloseSession" /\ session[c] = id /\ reply[c] = TRUE

\* The accelerator is exclusive: of all the sessions ever handed out, to
\* whichever clients, at most one is live.
OneHolder ==
    \A c, d \in Calls :
        Opened(c) /\ Opened(d) /\ reply[c] \in Live /\ reply[d] \in Live => c = d

\* The last image of stream c was inferred and its response could not be written.
Unwritten(c) == /\ method[c] = "StreamInfer"
                /\ received[c] = Append(sent[c], reply[c])

\* The k-th response a client gets holds the detections of the k-th image it sent,
\* however the inferences interleave with those of other calls and whichever Write
\* fails; a stream reads on only when every response so far is written; and a call
\* that ends with OK has answered every request it read, but for the last one of a
\* stream whose Write failed (server/src/grpc_server.cc:263-267): then that one
\* image was inferred, and its response alone is lost.
AnswersInOrder ==
    \A c \in Calls :
        /\ IsPrefix(sent[c], received[c])
        /\ Len(received[c]) - Len(sent[c]) <= 1
        /\ phase[c] = "read" => sent[c] = received[c]
        /\ status[c] = "OK" => sent[c] = received[c] \/ Unwritten(c)

\* docs/API.md:47: CloseSession is idempotent.  However many calls close a session,
\* and race with its expiry and with prunes, one of them at most is told that it did.
ClosedOnce ==
    \A c, d \in Calls :
        /\ method[c] = "CloseSession" /\ method[d] = "CloseSession"
        /\ session[c] = session[d] /\ reply[c] = TRUE /\ reply[d] = TRUE
        => c = d

\* A client told closed = true has really given the session up: no request with
\* that id, however late it arrives, is let through to the engine.
ClosedStaysClosed ==
    [][\A c \in Calls :
         phase[c] # "check" /\ phase'[c] = "check" => ~ CloseAcknowledged(session'[c])]_vars

\* OpenSession turns a client away only while somebody's session is live: an
\* expired session never costs the next client the accelerator.
RefusedOnlyWhenTaken ==
    [][\A c \in Calls :
         method'[c] = "OpenSession" /\ status'[c] = "RESOURCE_EXHAUSTED"
             /\ status[c] = "pending"
         => \E d \in Calls : Opened(d) /\ reply[d] \in Live]_vars

\* Every call is answered: with finitely many requests under way nothing blocks
\* a handler for ever but a client that leaves its stream open and silent.
CallsAnswered == \A c \in Calls : phase[c] # "none" ~> phase[c] = "done"

-------------------------------------------------------------------------------

\* docs/API.md:29: "The accelerator uses exclusive ownership": while somebody's
\* session is live, the requests in the engine are those of that session.
ExclusiveOwnership ==
    \A c \in Calls, id \in SessionIds :
        stage[c] # "outside" /\ id \in Live => session[c] = id
===============================================================================
