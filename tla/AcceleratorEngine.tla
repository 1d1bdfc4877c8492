--------------------------- MODULE AcceleratorEngine ---------------------------
(***************************************************************************)
(* server/src/accelerator_engine.cc: the inferences of several gRPC        *)
(* threads on one NPU, whose input and output tensors they share.          *)
(*                                                                         *)
(* A call of accelerator_engine_infer runs through the stages below; each  *)
(* action is what a thread does between two accesses to shared state.  An  *)
(* image is identified with its encoded payload, its scaled copy and the   *)
(* detections computed from it: they differ only in layout, and what       *)
(* matters here is whose image they come from.  Options are local to a     *)
(* call and left out.  rknn_run and post_process are external.             *)
(***************************************************************************)
EXTENDS Integers, FiniteSets

CONSTANTS Threads,   \* the gRPC threads that call the engine
          Payloads,  \* the encoded images
          Decodable, \* those cv::imdecode turns into an image
          Empty,     \* encoded_image_size = 0
          None       \* no payload, no content, no owner

ASSUME EngineAssumption == /\ Decodable \subseteq Payloads
                           /\ Empty \in Payloads \ Decodable
                           /\ None \notin Payloads \cup Threads
                           /\ IsFiniteSet(Threads)

VARIABLES stage,      \* where each thread is in accelerator_engine_infer
          payload,    \* the image it was called with
          result,     \* its return code and detections
          npu_mutex,  \* the thread that holds engine->npu_mutex, or None
          waiting,    \* engine->waiting
          input_mem,  \* whose image app.input_mems[0] holds
          output_mem  \* whose output app.output_mems hold

vars == <<stage, payload, result, npu_mutex, waiting, input_mem, output_mem>>

tensors == <<input_mem, output_mem>>

Stages == {"outside", "decode", "enqueue", "lock", "dequeue", "resize", "run",
           "post_process", "unlock", "returned"}

\* The stages in which a thread holds npu_mutex, and those it is counted in.
Holding == {"dequeue", "resize", "run", "post_process", "unlock"}
Counted == {"lock", "dequeue"}

Outcome == [rc : {0, -1, -2, -3}, detections : Payloads \cup {None}]

NoOutcome == [rc |-> 0, detections |-> None]

Failed(code) == [rc |-> code, detections |-> None]

-------------------------------------------------------------------------------

Init == /\ stage = [t \in Threads |-> "outside"]
        /\ payload = [t \in Threads |-> None]
        /\ result = [t \in Threads |-> NoOutcome]
        /\ npu_mutex = None
        /\ waiting = 0
        /\ input_mem = None
        /\ output_mem = None

Goto(t, from, to) == /\ stage[t] = from
                     /\ stage' = [stage EXCEPT ![t] = to]

\* accelerator_engine_infer is called.
Infer(t, p) ==
    /\ Goto(t, "outside", "decode")
    /\ payload' = [payload EXCEPT ![t] = p]
    /\ UNCHANGED <<result, npu_mutex, waiting, tensors>>

\* Mutated: counts itself before decoding, and stays counted when that fails.
DecodeCounted(t) ==
    /\ \/ /\ payload[t] \in Decodable
          /\ Goto(t, "decode", "enqueue")
          /\ UNCHANGED <<result, waiting>>
       \/ /\ payload[t] \notin Decodable
          /\ Goto(t, "decode", "returned")
          /\ result' = [result EXCEPT ![t] = Failed(-2)]
          /\ waiting' = waiting + 1
    /\ UNCHANGED <<payload, npu_mutex, tensors>>

\* The argument check, memset(result) and cv::imdecode, all before the lock
Decode(t) ==
    /\ \/ /\ payload[t] \in Decodable
          /\ Goto(t, "decode", "enqueue")
          /\ UNCHANGED result
       \/ /\ payload[t] \notin Decodable
          /\ Goto(t, "decode", "returned")
          /\ result' = [result EXCEPT ![t] =
                            Failed(IF payload[t] = Empty THEN -1 ELSE -2)]
    /\ UNCHANGED <<payload, npu_mutex, waiting, tensors>>

\* engine->waiting.fetch_add(1)
Enqueue(t) ==
    /\ Goto(t, "enqueue", "lock")
    /\ waiting' = waiting + 1
    /\ UNCHANGED <<payload, result, npu_mutex, tensors>>

\* Mutated: a mutex of each call's own.
LockOwnMutex(t) ==
    /\ Goto(t, "lock", "dequeue")
    /\ npu_mutex' = t
    /\ UNCHANGED <<payload, result, waiting, tensors>>

\* Mutated: the counter is decremented at the lock as well.
LockUncounting(t) ==
    /\ Goto(t, "lock", "dequeue")
    /\ npu_mutex = None
    /\ npu_mutex' = t
    /\ waiting' = waiting - 1
    /\ UNCHANGED <<payload, result, tensors>>

\* lock_guard acquires npu_mutex; the mutex serves its waiters in any order.
Lock(t) ==
    /\ Goto(t, "lock", "dequeue")
    /\ npu_mutex = None
    /\ npu_mutex' = t
    /\ UNCHANGED <<payload, result, waiting, tensors>>

\* engine->waiting.fetch_sub(1)
Dequeue(t) ==
    /\ Goto(t, "dequeue", "resize")
    /\ waiting' = waiting - 1
    /\ UNCHANGED <<payload, result, npu_mutex, tensors>>

\* cv::resize of the decoded image into the input tensor
Resize(t) ==
    /\ Goto(t, "resize", "run")
    /\ input_mem' = payload[t]
    /\ UNCHANGED <<payload, result, npu_mutex, waiting, output_mem>>

\* Mutated: the lock covers rknn_run but not post_process.
RunUnlocking(t) ==
    /\ \/ /\ Goto(t, "run", "post_process")
          /\ output_mem' = input_mem
          /\ UNCHANGED result
       \/ /\ Goto(t, "run", "unlock")
          /\ output_mem' \in {None} \cup {payload[u] : u \in Threads}
          /\ result' = [result EXCEPT ![t] = Failed(-3)]
    /\ npu_mutex' = None
    /\ UNCHANGED <<payload, waiting, input_mem>>

\* Mutated: post_process whatever rknn_run returned.
RunUnchecked(t) ==
    /\ Goto(t, "run", "post_process")
    /\ output_mem' \in {None, input_mem} \cup {payload[u] : u \in Threads}
    /\ UNCHANGED <<payload, result, npu_mutex, waiting, input_mem>>

\* rknn_run: the outputs are computed from the input tensor.  A failed run may
\* leave anything in them, and skips post_process.
Run(t) ==
    /\ \/ /\ Goto(t, "run", "post_process")
          /\ output_mem' = input_mem
          /\ UNCHANGED result
       \/ /\ Goto(t, "run", "unlock")
          /\ output_mem' \in {None} \cup {payload[u] : u \in Threads}
          /\ result' = [result EXCEPT ![t] = Failed(-3)]
    /\ UNCHANGED <<payload, npu_mutex, waiting, input_mem>>

\* post_process reads the output tensors, or fails; the detections are scaled
\* to the image and copied into the caller's result.
PostProcess(t) ==
    /\ Goto(t, "post_process", "unlock")
    /\ \E o \in {Failed(-3), [rc |-> 0, detections |-> output_mem]} :
           result' = [result EXCEPT ![t] = o]
    /\ UNCHANGED <<payload, npu_mutex, waiting, tensors>>

\* Mutated: the error path returns with the mutex locked.
UnlockOnSuccess(t) ==
    /\ Goto(t, "unlock", "returned")
    /\ npu_mutex' = IF result[t].rc = 0 THEN None ELSE npu_mutex
    /\ UNCHANGED <<payload, result, waiting, tensors>>

\* Every return after the lock releases it: lock_guard is destroyed.
Unlock(t) ==
    /\ Goto(t, "unlock", "returned")
    /\ npu_mutex' = None
    /\ UNCHANGED <<payload, result, waiting, tensors>>

\* The caller takes the outcome; the thread may call again.
Return(t) ==
    /\ Goto(t, "returned", "outside")
    /\ payload' = [payload EXCEPT ![t] = None]
    /\ result' = [result EXCEPT ![t] = NoOutcome]
    /\ UNCHANGED <<npu_mutex, waiting, tensors>>

\* What a thread inside accelerator_engine_infer does next
Step(t) == \/ Decode(t) \/ Enqueue(t) \/ Lock(t) \/ Dequeue(t) \/ Resize(t)
           \/ Run(t) \/ PostProcess(t) \/ Unlock(t)

Next == \E t \in Threads : \/ \E p \in Payloads : Infer(t, p)
                           \/ Step(t)
                           \/ Return(t)

Spec == Init /\ [][Next]_vars

\* Every thread that can run does so eventually; a thread waiting for the mutex
\* may be overtaken for ever (std::mutex promises no order).
FairSpec == Spec /\ \A t \in Threads : WF_vars(Step(t)) /\ WF_vars(Return(t))

-------------------------------------------------------------------------------

TypeOK == /\ stage \in [Threads -> Stages]
          /\ payload \in [Threads -> Payloads \cup {None}]
          /\ result \in [Threads -> Outcome]
          /\ npu_mutex \in Threads \cup {None}
          /\ waiting \in Nat
          /\ input_mem \in Payloads \cup {None}
          /\ output_mem \in Payloads \cup {None}

\* Only the holder of npu_mutex is past the lock: the tensors are never written
\* while another thread's inference is using them.
ExclusiveNpu == \A t \in Threads : stage[t] \in Holding <=> npu_mutex = t

\* queue_depth, which Health reports, is the number of threads that have asked
\* for the NPU and not been let in: it is never negative and nothing leaks
\* into it, whichever way calls end.
QueueDepthExact == waiting = Cardinality({t \in Threads : stage[t] \in Counted})

\* A call that succeeds returns the detections of its own image, though every
\* call writes and reads the same two buffers.
OwnDetections ==
    \A t \in Threads :
        stage[t] \in {"unlock", "returned"} /\ result[t].rc = 0
            => result[t].detections = payload[t]

\* While calls wait for the NPU some call is let in: no way out of an
\* inference, failures included, keeps the mutex.
NpuServesSomeone ==
    (\E t \in Threads : stage[t] = "lock") ~> (\E t \in Threads : stage[t] = "dequeue")

\* The engine answers each call as if it ran alone.
Atomic == INSTANCE AtomicInference
            WITH request <- payload,
                 response <- [t \in Threads |-> IF stage[t] = "returned"
                                                  THEN result[t] ELSE NoOutcome]

ImplementsAtomic == Atomic!Spec
===============================================================================
