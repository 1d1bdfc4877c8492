------------------------ MODULE AcceleratorEngineProofs ------------------------
(***************************************************************************)
(* Proofs about AcceleratorEngine, for any number of threads and images.   *)
(***************************************************************************)
EXTENDS AcceleratorEngine, FiniteSetTheorems, TLAPS

\* A thread has a payload exactly while it is in the call, and past the decode
\* a decodable one.
PayloadHeld ==
    \A t \in Threads : /\ stage[t] = "outside" <=> payload[t] = None
                       /\ stage[t] \in {"enqueue", "lock"} \cup (Holding \ {"unlock"})
                              => payload[t] \in Decodable

\* The tensors belong to the thread between its writing and its reading them.
TensorsOwned ==
    \A t \in Threads : /\ stage[t] = "run" => input_mem = payload[t]
                       /\ stage[t] = "post_process" => output_mem = payload[t]

\* Nothing is answered before the end, and the answer fits the payload.
ResultFits ==
    \A t \in Threads :
        IF stage[t] \in {"unlock", "returned"}
          THEN result[t] \in Atomic!Answers(payload[t])
          ELSE result[t] = NoOutcome

SafeEngine == /\ TypeOK
              /\ ExclusiveNpu
              /\ PayloadHeld
              /\ TensorsOwned
              /\ ResultFits

-------------------------------------------------------------------------------

LEMMA EngineInit == Init => SafeEngine
<1> SUFFICES ASSUME Init PROVE SafeEngine
    OBVIOUS
<1> USE EngineAssumption
<1>1. TypeOK
      BY DEF Init, TypeOK, Stages, Outcome, NoOutcome
<1>2. ExclusiveNpu
      BY DEF Init, ExclusiveNpu, Holding
<1>3. PayloadHeld /\ TensorsOwned
      BY DEF Init, PayloadHeld, TensorsOwned, Holding
<1>4. ResultFits
      BY DEF Init, ResultFits
<1> QED BY <1>1, <1>2, <1>3, <1>4 DEF SafeEngine

\* Calling, leaving and the steps before the lock touch neither the mutex nor
\* the tensors.
LEMMA OutsideSafe ==
    ASSUME SafeEngine, NEW t \in Threads,
           \/ \E p \in Payloads : Infer(t, p)
           \/ Decode(t) \/ Enqueue(t) \/ Return(t)
    PROVE  SafeEngine'
<1> USE EngineAssumption DEF SafeEngine
<1>1. TypeOK'
      BY DEF TypeOK, Stages, Outcome, NoOutcome, Failed, Infer, Decode, Enqueue, Return,
             Goto, tensors
<1>2. ExclusiveNpu'
      BY DEF TypeOK, ExclusiveNpu, Holding, Infer, Decode, Enqueue, Return, Goto, tensors
<1>3. PayloadHeld'
      BY DEF TypeOK, PayloadHeld, Holding, Infer, Decode, Enqueue, Return, Goto, tensors
<1>4. TensorsOwned'
      BY DEF TypeOK, TensorsOwned, Infer, Decode, Enqueue, Return, Goto, tensors
<1>5. ResultFits'
      BY DEF TypeOK, PayloadHeld, ResultFits, Failed, Atomic!Answers, Atomic!Failed,
             Infer, Decode, Enqueue, Return, Goto, tensors
<1> QED BY <1>1, <1>2, <1>3, <1>4, <1>5

\* The steps from the lock to the unlock are those of one thread at a time.
LEMMA HoldingSafe ==
    ASSUME SafeEngine, NEW t \in Threads,
           \/ Lock(t) \/ Dequeue(t) \/ Resize(t) \/ Run(t) \/ PostProcess(t) \/ Unlock(t),
           waiting' \in Nat
    PROVE  SafeEngine'
<1> USE EngineAssumption DEF SafeEngine
<1>1. TypeOK'
      BY DEF TypeOK, Stages, Outcome, NoOutcome, Failed, Lock, Dequeue, Resize, Run,
             PostProcess, Unlock, Goto, tensors
<1>2. ExclusiveNpu'
      BY DEF TypeOK, ExclusiveNpu, Holding, Lock, Dequeue, Resize, Run, PostProcess,
             Unlock, Goto, tensors
<1>3. PayloadHeld'
      BY DEF TypeOK, PayloadHeld, Holding, Lock, Dequeue, Resize, Run, PostProcess,
             Unlock, Goto, tensors
<1>4. TensorsOwned'
      BY DEF TypeOK, ExclusiveNpu, TensorsOwned, Holding, Lock, Dequeue, Resize, Run,
             PostProcess, Unlock, Goto, tensors
<1>5. ResultFits'
      BY DEF TypeOK, PayloadHeld, TensorsOwned, ResultFits, Holding, Failed,
             Atomic!Answers, Atomic!Failed, Lock, Dequeue, Resize, Run, PostProcess,
             Unlock, Goto, tensors
<1> QED BY <1>1, <1>2, <1>3, <1>4, <1>5

-------------------------------------------------------------------------------

\* The set whose size engine->waiting is
Queue == {t \in Threads : stage[t] \in Counted}

LEMMA QueueFinite == IsFiniteSet(Queue) /\ Cardinality(Queue) \in Nat
BY EngineAssumption, FS_Subset, FS_CardinalityType DEF Queue

\* The counter follows the queue, so it stays exact and natural.
LEMMA QueueStep ==
    ASSUME SafeEngine, QueueDepthExact, NEW t \in Threads,
           (\E p \in Payloads : Infer(t, p)) \/ Step(t) \/ Return(t)
    PROVE  waiting' \in Nat /\ QueueDepthExact'
<1> USE DEF SafeEngine, TypeOK, Counted
<1>1. waiting = Cardinality(Queue) /\ waiting \in Nat
      BY QueueFinite DEF QueueDepthExact, Queue
<1>2. SUFFICES waiting' = Cardinality(Queue') /\ waiting' \in Nat
      BY DEF QueueDepthExact, Queue
<1>3. CASE Enqueue(t)
  <2>1. t \notin Queue /\ Queue' = Queue \cup {t} /\ waiting' = waiting + 1
        BY <1>3 DEF Enqueue, Goto, Queue
  <2>2. Cardinality(Queue \cup {t}) = Cardinality(Queue) + 1
        BY <2>1, QueueFinite, FS_AddElement
  <2> QED BY <1>1, <2>1, <2>2
<1>4. CASE Dequeue(t)
  <2>1. t \in Queue /\ Queue' = Queue \ {t} /\ waiting' = waiting - 1
        BY <1>4 DEF Dequeue, Goto, Queue
  <2>2. /\ IsFiniteSet(Queue \ {t}) /\ Cardinality(Queue \ {t}) \in Nat
        /\ Cardinality(Queue \ {t}) = Cardinality(Queue) - 1
        BY <2>1, QueueFinite, FS_RemoveElement, FS_CardinalityType
  <2> QED BY <1>1, <2>1, <2>2
<1>5. CASE ~ Enqueue(t) /\ ~ Dequeue(t)
  <2>1. Queue' = Queue /\ waiting' = waiting
        BY <1>5 DEF Queue, Goto, Infer, Return, Step, Decode, Lock, Resize, Run,
                    PostProcess, Unlock
  <2> QED BY <1>1, <2>1
<1> QED BY <1>3, <1>4, <1>5

LEMMA EngineStep ==
    SafeEngine /\ QueueDepthExact /\ [Next]_vars => (SafeEngine /\ QueueDepthExact)'
<1> SUFFICES ASSUME SafeEngine, QueueDepthExact, [Next]_vars
             PROVE  SafeEngine' /\ QueueDepthExact'
    OBVIOUS
<1>1. ASSUME NEW t \in Threads, (\E p \in Payloads : Infer(t, p)) \/ Step(t) \/ Return(t)
      PROVE  SafeEngine' /\ QueueDepthExact'
  <2>1. waiting' \in Nat /\ QueueDepthExact'
        BY <1>1, QueueStep
  <2>2. SafeEngine'
        BY <1>1, <2>1, OutsideSafe, HoldingSafe DEF Step
  <2> QED BY <2>1, <2>2
<1>2. CASE UNCHANGED vars
      BY <1>2 DEF vars, tensors, SafeEngine, TypeOK, ExclusiveNpu, PayloadHeld,
                  TensorsOwned, ResultFits, QueueDepthExact
<1> QED BY <1>1, <1>2 DEF Next

\* Nobody is in the engine at first.
LEMMA QueueInit == Init => QueueDepthExact
<1> SUFFICES ASSUME Init PROVE waiting = Cardinality(Queue)
    BY DEF QueueDepthExact, Queue
<1>1. Queue = {}
      BY DEF Init, Queue, Counted
<1> QED BY <1>1, FS_EmptySet DEF Init

\* The engine's inductive invariant holds in every reachable state.
THEOREM EngineSafe == Spec => [](SafeEngine /\ QueueDepthExact)
BY EngineInit, QueueInit, EngineStep, PTL DEF Spec

\* Whatever calls are under way, threads, tensors and results hold only what the
\* code can put there: no call is answered with anything but an Outcome.
THEOREM EngineTyping == Spec => []TypeOK
BY EngineSafe, PTL DEF SafeEngine

\* However many threads call it, the engine lets one at a time near the tensors.
THEOREM EngineExclusive == Spec => []ExclusiveNpu
BY EngineSafe, PTL DEF SafeEngine

\* However calls end, the counter Health reports is the number of threads waiting.
THEOREM EngineQueueDepth == Spec => []QueueDepthExact
BY EngineSafe, PTL

LEMMA OwnFromFits == SafeEngine => OwnDetections
<1> SUFFICES ASSUME SafeEngine, NEW t \in Threads,
                    stage[t] \in {"unlock", "returned"}, result[t].rc = 0
             PROVE  result[t].detections = payload[t]
    BY DEF OwnDetections
<1>1. result[t] \in Atomic!Answers(payload[t])
      BY DEF SafeEngine, ResultFits
<1>2. \A code : Atomic!Failed(code).rc = code
      BY DEF Atomic!Failed
<1>3. result[t] = [rc |-> 0, detections |-> payload[t]]
      BY <1>1, <1>2 DEF Atomic!Answers
<1> QED BY <1>3

\* A successful call returns the detections of its own image.
THEOREM EngineOwnDetections == Spec => []OwnDetections
BY EngineSafe, OwnFromFits, PTL

-------------------------------------------------------------------------------

LEMMA AtomicInit == Init => Atomic!Init
BY DEF Init, Atomic!Init, NoOutcome, Atomic!NoOutcome

LEMMA AtomicStep == SafeEngine /\ [Next]_vars => [Atomic!Next]_Atomic!inference_vars
<1> SUFFICES ASSUME SafeEngine, [Next]_vars
             PROVE  [Atomic!Next]_Atomic!inference_vars
    OBVIOUS
<1> DEFINE answered == [t \in Threads |-> IF stage[t] = "returned"
                                            THEN result[t] ELSE NoOutcome]
<1> USE EngineAssumption DEF SafeEngine, TypeOK, Atomic!inference_vars
<1>0. NoOutcome = Atomic!NoOutcome /\ Outcome = Atomic!Outcome
      BY DEF NoOutcome, Outcome, Atomic!NoOutcome, Atomic!Outcome
<1>1. ASSUME NEW t \in Threads, NEW p \in Payloads, Infer(t, p)
      PROVE  Atomic!Call(t, p)
  <2>1. answered' = answered
        BY <1>1 DEF Infer, Goto
  <2> QED BY <1>1, <2>1 DEF Infer, Goto, PayloadHeld, Atomic!Call
<1>2. ASSUME NEW t \in Threads,
             stage[t] # "outside", stage[t] # "returned",
             Goto(t, stage[t], "returned"), UNCHANGED payload,
             \A u \in Threads \ {t} : result'[u] = result[u],
             result'[t] \in Atomic!Answers(payload[t]), result'[t] \in Outcome
      PROVE  \E o \in Atomic!Outcome : Atomic!Answer(t, o)
  <2>1. answered' = [answered EXCEPT ![t] = result'[t]]
        BY <1>2 DEF Goto
  <2>2. payload[t] # None /\ answered[t] = NoOutcome
        BY <1>2 DEF PayloadHeld
  <2> QED BY <1>0, <1>2, <2>1, <2>2 DEF Atomic!Answer
<1>3. ASSUME NEW t \in Threads, Decode(t)
      PROVE  [Atomic!Next]_Atomic!inference_vars
  <2>1. CASE payload[t] \in Decodable
    <3>1. answered' = answered
          BY <1>3, <2>1 DEF Decode, Goto
    <3> QED BY <1>3, <3>1 DEF Decode
  <2>2. CASE payload[t] \notin Decodable
    <3>1. /\ stage[t] # "outside" /\ stage[t] # "returned"
          /\ Goto(t, stage[t], "returned") /\ UNCHANGED payload
          /\ \A u \in Threads \ {t} : result'[u] = result[u]
          BY <1>3, <2>2 DEF Decode, Goto
    <3>2. result'[t] = Failed(IF payload[t] = Empty THEN -1 ELSE -2)
          BY <1>3, <2>2 DEF Decode
    <3>3. result'[t] \in Atomic!Answers(payload[t]) /\ result'[t] \in Outcome
          BY <2>2, <3>2 DEF Failed, Outcome, Atomic!Answers, Atomic!Failed
    <3> QED BY <1>2, <3>1, <3>3 DEF Atomic!Next
  <2> QED BY <2>1, <2>2
<1>4. ASSUME NEW t \in Threads, Unlock(t)
      PROVE  [Atomic!Next]_Atomic!inference_vars
  <2>1. /\ Goto(t, stage[t], "returned") /\ UNCHANGED <<payload, result>>
        /\ stage[t] = "unlock" /\ result[t] \in Atomic!Answers(payload[t])
        BY <1>4 DEF Unlock, Goto, ResultFits
  <2>2. result'[t] \in Atomic!Answers(payload[t]) /\ result'[t] \in Outcome
        BY <2>1
  <2> QED BY <1>2, <2>1, <2>2 DEF Atomic!Next
<1>5. ASSUME NEW t \in Threads,
             Enqueue(t) \/ Lock(t) \/ Dequeue(t) \/ Resize(t) \/ Run(t) \/ PostProcess(t)
      PROVE  UNCHANGED Atomic!inference_vars
  <2>1. answered' = answered
        BY <1>5 DEF Enqueue, Lock, Dequeue, Resize, Run, PostProcess, Goto
  <2> QED BY <1>5, <2>1 DEF Enqueue, Lock, Dequeue, Resize, Run, PostProcess
<1>6. ASSUME NEW t \in Threads, Return(t) PROVE Atomic!Take(t)
  <2>1. answered' = [answered EXCEPT ![t] = NoOutcome]
        BY <1>6 DEF Return, Goto
  <2>2. answered[t] # NoOutcome
        BY <1>6 DEF Return, Goto, ResultFits, PayloadHeld, NoOutcome, Atomic!Answers,
                    Atomic!Failed
  <2> QED BY <1>0, <1>6, <2>1, <2>2 DEF Return, Atomic!Take
<1>7. CASE UNCHANGED vars
      BY <1>7 DEF vars
<1> QED BY <1>1, <1>3, <1>4, <1>5, <1>6, <1>7 DEF Next, Step, Atomic!Next

\* Sharing the NPU and its tensors is invisible to a caller, for any number of
\* threads: each call is answered as if it ran alone.
THEOREM EngineImplementsAtomic == Spec => ImplementsAtomic
<1>1. Spec => [][Atomic!Next]_Atomic!inference_vars
      BY AtomicStep, EngineSafe, PTL DEF Spec
<1> QED BY <1>1, AtomicInit, PTL DEF Spec, ImplementsAtomic, Atomic!Spec

-------------------------------------------------------------------------------
\* How the NPU is left again

\* The steps from each stage under npu_mutex to the one that unlocks it, at most
StepsToUnlock(at) == CASE at = "dequeue" -> 5
                       [] at = "resize" -> 4
                       [] at = "run" -> 3
                       [] at = "post_process" -> 2
                       [] at = "unlock" -> 1

\* Whoever holds the NPU keeps it, whatever the other threads do, until it hands it back
\* itself; it never goes back a stage, waits for nobody, and its call is over when the
\* mutex is free again.  What NpuServesSomeone adds is that the holder goes on.
HolderLeaves ==
    [][\A t \in Threads :
         npu_mutex = t =>
            \/ npu_mutex' = t /\ stage'[t] = stage[t] /\ ~ Step(t)
            \/ npu_mutex' = t /\ StepsToUnlock(stage'[t]) < StepsToUnlock(stage[t])
            \/ npu_mutex' = None /\ stage'[t] = "returned"]_vars

\* A holder's own step takes it a stage on.
LEMMA HolderStep ==
    ASSUME SafeEngine, NEW t \in Threads, npu_mutex = t, Step(t)
    PROVE  \/ npu_mutex' = t /\ StepsToUnlock(stage'[t]) < StepsToUnlock(stage[t])
           \/ npu_mutex' = None /\ stage'[t] = "returned"
<1> USE DEF SafeEngine, TypeOK, Goto
<1>1. stage[t] \in Holding
      BY DEF ExclusiveNpu
<1>2. Dequeue(t) \/ Resize(t) \/ Run(t) \/ PostProcess(t) \/ Unlock(t)
      BY <1>1 DEF Step, Decode, Enqueue, Lock, Holding
<1>3. CASE Unlock(t)
      BY <1>3 DEF Unlock
<1>4. CASE Dequeue(t)
      BY <1>4 DEF Dequeue, StepsToUnlock
<1>5. CASE Resize(t)
      BY <1>5 DEF Resize, StepsToUnlock
<1>6. CASE Run(t)
      BY <1>6 DEF Run, StepsToUnlock
<1>7. CASE PostProcess(t)
      BY <1>7 DEF PostProcess, StepsToUnlock
<1> QED BY <1>2, <1>3, <1>4, <1>5, <1>6, <1>7

\* Another thread's step leaves the mutex to its holder.
LEMMA HolderUndisturbed ==
    ASSUME SafeEngine, NEW t \in Threads, npu_mutex = t, NEW u \in Threads,
           (\E p \in Payloads : Infer(u, p)) \/ Step(u) \/ Return(u), ~ Step(t)
    PROVE  npu_mutex' = t /\ stage'[t] = stage[t]
<1> USE EngineAssumption DEF SafeEngine, TypeOK, Goto
<1>1. stage[t] \in Holding /\ (u # t => stage[u] \notin Holding)
      BY DEF ExclusiveNpu
<1>2. u # t
      BY <1>1 DEF Infer, Return, Holding
<1>3. (\E p \in Payloads : Infer(u, p)) \/ Decode(u) \/ Enqueue(u) \/ Return(u)
      BY <1>1, <1>2 DEF Step, Lock, Dequeue, Resize, Run, PostProcess, Unlock, Holding
<1> QED BY <1>2, <1>3 DEF Infer, Decode, Enqueue, Return

\* No way through an inference, failures included, strays from the way to its unlock.
THEOREM EngineHolderLeaves == Spec => HolderLeaves
<1>1. SafeEngine /\ [Next]_vars =>
        [\A t \in Threads :
           npu_mutex = t =>
              \/ npu_mutex' = t /\ stage'[t] = stage[t] /\ ~ Step(t)
              \/ npu_mutex' = t /\ StepsToUnlock(stage'[t]) < StepsToUnlock(stage[t])
              \/ npu_mutex' = None /\ stage'[t] = "returned"]_vars
      BY HolderStep, HolderUndisturbed DEF Next
<1> QED BY <1>1, EngineSafe, PTL DEF Spec, HolderLeaves
===============================================================================
