---------------------------- MODULE AtomicInference ----------------------------
(***************************************************************************)
(* What the accelerator engine promises a caller: an inference is answered *)
(* once, in one step, from the caller's own image and nobody else's.       *)
(* AcceleratorEngine, whose calls share one pair of tensor buffers, is     *)
(* shown to implement it.                                                  *)
(***************************************************************************)
EXTENDS Integers

CONSTANTS Threads,   \* the callers
          Payloads,  \* the encoded images they may pass
          Decodable, \* the payloads that decode to an image
          Empty,     \* the payload of size zero
          None       \* no payload

VARIABLES request,   \* what each caller is having inferred
          response   \* what it was answered

inference_vars == <<request, response>>

Outcome == [rc : {0, -1, -2, -3}, detections : Payloads \cup {None}]

NoOutcome == [rc |-> 0, detections |-> None]

Failed(code) == [rc |-> code, detections |-> None]

\* The answers a payload may get.  The NPU may fail on any image.
Answers(p) == IF p = Empty THEN {Failed(-1)}
              ELSE IF p \notin Decodable THEN {Failed(-2)}
              ELSE {Failed(-3), [rc |-> 0, detections |-> p]}

Init == /\ request = [t \in Threads |-> None]
        /\ response = [t \in Threads |-> NoOutcome]

Call(t, p) == /\ request[t] = None
              /\ request' = [request EXCEPT ![t] = p]
              /\ UNCHANGED response

Answer(t, o) == /\ request[t] # None
                /\ response[t] = NoOutcome
                /\ o \in Answers(request[t])
                /\ response' = [response EXCEPT ![t] = o]
                /\ UNCHANGED request

Take(t) == /\ response[t] # NoOutcome
           /\ request' = [request EXCEPT ![t] = None]
           /\ response' = [response EXCEPT ![t] = NoOutcome]

Next == \E t \in Threads : \/ \E p \in Payloads : Call(t, p)
                           \/ \E o \in Outcome : Answer(t, o)
                           \/ Take(t)

Spec == Init /\ [][Next]_inference_vars
===============================================================================
