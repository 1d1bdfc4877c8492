---------------------------- MODULE GrpcServerProofs ----------------------------
(***************************************************************************)
(* Proofs about GrpcServer, for any number of calls, ids and images: the   *)
(* server composes the store and the engine without disturbing them, so    *)
(* what is proved of each holds in it; on that rest the exclusive session, *)
(* the order of answers and what CloseSession promises.                    *)
(***************************************************************************)
EXTENDS GrpcServer, FiniteSetTheorems, TLAPS

\* The proofs about the components, for the instances that Store and Engine are
StoreP == INSTANCE SessionStoreProofs WITH MaxSessions <- 1

EngineP == INSTANCE AcceleratorEngineProofs WITH Threads <- Calls, Payloads <- Images

-------------------------------------------------------------------------------
\* The definitions of Store and StoreP, of Engine and EngineP, are the same.

LEMMA CardinalitySame ==
    ASSUME NEW S
    PROVE  Store!Cardinality(S) = Cardinality(S) /\ StoreP!Cardinality(S) = Cardinality(S)
<1>1. Store!Cardinality(S) = Cardinality(S)
      BY DEF Store!Cardinality, Cardinality
<1>2. StoreP!Cardinality(S) = Cardinality(S)
      BY DEF StoreP!Cardinality, Cardinality
<1> QED BY <1>1, <1>2

\* What the proofs about the components assume of the constants
LEMMA ComponentAssumptions == StoreP!StoreAssumption /\ EngineP!EngineAssumption
<1>1. EngineP!IsFiniteSet(Calls)
      BY ServerAssumption DEF EngineP!IsFiniteSet, IsFiniteSet
<1> QED BY <1>1, ServerAssumption DEF StoreP!StoreAssumption, EngineP!EngineAssumption

LEMMA StoreSame ==
    /\ Store!Init <=> StoreP!Init
    /\ Store!Next <=> StoreP!Next
    /\ Store!vars = StoreP!vars
    /\ Store!TypeOK <=> StoreP!TypeOK
    /\ Store!Live = StoreP!Live
<1>1. /\ Store!Pruned = StoreP!Pruned /\ Store!Live = StoreP!Live
      /\ Store!TimeoutTicks = StoreP!TimeoutTicks
      BY DEF Store!Pruned, StoreP!Pruned, Store!Live, StoreP!Live, Store!Expired, StoreP!Expired,
             Store!Restrict, StoreP!Restrict, Store!TimeoutTicks, StoreP!TimeoutTicks
<1>2. Store!Init <=> StoreP!Init
      BY DEF Store!Init, StoreP!Init, Store!NewEntry, StoreP!NewEntry
<1>3. Store!TypeOK <=> StoreP!TypeOK
      BY <1>1 DEF Store!TypeOK, StoreP!TypeOK, Store!Entry, StoreP!Entry
<1>4. Store!vars = StoreP!vars
      BY DEF Store!vars, StoreP!vars
<1>5. Store!Operation <=> StoreP!Operation
  <2> USE <1>1, <1>4, CardinalitySame
  <2>0. /\ \A model : Store!NewEntry(model) = StoreP!NewEntry(model)
        /\ \A table, id, entry : Store!Stored(table, id, entry) = StoreP!Stored(table, id, entry)
        /\ \A table, ids : Store!Restrict(table, ids) = StoreP!Restrict(table, ids)
        BY DEF Store!Stored, StoreP!Stored, Store!NewEntry, StoreP!NewEntry,
               Store!Restrict, StoreP!Restrict
  <2>1. ASSUME NEW id, NEW model PROVE Store!Open(id, model) <=> StoreP!Open(id, model)
        BY <2>0 DEF Store!Open, StoreP!Open
  <2>2. Store!OpenRefused <=> StoreP!OpenRefused
        BY DEF Store!OpenRefused, StoreP!OpenRefused
  <2>3. ASSUME NEW id, NEW model PROVE Store!Validate(id, model) <=> StoreP!Validate(id, model)
        BY <2>0 DEF Store!Validate, StoreP!Validate
  <2>4. ASSUME NEW id PROVE Store!ValidateRefused(id) <=> StoreP!ValidateRefused(id)
        BY DEF Store!ValidateRefused, StoreP!ValidateRefused
  <2>5. ASSUME NEW id PROVE Store!Close(id) <=> StoreP!Close(id)
        BY <2>0 DEF Store!Close, StoreP!Close
  <2>6. ASSUME NEW id PROVE Store!CloseRefused(id) <=> StoreP!CloseRefused(id)
        BY DEF Store!CloseRefused, StoreP!CloseRefused, Store!vars, StoreP!vars
  <2>7. ASSUME NEW n PROVE Store!Count(n) <=> StoreP!Count(n)
    <3>1. Store!Cardinality(DOMAIN Store!Pruned) = StoreP!Cardinality(DOMAIN StoreP!Pruned)
          OBVIOUS
    <3> QED BY <3>1 DEF Store!Count, StoreP!Count
  <2> QED BY <2>1, <2>2, <2>3, <2>4, <2>5, <2>6, <2>7 DEF Store!Operation, StoreP!Operation
<1>6. Store!Tick <=> StoreP!Tick
      BY <1>1 DEF Store!Tick, StoreP!Tick
<1> QED BY <1>1, <1>2, <1>3, <1>4, <1>5, <1>6 DEF Store!Next, StoreP!Next

LEMMA EngineSame ==
    /\ Engine!Init <=> EngineP!Init
    /\ Engine!Next <=> EngineP!Next
    /\ Engine!vars = EngineP!vars
    /\ Engine!TypeOK <=> EngineP!TypeOK
<1> USE DEF Engine!tensors, EngineP!tensors, Engine!Goto, EngineP!Goto, Engine!Failed,
            EngineP!Failed, Engine!NoOutcome, EngineP!NoOutcome
<1>1. Engine!Init <=> EngineP!Init
      BY DEF Engine!Init, EngineP!Init
<1>2. Engine!vars = EngineP!vars
      BY DEF Engine!vars, EngineP!vars
<1>3. Engine!TypeOK <=> EngineP!TypeOK
      BY DEF Engine!TypeOK, EngineP!TypeOK, Engine!Stages, EngineP!Stages,
             Engine!Outcome, EngineP!Outcome
<1>4. ASSUME NEW t \in Calls
      PROVE  /\ \A p \in Images : Engine!Infer(t, p) <=> EngineP!Infer(t, p)
             /\ Engine!Return(t) <=> EngineP!Return(t)
      BY DEF Engine!Infer, EngineP!Infer, Engine!Return, EngineP!Return
<1>5. ASSUME NEW t \in Calls PROVE Engine!Step(t) <=> EngineP!Step(t)
  <2>1. Engine!Decode(t) <=> EngineP!Decode(t)
        BY DEF Engine!Decode, EngineP!Decode
  <2>2. Engine!Enqueue(t) <=> EngineP!Enqueue(t)
        BY DEF Engine!Enqueue, EngineP!Enqueue
  <2>3. Engine!Lock(t) <=> EngineP!Lock(t)
        BY DEF Engine!Lock, EngineP!Lock
  <2>4. Engine!Dequeue(t) <=> EngineP!Dequeue(t)
        BY DEF Engine!Dequeue, EngineP!Dequeue
  <2>5. Engine!Resize(t) <=> EngineP!Resize(t)
        BY DEF Engine!Resize, EngineP!Resize
  <2>6. Engine!Run(t) <=> EngineP!Run(t)
        BY DEF Engine!Run, EngineP!Run
  <2>7. Engine!PostProcess(t) <=> EngineP!PostProcess(t)
        BY DEF Engine!PostProcess, EngineP!PostProcess
  <2>8. Engine!Unlock(t) <=> EngineP!Unlock(t)
        BY DEF Engine!Unlock, EngineP!Unlock
  <2> QED BY <2>1, <2>2, <2>3, <2>4, <2>5, <2>6, <2>7, <2>8 DEF Engine!Step, EngineP!Step
<1> QED BY <1>1, <1>2, <1>3, <1>4, <1>5 DEF Engine!Next, EngineP!Next

-------------------------------------------------------------------------------
\* Requests read and responses written: as many, or one response fewer

Even(r, s) == Len(r) = Len(s) /\ \A i \in 1 .. Len(s) : s[i] = r[i]

Odd(r, s) == Len(r) = Len(s) + 1 /\ \A i \in 1 .. Len(s) : s[i] = r[i]

LEMMA EvenThenOdd ==
    ASSUME NEW S, NEW r \in Seq(S), NEW s \in Seq(S), NEW e \in S, Even(r, s)
    PROVE  Append(r, e) \in Seq(S) /\ Odd(Append(r, e), s)
BY DEF Even, Odd

LEMMA OddThenLast ==
    ASSUME NEW S, NEW r \in Seq(S), NEW s \in Seq(S), Odd(r, s)
    PROVE  /\ Last(r) \in S
           /\ r = Append(s, Last(r))
BY DEF Odd, Last

LEMMA EvenSelf ==
    ASSUME NEW S, NEW r \in Seq(S)
    PROVE  Even(r, r)
BY DEF Even

LEMMA FirstOdd ==
    ASSUME NEW S, NEW e \in S
    PROVE  <<e>> \in Seq(S) /\ Odd(<<e>>, <<>>)
BY DEF Odd

LEMMA EvenOrOddPrefix ==
    ASSUME NEW S, NEW r \in Seq(S), NEW s \in Seq(S), Even(r, s) \/ Odd(r, s)
    PROVE  /\ IsPrefix(s, r) /\ Len(r) - Len(s) <= 1
           /\ Even(r, s) => s = r
<1>1. Len(s) <= Len(r) /\ Len(r) - Len(s) <= 1
      BY DEF Even, Odd
<1>2. SubSeq(s, 1, Len(s)) = SubSeq(r, 1, Len(s))
  <2>1. \A i \in 1 .. Len(s) : s[i] = r[i]
        BY DEF Even, Odd
  <2> QED BY <1>1, <2>1
<1>3. Even(r, s) => s = r
      BY DEF Even
<1> QED BY <1>1, <1>2, <1>3 DEF IsPrefix

-------------------------------------------------------------------------------
\* The inductive invariant

CallsTyped == /\ method \in [Calls -> Methods]
              /\ phase \in [Calls -> Phases]
              /\ session \in [Calls -> SessionIds \cup {None}]
              /\ received \in [Calls -> Seq(Images)]
              /\ sent \in [Calls -> Seq(Images)]
              /\ status \in [Calls -> Codes]
              /\ reply = [c \in Calls |-> reply[c]]

\* How far a handler is, and what it has read and written by then
Answering(c) ==
    /\ phase[c] = "none" => method[c] = "none" /\ received[c] = <<>> /\ sent[c] = <<>>
    /\ phase[c] \in {"none", "read", "health"} => Even(received[c], sent[c])
    /\ phase[c] \in {"validate", "check", "engine", "write"} => Odd(received[c], sent[c])
    /\ phase[c] = "write" => Unwritten(c)
    /\ phase[c] = "done" => Even(received[c], sent[c]) \/ Odd(received[c], sent[c])
    /\ status[c] = "OK" => Even(received[c], sent[c]) \/ Unwritten(c)
    /\ status[c] = "pending" <=> phase[c] # "done"
    /\ phase[c] = "validate" => session[c] \in SessionIds

\* The engine is called with the last image read, by the handlers that are in it.
Tied(c) == /\ phase[c] = "engine" <=> stage[c] # "outside"
           /\ phase[c] = "engine" => payload[c] = Last(received[c])

SafeCalls == /\ CallsTyped
             /\ \A c \in Calls : Answering(c) /\ Tied(c)

SafeParts == /\ StoreP!SafeStore
             /\ EngineP!SafeEngine /\ EngineP!QueueDepthExact

LEMMA ServerInit == Init => SafeCalls /\ SafeParts
<1> SUFFICES ASSUME Init PROVE SafeCalls /\ SafeParts
    OBVIOUS
<1>1. Store!Init /\ Engine!Init
      BY DEF Init
<1>2. StoreP!SafeStore
      BY <1>1, StoreSame, StoreP!InitSafe, ComponentAssumptions
<1>3. EngineP!SafeEngine /\ EngineP!QueueDepthExact
      BY <1>1, EngineSame, EngineP!EngineInit, EngineP!QueueInit, ComponentAssumptions
<1>4. CallsTyped
  <2>1. \A x : [c \in Calls |-> x] = [c \in Calls |-> [d \in Calls |-> x][c]]
        OBVIOUS
  <2>2. <<>> \in Seq(Images)
        OBVIOUS
  <2> QED BY <2>1, <2>2 DEF Init, CallsTyped, Methods, Phases, Codes
<1>5. ASSUME NEW c \in Calls PROVE Answering(c) /\ Tied(c)
  <2>1. /\ phase[c] = "none" /\ method[c] = "none" /\ received[c] = <<>> /\ sent[c] = <<>>
        /\ status[c] = "pending" /\ stage[c] = "outside"
        BY <1>1 DEF Init, Engine!Init
  <2>2. Even(<<>>, <<>>)
        BY DEF Even
  <2> QED BY <2>1, <2>2 DEF Answering, Tied
<1> QED BY <1>2, <1>3, <1>4, <1>5 DEF SafeCalls, SafeParts

-------------------------------------------------------------------------------
\* What the steps of the engine do to the calls in it

LEMMA EngineMoves ==
    ASSUME EngineP!SafeEngine, NEW c \in Calls
    PROVE  /\ \A p \in Images : Engine!Infer(c, p) =>
                 /\ stage'[c] # "outside" /\ payload'[c] = p
                 /\ \A d \in Calls \ {c} : stage'[d] = stage[d] /\ payload'[d] = payload[d]
           /\ Engine!Step(c) =>
                 /\ stage[c] # "outside" /\ stage'[c] # "outside" /\ payload' = payload
                 /\ \A d \in Calls \ {c} : stage'[d] = stage[d]
           /\ Engine!Return(c) =>
                 /\ stage'[c] = "outside"
                 /\ \A d \in Calls \ {c} : stage'[d] = stage[d] /\ payload'[d] = payload[d]
                 /\ result[c].rc = 0 => result[c].detections = payload[c]
<1>1. stage \in [Calls -> EngineP!Stages] /\ payload \in [Calls -> Images \cup {None}]
      BY DEF EngineP!SafeEngine, EngineP!TypeOK
<1>2. ASSUME NEW p \in Images, Engine!Infer(c, p)
      PROVE  /\ stage'[c] # "outside" /\ payload'[c] = p
             /\ \A d \in Calls \ {c} : stage'[d] = stage[d] /\ payload'[d] = payload[d]
      BY <1>1, <1>2 DEF Engine!Infer, Engine!Goto
<1>3. ASSUME Engine!Step(c)
      PROVE  /\ stage[c] # "outside" /\ stage'[c] # "outside" /\ payload' = payload
             /\ \A d \in Calls \ {c} : stage'[d] = stage[d]
  <2> DEFINE Inside(from, to) ==
               /\ stage[c] = from /\ stage' = [stage EXCEPT ![c] = to]
               /\ from # "outside" /\ to # "outside" /\ payload' = payload
  <2>1. \E from, to : Inside(from, to)
    <3> USE DEF Engine!Goto
    <3>1. CASE Engine!Decode(c)
          BY <3>1 DEF Engine!Decode
    <3>2. CASE Engine!Enqueue(c) \/ Engine!Lock(c) \/ Engine!Dequeue(c) \/ Engine!Resize(c)
          BY <3>2 DEF Engine!Enqueue, Engine!Lock, Engine!Dequeue, Engine!Resize
    <3>3. CASE Engine!Run(c)
          BY <3>3 DEF Engine!Run
    <3>4. CASE Engine!PostProcess(c) \/ Engine!Unlock(c)
          BY <3>4 DEF Engine!PostProcess, Engine!Unlock
    <3> QED BY <1>3, <3>1, <3>2, <3>3, <3>4 DEF Engine!Step
  <2> QED BY <1>1, <2>1
<1>4. ASSUME Engine!Return(c)
      PROVE  /\ stage'[c] = "outside"
             /\ \A d \in Calls \ {c} : stage'[d] = stage[d] /\ payload'[d] = payload[d]
             /\ result[c].rc = 0 => result[c].detections = payload[c]
  <2>1. EngineP!OwnDetections
        BY EngineP!OwnFromFits, ComponentAssumptions
  <2>2. stage[c] = "returned"
        BY <1>4 DEF Engine!Return, Engine!Goto
  <2> QED BY <1>1, <1>4, <2>1, <2>2 DEF Engine!Return, Engine!Goto, EngineP!OwnDetections
<1> QED BY <1>2, <1>3, <1>4

\* A step of one call leaves the invariant of the others alone.
LEMMA OneCallMoves ==
    ASSUME SafeCalls, NEW c \in Calls, CallsTyped', Answering(c)', Tied(c)',
           \A d \in Calls \ {c} : /\ method'[d] = method[d] /\ phase'[d] = phase[d] /\ session'[d] = session[d]
                                  /\ received'[d] = received[d] /\ sent'[d] = sent[d]
                                  /\ status'[d] = status[d] /\ reply'[d] = reply[d]
                                  /\ stage'[d] = stage[d] /\ payload'[d] = payload[d]
    PROVE  SafeCalls'
<1>1. ASSUME NEW d \in Calls \ {c} PROVE Answering(d)' /\ Tied(d)'
      BY <1>1 DEF SafeCalls, Answering, Unwritten, Tied
<1> QED BY <1>1 DEF SafeCalls

\* A handler that answers at once: it has read no image, and calls no engine.
LEMMA AtOnceSafe ==
    ASSUME SafeCalls, EngineP!SafeEngine, NEW c \in Calls, NEW m \in Methods \ {"none"},
           NEW id \in SessionIds \cup {None},
           Called(c, m, id), UNCHANGED <<engine, received, sent>>,
           reply' = reply \/ \E x : Respond(c, x),
           \/ \E code \in Codes \ {"pending"} : Finish(c, code)
           \/ Goto(c, "none", "health")
           \/ Goto(c, "none", "read")
    PROVE  SafeCalls'
<1> USE DEF SafeCalls, CallsTyped
<1>1. CallsTyped'
  <2>1. /\ method' \in [Calls -> Methods]
        /\ session' \in [Calls -> SessionIds \cup {None}]
        /\ received' \in [Calls -> Seq(Images)] /\ sent' \in [Calls -> Seq(Images)]
        BY DEF Called
  <2>2. phase' \in [Calls -> Phases] /\ status' \in [Calls -> Codes]
        BY DEF Finish, Goto, Phases
  <2>3. reply' = [d \in Calls |-> reply'[d]]
    <3>1. CASE reply' = reply
          BY <3>1
    <3>2. ASSUME NEW x, Respond(c, x) PROVE reply' = [d \in Calls |-> reply'[d]]
          BY <3>2 DEF Respond
    <3> QED BY <3>1, <3>2
  <2> QED BY <2>1, <2>2, <2>3
<1>2. /\ phase[c] = "none" /\ received'[c] = <<>> /\ sent'[c] = <<>>
      /\ phase'[c] \in {"done", "health", "read"}
      /\ status'[c] = "pending" <=> phase'[c] # "done"
      BY DEF Answering, Called, Finish, Goto
<1>3. Even(<<>>, <<>>)
      BY DEF Even
<1>4. Answering(c)'
      BY <1>2, <1>3 DEF Answering
<1>5. Tied(c)'
      BY <1>2 DEF Tied, engine
<1>6. \A d \in Calls \ {c} : /\ method'[d] = method[d] /\ phase'[d] = phase[d] /\ session'[d] = session[d]
                             /\ received'[d] = received[d] /\ sent'[d] = sent[d]
                             /\ status'[d] = status[d] /\ reply'[d] = reply[d]
                             /\ stage'[d] = stage[d] /\ payload'[d] = payload[d]
  <2>1. \A d \in Calls \ {c} : reply'[d] = reply[d]
        BY DEF Respond
  <2> QED BY <2>1 DEF Called, Finish, Goto, engine
<1> QED BY <1>1, <1>4, <1>5, <1>6, OneCallMoves

LEMMA RequestSafe ==
    ASSUME SafeCalls, EngineP!SafeEngine, NEW c \in Calls, Request(c)
    PROVE  SafeCalls'
<1>1. ASSUME NEW model \in Models, NEW ok \in BOOLEAN, OpenSession(c, model, ok) PROVE SafeCalls'
  <2>1. "OpenSession" \in Methods \ {"none"}
        /\ {"OK", "NOT_FOUND", "UNAUTHENTICATED", "RESOURCE_EXHAUSTED"} \subseteq Codes \ {"pending"}
        BY DEF Methods, Codes
  <2>2. ASSUME NEW id \in SessionIds \cup {None}, Called(c, "OpenSession", id),
               NEW code \in Codes \ {"pending"}, Finish(c, code),
               UNCHANGED <<engine, received, sent>>, reply' = reply \/ \E x : Respond(c, x)
        PROVE  SafeCalls'
        BY <2>1, <2>2, AtOnceSafe
  <2> QED BY <1>1, <2>1, <2>2 DEF OpenSession
<1>2. ASSUME NEW id \in SessionIds, CloseSession(c, id) PROVE SafeCalls'
  <2>1. "CloseSession" \in Methods \ {"none"} /\ "OK" \in Codes \ {"pending"}
        BY DEF Methods, Codes
  <2>2. \E x : Respond(c, x)
        BY <1>2 DEF CloseSession
  <2> QED BY <1>2, <2>1, <2>2, AtOnceSafe DEF CloseSession
<1>3. CASE HealthCount(c)
  <2>1. "Health" \in Methods \ {"none"}
        BY DEF Methods
  <2>2. \E x : Respond(c, x)
        BY <1>3 DEF HealthCount
  <2> QED BY <1>3, <2>1, <2>2, AtOnceSafe DEF HealthCount
<1>4. CASE StreamInfer(c)
  <2>1. "StreamInfer" \in Methods \ {"none"}
        BY DEF Methods
  <2> QED BY <1>4, <2>1, AtOnceSafe DEF StreamInfer
<1>5. ASSUME NEW id \in SessionIds, NEW image \in Images, Infer(c, id, image) PROVE SafeCalls'
  <2> USE <1>5 DEF SafeCalls, CallsTyped
  <2>1. <<image>> \in Seq(Images) /\ Odd(<<image>>, <<>>)
        BY FirstOdd
  <2>2. /\ phase[c] = "none" /\ phase'[c] = "validate" /\ status'[c] = status[c]
        /\ received'[c] = <<image>> /\ sent'[c] = sent[c] /\ session'[c] = id
        BY DEF Infer, Called, Goto
  <2>3. CallsTyped'
        BY <2>1 DEF Infer, Called, Goto, Methods, Phases
  <2>4. Answering(c)'
        BY <2>1, <2>2 DEF Answering
  <2>5. Tied(c)'
        BY <2>2 DEF Tied, Infer, engine
  <2>6. \A d \in Calls \ {c} : /\ method'[d] = method[d] /\ phase'[d] = phase[d] /\ session'[d] = session[d]
                               /\ received'[d] = received[d] /\ sent'[d] = sent[d]
                               /\ status'[d] = status[d] /\ reply'[d] = reply[d]
                               /\ stage'[d] = stage[d] /\ payload'[d] = payload[d]
        BY DEF Infer, Called, Goto, engine
  <2> QED BY <2>3, <2>4, <2>5, <2>6, OneCallMoves
<1>6. ASSUME NEW id \in SessionIds, NEW image \in Images, Read(c, id, image) PROVE SafeCalls'
  <2> USE <1>6 DEF SafeCalls, CallsTyped
  <2>1. /\ phase[c] = "read" /\ phase'[c] = "validate" /\ status'[c] = status[c]
        /\ received'[c] = Append(received[c], image) /\ sent'[c] = sent[c] /\ session'[c] = id
        BY DEF Read, Goto
  <2>2. Even(received[c], sent[c])
        BY <2>1 DEF Answering
  <2>3. Append(received[c], image) \in Seq(Images) /\ Odd(Append(received[c], image), sent[c])
        BY <2>2, EvenThenOdd
  <2>4. CallsTyped'
        BY <2>3 DEF Read, Goto, Phases
  <2>5. Answering(c)'
        BY <2>1, <2>3 DEF Answering, Read
  <2>6. Tied(c)'
        BY <2>1 DEF Tied, Read, engine
  <2>7. \A d \in Calls \ {c} : /\ method'[d] = method[d] /\ phase'[d] = phase[d] /\ session'[d] = session[d]
                               /\ received'[d] = received[d] /\ sent'[d] = sent[d]
                               /\ status'[d] = status[d] /\ reply'[d] = reply[d]
                               /\ stage'[d] = stage[d] /\ payload'[d] = payload[d]
        BY DEF Read, Goto, engine
  <2> QED BY <2>4, <2>5, <2>6, <2>7, OneCallMoves
<1> QED BY <1>1, <1>2, <1>3, <1>4, <1>5, <1>6 DEF Request

\* A handler goes on, or returns, without the engine.
LEMMA WithoutEngineSafe ==
    ASSUME SafeCalls, NEW c \in Calls, UNCHANGED <<engine, method, session, received, sent>>,
           reply' = reply \/ \E x : Respond(c, x),
           \/ /\ phase[c] \in {"health", "read"}
              /\ \E code \in Codes \ {"pending"} : Finish(c, code)
           \/ /\ phase[c] \in {"validate", "check"}
              /\ \E code \in Codes \ {"pending", "OK"} : Finish(c, code)
           \/ Goto(c, "validate", "check")
    PROVE  SafeCalls'
<1> USE DEF SafeCalls, CallsTyped
<1>1. CallsTyped'
  <2>1. phase' \in [Calls -> Phases] /\ status' \in [Calls -> Codes]
    <3>1. {"done", "check"} \subseteq Phases
          BY DEF Phases
    <3> QED BY <3>1 DEF Finish, Goto
  <2>2. reply' = [d \in Calls |-> reply'[d]]
    <3>1. CASE reply' = reply
          BY <3>1
    <3>2. ASSUME NEW x, Respond(c, x) PROVE reply' = [d \in Calls |-> reply'[d]]
          BY <3>2 DEF Respond
    <3> QED BY <3>1, <3>2
  <2> QED BY <2>1, <2>2
<1>2. received'[c] = received[c] /\ sent'[c] = sent[c] /\ method'[c] = method[c]
      OBVIOUS
<1>3. Answering(c)'
  <2>1. CASE Goto(c, "validate", "check")
        BY <1>2, <2>1 DEF Goto, Answering
  <2>2. ASSUME NEW code \in Codes \ {"pending"}, Finish(c, code),
               phase[c] \in {"health", "read"}
        PROVE  Answering(c)'
        BY <1>2, <2>2 DEF Finish, Answering
  <2>3. ASSUME NEW code \in Codes \ {"pending", "OK"}, Finish(c, code),
               phase[c] \in {"validate", "check"}
        PROVE  Answering(c)'
        BY <1>2, <2>3 DEF Finish, Answering
  <2> QED BY <2>1, <2>2, <2>3
<1>4. Tied(c)'
      BY <1>2 DEF Tied, Goto, Finish, engine
<1>5. \A d \in Calls \ {c} : /\ method'[d] = method[d] /\ phase'[d] = phase[d] /\ session'[d] = session[d]
                             /\ received'[d] = received[d] /\ sent'[d] = sent[d]
                             /\ status'[d] = status[d] /\ reply'[d] = reply[d]
                             /\ stage'[d] = stage[d] /\ payload'[d] = payload[d]
  <2>1. \A d \in Calls \ {c} : reply'[d] = reply[d]
        BY DEF Respond
  <2> QED BY <2>1 DEF Finish, Goto, engine
<1> QED BY <1>1, <1>3, <1>4, <1>5, OneCallMoves

\* The response that was made is written, or it is lost and the stream is over.
LEMMA WriteSafe ==
    ASSUME SafeCalls, NEW c \in Calls, Write(c)
    PROVE  SafeCalls'
<1> USE DEF SafeCalls, CallsTyped, Write
<1>1. /\ phase[c] = "write" /\ status[c] = "pending"
      /\ Odd(received[c], sent[c]) /\ Unwritten(c)
      BY DEF Goto, Answering
<1>2. UNCHANGED <<method, session, received, stage, payload>>
      BY DEF engine
<1>3. CASE Goto(c, "write", "read") /\ Send(c, reply[c]) /\ Respond(c, None)
  <2>1. sent' = [sent EXCEPT ![c] = received[c]]
        BY <1>1, <1>3 DEF Send, Unwritten
  <2>2. Even(received[c], received[c])
        BY EvenSelf
  <2>3. phase' = [phase EXCEPT ![c] = "read"] /\ status' = status
        BY <1>3 DEF Goto
  <2>4. CallsTyped'
    <3>1. reply' = [d \in Calls |-> reply'[d]]
          BY <1>3 DEF Respond
    <3>2. phase' \in [Calls -> Phases] /\ sent' \in [Calls -> Seq(Images)]
          BY <2>1, <2>3 DEF Phases
    <3> QED BY <1>2, <2>3, <3>1, <3>2
  <2>5. Answering(c)' /\ Tied(c)'
        BY <1>1, <1>2, <2>1, <2>2, <2>3 DEF Answering, Tied
  <2>6. \A d \in Calls \ {c} : reply'[d] = reply[d]
        BY <1>3 DEF Respond
  <2> QED BY <1>2, <2>1, <2>3, <2>4, <2>5, <2>6, OneCallMoves
<1>4. CASE phase[c] = "write" /\ Finish(c, "OK") /\ UNCHANGED <<sent, reply>>
  <2>1. CallsTyped'
        BY <1>2, <1>4 DEF Finish, Phases, Codes
  <2>2. Unwritten(c)'
        BY <1>1, <1>2, <1>4 DEF Unwritten
  <2>3. Answering(c)' /\ Tied(c)'
        BY <1>1, <1>2, <1>4, <2>2 DEF Answering, Tied, Finish
  <2> QED BY <1>2, <1>4, <2>1, <2>3, OneCallMoves DEF Finish
<1> QED BY <1>3, <1>4

\* A request passes the checks and is given to the engine.
LEMMA ToEngineSafe ==
    ASSUME SafeCalls, EngineP!SafeEngine, NEW c \in Calls, NEW image \in Images,
           image = Last(received[c]), Engine!Infer(c, image), Goto(c, "check", "engine"),
           UNCHANGED <<method, session, received, sent, reply>>
    PROVE  SafeCalls'
<1> USE DEF SafeCalls, CallsTyped
<1>1. /\ phase[c] = "check" /\ phase'[c] = "engine" /\ status'[c] = status[c]
      /\ stage'[c] # "outside" /\ payload'[c] = image
      BY EngineMoves DEF Goto
<1>2. CallsTyped'
      BY DEF Goto, Phases
<1>3. Answering(c)' /\ Tied(c)'
      BY <1>1 DEF Answering, Tied
<1>4. \A d \in Calls \ {c} : /\ method'[d] = method[d] /\ phase'[d] = phase[d] /\ session'[d] = session[d]
                             /\ received'[d] = received[d] /\ sent'[d] = sent[d]
                             /\ status'[d] = status[d] /\ reply'[d] = reply[d]
                             /\ stage'[d] = stage[d] /\ payload'[d] = payload[d]
      BY EngineMoves DEF Goto
<1> QED BY <1>2, <1>3, <1>4, OneCallMoves

LEMMA EngineStepSafe ==
    ASSUME SafeCalls, EngineP!SafeEngine, NEW c \in Calls, EngineStep(c)
    PROVE  SafeCalls'
<1> USE DEF SafeCalls, CallsTyped, EngineStep, calls
<1>1. CallsTyped'
      OBVIOUS
<1>2. stage'[c] # "outside" /\ payload' = payload /\ \A d \in Calls \ {c} : stage'[d] = stage[d]
      BY EngineMoves
<1>3. Answering(c)' /\ Tied(c)'
      BY <1>2 DEF Answering, Tied
<1> QED BY <1>1, <1>2, <1>3, OneCallMoves

\* The engine has answered: a success with the detections of the image read last,
\* which Infer sends and a stream keeps until it writes.
LEMMA AnswerInferenceSafe ==
    ASSUME SafeCalls, EngineP!SafeEngine, NEW c \in Calls, AnswerInference(c)
    PROVE  SafeCalls'
<1> USE DEF SafeCalls, CallsTyped
<1>1. /\ phase[c] = "engine" /\ stage'[c] = "outside"
      /\ \A d \in Calls \ {c} : stage'[d] = stage[d] /\ payload'[d] = payload[d]
      /\ result[c].rc = 0 => result[c].detections = payload[c]
      /\ received' = received /\ method' = method /\ session' = session
      BY EngineMoves DEF AnswerInference
<1>2. payload[c] = Last(received[c]) /\ Odd(received[c], sent[c]) /\ status[c] = "pending"
      BY <1>1 DEF Tied, Answering
<1>3. received[c] = Append(sent[c], Last(received[c])) /\ Last(received[c]) \in Images
      BY <1>2, OddThenLast
<1>4. CASE /\ result[c].rc = 0 /\ method[c] = "StreamInfer" /\ Goto(c, "engine", "write")
           /\ Respond(c, result[c].detections) /\ UNCHANGED sent
  <2>1. reply' = [reply EXCEPT ![c] = Last(received[c])]
        BY <1>1, <1>2, <1>4 DEF Respond
  <2>2. phase' = [phase EXCEPT ![c] = "write"] /\ status' = status
        BY <1>4 DEF Goto
  <2>3. CallsTyped'
    <3>1. reply' = [d \in Calls |-> reply'[d]]
          BY <2>1
    <3> QED BY <1>1, <1>4, <2>2, <3>1 DEF Phases
  <2>4. Unwritten(c)'
        BY <1>1, <1>3, <1>4, <2>1 DEF Unwritten
  <2>5. Answering(c)' /\ Tied(c)'
        BY <1>1, <1>2, <1>4, <2>2, <2>4 DEF Answering, Tied
  <2> QED BY <1>1, <1>4, <2>1, <2>2, <2>3, <2>5, OneCallMoves
<1>5. CASE /\ result[c].rc = 0 /\ Finish(c, "OK")
           /\ Send(c, result[c].detections) /\ UNCHANGED reply
  <2>1. sent' = [sent EXCEPT ![c] = received[c]]
        BY <1>1, <1>2, <1>3, <1>5 DEF Send
  <2>2. Even(received[c], received[c])
        BY EvenSelf
  <2>3. CallsTyped'
        BY <1>1, <1>5, <2>1 DEF Finish, Phases, Codes
  <2>4. Answering(c)' /\ Tied(c)'
        BY <1>1, <1>5, <2>1, <2>2 DEF Answering, Tied, Finish
  <2> QED BY <1>1, <1>5, <2>1, <2>3, <2>4, OneCallMoves DEF Finish
<1>6. ASSUME NEW code \in {"INVALID_ARGUMENT", "INTERNAL"}, Finish(c, code),
             UNCHANGED <<sent, reply>>
      PROVE  SafeCalls'
  <2>1. CallsTyped'
        BY <1>1, <1>6 DEF Finish, Phases, Codes
  <2>2. Answering(c)' /\ Tied(c)'
        BY <1>1, <1>2, <1>6 DEF Answering, Tied, Finish
  <2> QED BY <1>1, <1>6, <2>1, <2>2, OneCallMoves DEF Finish
<1> QED BY <1>4, <1>5, <1>6 DEF AnswerInference

LEMMA ServeSafe ==
    ASSUME SafeCalls, EngineP!SafeEngine, NEW c \in Calls, Serve(c) \/ ReadEnd(c)
    PROVE  SafeCalls'
<1>1. {"OK", "INVALID_ARGUMENT", "NOT_FOUND", "RESOURCE_EXHAUSTED", "FAILED_PRECONDITION",
       "INTERNAL"} \subseteq Codes \ {"pending"}
      BY DEF Codes
<1>2. CASE HealthQueue(c)
  <2>1. \E x : Respond(c, x)
        BY <1>2 DEF HealthQueue
  <2> QED BY <1>1, <1>2, <2>1, WithoutEngineSafe DEF HealthQueue
<1>3. CASE ValidateSession(c)
  <2>1. CASE Goto(c, "validate", "check")
        BY <1>3, <2>1, WithoutEngineSafe DEF ValidateSession
  <2>2. ASSUME NEW code \in {"FAILED_PRECONDITION", "NOT_FOUND"}, Finish(c, code)
        PROVE  SafeCalls'
    <3>1. code \in Codes \ {"pending", "OK"}
          BY <1>1, <2>2
    <3> QED BY <1>3, <2>2, <3>1, WithoutEngineSafe DEF ValidateSession
  <2> QED BY <1>3, <2>1, <2>2 DEF ValidateSession
<1>4. CASE CheckRequest(c)
  <2>1. ASSUME NEW code \in {"INVALID_ARGUMENT", "RESOURCE_EXHAUSTED"}, Finish(c, code),
               UNCHANGED engine
        PROVE  SafeCalls'
    <3>1. code \in Codes \ {"pending", "OK"}
          BY <1>1, <2>1
    <3> QED BY <1>4, <2>1, <3>1, WithoutEngineSafe DEF CheckRequest
  <2>2. CASE Engine!Infer(c, Last(received[c])) /\ Goto(c, "check", "engine")
    <3>1. Last(received[c]) \in Images
      <4>1. Odd(received[c], sent[c]) /\ received[c] \in Seq(Images) /\ sent[c] \in Seq(Images)
            BY <1>4 DEF CheckRequest, SafeCalls, CallsTyped, Answering
      <4> QED BY <4>1, OddThenLast
    <3> QED BY <1>4, <2>2, <3>1, ToEngineSafe DEF CheckRequest
  <2> QED BY <1>4, <2>1, <2>2 DEF CheckRequest
<1>5. CASE EngineStep(c)
      BY <1>5, EngineStepSafe
<1>6. CASE AnswerInference(c)
      BY <1>6, AnswerInferenceSafe
<1>7. CASE Write(c)
      BY <1>7, WriteSafe
<1>8. CASE ReadEnd(c)
      BY <1>1, <1>8, WithoutEngineSafe DEF ReadEnd
<1> QED BY <1>2, <1>3, <1>4, <1>5, <1>6, <1>7, <1>8 DEF Serve

LEMMA CallsUnchanged ==
    ASSUME SafeCalls, UNCHANGED <<engine, calls>>
    PROVE  SafeCalls'
BY DEF SafeCalls, CallsTyped, Answering, Unwritten, Tied, engine, calls

-------------------------------------------------------------------------------
\* Every step of the server is a step of the store and one of the engine, or leaves
\* them alone.

LEMMA StoreSteps == SafeCalls /\ [Next]_vars => [Store!Next]_(Store!vars)
<1> SUFFICES ASSUME SafeCalls, [Next]_vars PROVE Store!Operation \/ Store!Tick \/ UNCHANGED Store!vars
    BY DEF Store!Next
<1> DEFINE Goal == Store!Operation \/ Store!Tick \/ UNCHANGED Store!vars
<1>1. UNCHANGED store <=> UNCHANGED Store!vars
      BY DEF store, Store!vars
<1>2. ASSUME NEW c \in Calls, Request(c) PROVE Goal
  <2>1. ASSUME NEW model \in Models, NEW ok \in BOOLEAN, OpenSession(c, model, ok) PROVE Goal
        BY <1>1, <2>1 DEF OpenSession, Store!Operation
  <2>2. ASSUME NEW id \in SessionIds, CloseSession(c, id) PROVE Goal
        BY <2>2 DEF CloseSession, Store!Operation
  <2>3. CASE HealthCount(c)
        BY <2>3 DEF HealthCount, Store!Operation
  <2>4. CASE StreamInfer(c) \/ \E id \in SessionIds, image \in Images :
                                  Infer(c, id, image) \/ Read(c, id, image)
        BY <1>1, <2>4 DEF StreamInfer, Infer, Read
  <2> QED BY <1>2, <2>1, <2>2, <2>3, <2>4 DEF Request
<1>3. ASSUME NEW c \in Calls, ValidateSession(c) PROVE Goal
  <2>1. session[c] \in SessionIds
        BY <1>3 DEF ValidateSession, SafeCalls, Answering
  <2> QED BY <1>3, <2>1 DEF ValidateSession, Store!Operation
<1>4. ASSUME NEW c \in Calls, Serve(c) \/ ReadEnd(c), ~ ValidateSession(c) PROVE Goal
      BY <1>1, <1>4 DEF Serve, HealthQueue, CheckRequest, EngineStep, AnswerInference, Write, ReadEnd
<1>5. CASE AnswerDiscovery \/ Tick
      BY <1>5 DEF AnswerDiscovery, Tick, Store!Operation
<1>6. CASE UNCHANGED vars
      BY <1>1, <1>6 DEF vars
<1> QED BY <1>2, <1>3, <1>4, <1>5, <1>6 DEF Next

LEMMA EngineSteps == SafeCalls /\ [Next]_vars => [Engine!Next]_(Engine!vars)
<1> SUFFICES ASSUME SafeCalls, [Next]_vars PROVE Engine!Next \/ UNCHANGED Engine!vars
    OBVIOUS
<1> DEFINE Goal == Engine!Next \/ UNCHANGED Engine!vars
<1>1. UNCHANGED engine => UNCHANGED Engine!vars
      BY DEF engine, Engine!vars
<1>2. ASSUME NEW c \in Calls, Request(c) PROVE UNCHANGED engine
      BY <1>2 DEF Request, OpenSession, CloseSession, HealthCount, StreamInfer, Infer, Read
<1>3. ASSUME NEW c \in Calls, CheckRequest(c) PROVE Goal
  <2>1. Last(received[c]) \in Images
    <3>1. Odd(received[c], sent[c]) /\ received[c] \in Seq(Images) /\ sent[c] \in Seq(Images)
          BY <1>3 DEF CheckRequest, SafeCalls, CallsTyped, Answering
    <3> QED BY <3>1, OddThenLast
  <2> QED BY <1>1, <1>3, <2>1 DEF CheckRequest, Engine!Next
<1>4. ASSUME NEW c \in Calls, EngineStep(c) \/ AnswerInference(c) PROVE Goal
      BY <1>4 DEF EngineStep, AnswerInference, Engine!Next
<1>5. ASSUME NEW c \in Calls, HealthQueue(c) \/ ValidateSession(c) \/ Write(c) \/ ReadEnd(c)
      PROVE  UNCHANGED engine
      BY <1>5 DEF HealthQueue, ValidateSession, Write, ReadEnd
<1>6. CASE AnswerDiscovery \/ Tick
      BY <1>1, <1>6 DEF AnswerDiscovery, Tick
<1>7. CASE UNCHANGED vars
      BY <1>1, <1>7 DEF vars
<1> QED BY <1>1, <1>2, <1>3, <1>4, <1>5, <1>6, <1>7 DEF Next, Serve

LEMMA ServerStep ==
    SafeCalls /\ SafeParts /\ [Next]_vars => SafeCalls' /\ SafeParts'
<1> SUFFICES ASSUME SafeCalls, SafeParts, [Next]_vars PROVE SafeCalls' /\ SafeParts'
    OBVIOUS
<1>1. StoreP!SafeStore'
  <2>1. [StoreP!Next]_(StoreP!vars)
        BY StoreSteps, StoreSame DEF Store!vars, StoreP!vars
  <2> QED BY <2>1, StoreP!NextSafe, ComponentAssumptions DEF SafeParts
<1>2. EngineP!SafeEngine' /\ EngineP!QueueDepthExact'
  <2>1. [EngineP!Next]_(EngineP!vars)
        BY EngineSteps, EngineSame DEF Engine!vars, EngineP!vars
  <2> QED BY <2>1, EngineP!EngineStep, ComponentAssumptions DEF SafeParts
<1>3. SafeCalls'
  <2>1. ASSUME NEW c \in Calls, Request(c) \/ Serve(c) \/ ReadEnd(c) PROVE SafeCalls'
        BY <2>1, RequestSafe, ServeSafe DEF SafeParts
  <2>2. CASE AnswerDiscovery \/ Tick \/ UNCHANGED vars
        BY <2>2, CallsUnchanged DEF AnswerDiscovery, Tick, vars
  <2> QED BY <2>1, <2>2 DEF Next
<1> QED BY <1>1, <1>2, <1>3 DEF SafeParts

\* The inductive invariant: of the calls, the store and the engine.
THEOREM ServerSafe == Spec => [](SafeCalls /\ SafeParts)
BY ServerInit, ServerStep, PTL DEF Spec

\* The session store inside the server behaves as the store alone does: whatever is
\* proved of SessionStore holds here.
THEOREM ServerContainsStore == Spec => Store!Spec
<1>1. Init => Store!Init
      BY DEF Init
<1>2. Spec => [](SafeCalls /\ SafeParts)
      BY ServerSafe
<1> QED BY <1>1, <1>2, StoreSteps, PTL DEF Spec, Store!Spec

\* And so does the engine, called by handlers on gRPC threads.
THEOREM ServerContainsEngine == Spec => Engine!Spec
<1>1. Init => Engine!Init
      BY DEF Init
<1>2. Spec => [](SafeCalls /\ SafeParts)
      BY ServerSafe
<1> QED BY <1>1, <1>2, EngineSteps, PTL DEF Spec, Engine!Spec

\* What the server's variables hold, those of its parts included
THEOREM ServerTyping == Spec => []TypeOK
<1>1. SafeCalls /\ SafeParts => TypeOK
  <2> SUFFICES ASSUME SafeCalls, SafeParts PROVE TypeOK
      OBVIOUS
  <2>1. Store!TypeOK /\ Engine!TypeOK
        BY StoreSame, EngineSame DEF SafeParts, StoreP!SafeStore, EngineP!SafeEngine
  <2> QED BY <2>1 DEF TypeOK, SafeCalls, CallsTyped
<1> QED BY <1>1, ServerSafe, PTL

\* StreamInfer and run_inference: the k-th response written holds the detections of
\* the k-th image, nothing more is read before it is written, and an OK leaves at most
\* the one response unwritten whose Write failed.
THEOREM ServerAnswersInOrder == Spec => []AnswersInOrder
<1>1. SafeCalls => AnswersInOrder
  <2> SUFFICES ASSUME SafeCalls, NEW c \in Calls
               PROVE  /\ IsPrefix(sent[c], received[c])
                      /\ Len(received[c]) - Len(sent[c]) <= 1
                      /\ phase[c] = "read" => sent[c] = received[c]
                      /\ status[c] = "OK" => sent[c] = received[c] \/ Unwritten(c)
      BY DEF AnswersInOrder
  <2>1. Answering(c) /\ received[c] \in Seq(Images) /\ sent[c] \in Seq(Images)
        BY DEF SafeCalls, CallsTyped
  <2>2. Even(received[c], sent[c]) \/ Odd(received[c], sent[c])
    <3>1. phase[c] \in Phases
          BY DEF SafeCalls, CallsTyped
    <3> QED BY <2>1, <3>1 DEF Answering, Phases
  <2>3. /\ phase[c] = "read" => Even(received[c], sent[c])
        /\ status[c] = "OK" => Even(received[c], sent[c]) \/ Unwritten(c)
        BY <2>1 DEF Answering
  <2> QED BY <2>1, <2>2, <2>3, EvenOrOddPrefix
<1> QED BY <1>1, ServerSafe, PTL

-------------------------------------------------------------------------------
\* Who was given which session

LEMMA PrunedDomain == DOMAIN Store!Pruned = Live /\ Live \subseteq DOMAIN sessions
BY DEF Store!Pruned, Store!Restrict, Live, Store!Live

LEMMA OpenEffect ==
    ASSUME NEW id, NEW model, Store!Open(id, model)
    PROVE  /\ id \notin random /\ random' = random \cup {id}
           /\ DOMAIN sessions' \subseteq DOMAIN sessions \cup {id}
BY PrunedDomain DEF Store!Open, Store!Stored

LEMMA OtherEffect ==
    ASSUME \/ Store!OpenRefused \/ Store!Tick
           \/ \E id, model : Store!Validate(id, model)
           \/ \E id : Store!ValidateRefused(id) \/ Store!Close(id) \/ Store!CloseRefused(id)
           \/ \E n : Store!Count(n)
    PROVE  random' = random /\ DOMAIN sessions' \subseteq DOMAIN sessions
<1>1. CASE Store!OpenRefused \/ (\E n : Store!Count(n)) \/ \E id : Store!ValidateRefused(id)
      BY <1>1, PrunedDomain DEF Store!OpenRefused, Store!Count, Store!ValidateRefused
<1>2. CASE Store!Tick
      BY <1>2 DEF Store!Tick
<1>3. ASSUME NEW id, NEW model, Store!Validate(id, model)
      PROVE  random' = random /\ DOMAIN sessions' \subseteq DOMAIN sessions
      BY <1>3, PrunedDomain DEF Store!Validate, Store!Stored
<1>4. ASSUME NEW id, Store!Close(id) \/ Store!CloseRefused(id)
      PROVE  random' = random /\ DOMAIN sessions' \subseteq DOMAIN sessions
      BY <1>4 DEF Store!Close, Store!CloseRefused, Store!Restrict, Store!vars
<1> QED BY <1>1, <1>2, <1>3, <1>4

LEMMA CloseEffect ==
    ASSUME NEW id, Store!Close(id)
    PROVE  id \in DOMAIN sessions /\ id \notin DOMAIN sessions'
BY DEF Store!Close, Store!Restrict

\* c is a CloseSession that was answered with closed = true.
Acknowledged(c) == method[c] = "CloseSession" /\ reply[c] = TRUE

\* Sessions are drawn for one OpenSession each, which has told its client; those
\* whose close was acknowledged, to one client, are out of the table.
Granted ==
    /\ \A c \in Calls : method[c] \in {"OpenSession", "CloseSession"} => phase[c] = "done"
    /\ \A c \in Calls : Opened(c) => reply[c] \in random
    /\ \A c, d \in Calls : Opened(c) /\ Opened(d) /\ reply[c] = reply[d] => c = d
    /\ \A id \in random : \E c \in Calls : Opened(c) /\ reply[c] = id
    /\ \A c \in Calls : Acknowledged(c) => session[c] \in random \ DOMAIN sessions
    /\ \A c, d \in Calls : Acknowledged(c) /\ Acknowledged(d) /\ session[c] = session[d] => c = d

LEMMA GrantedInit == Init => Granted
BY DEF Init, Store!Init, Granted, Opened, Acknowledged

\* The calls but c are as they were, and c is neither an open nor a close that succeeded.
LEMMA OthersGranted ==
    ASSUME Granted, NEW c,
           \A d \in Calls \ {c} : /\ method'[d] = method[d] /\ phase'[d] = phase[d]
                                  /\ session'[d] = session[d] /\ status'[d] = status[d]
                                  /\ reply'[d] = reply[d],
           c \in Calls => /\ ~ Opened(c) /\ ~ Opened(c)' /\ ~ Acknowledged(c) /\ ~ Acknowledged(c)'
                          /\ method'[c] \in {"OpenSession", "CloseSession"} => phase'[c] = "done",
           random' = random, DOMAIN sessions' \subseteq DOMAIN sessions
    PROVE  Granted'
<1>1. ASSUME NEW d \in Calls
      PROVE  /\ Opened(d)' <=> Opened(d)
             /\ Acknowledged(d)' <=> Acknowledged(d)
             /\ Opened(d) => reply'[d] = reply[d]
             /\ Acknowledged(d) => session'[d] = session[d]
  <2>1. CASE d = c
        BY <2>1
  <2>2. CASE d # c
        BY <2>2 DEF Opened, Acknowledged
  <2> QED BY <2>1, <2>2
<1>2. \A d \in Calls : method'[d] \in {"OpenSession", "CloseSession"} => phase'[d] = "done"
      BY DEF Granted
<1> QED BY <1>1, <1>2 DEF Granted

LEMMA OpenGranted ==
    ASSUME SafeCalls, Granted, NEW c \in Calls, NEW model, NEW ok, OpenSession(c, model, ok)
    PROVE  Granted'
<1> USE DEF SafeCalls, CallsTyped
<1>1. phase[c] = "none" /\ method[c] = "none"
      BY DEF OpenSession, Called, Answering
<1>2. /\ method'[c] = "OpenSession" /\ phase'[c] = "done"
      /\ \A d \in Calls \ {c} : /\ method'[d] = method[d] /\ phase'[d] = phase[d]
                                /\ session'[d] = session[d] /\ status'[d] = status[d]
                                /\ reply'[d] = reply[d]
      BY DEF OpenSession, Called, Finish, Respond
<1>3. ~ Opened(c) /\ ~ Acknowledged(c) /\ ~ Acknowledged(c)'
      BY <1>1, <1>2 DEF Opened, Acknowledged
<1>4. ASSUME NEW id \in SessionIds, Store!Open(id, model), Finish(c, "OK"), Respond(c, id)
      PROVE  Granted'
  <2>1. /\ id \notin random /\ random' = random \cup {id}
        /\ DOMAIN sessions' \subseteq DOMAIN sessions \cup {id}
        BY <1>4, OpenEffect
  <2>2. Opened(c)' /\ reply'[c] = id
        BY <1>2, <1>4 DEF Opened, Finish, Respond
  <2>3. ASSUME NEW d \in Calls \ {c}
        PROVE  /\ Opened(d)' <=> Opened(d)
               /\ Acknowledged(d)' <=> Acknowledged(d)
               /\ reply'[d] = reply[d] /\ session'[d] = session[d]
        BY <1>2 DEF Opened, Acknowledged
  <2>4. \A d \in Calls : Opened(d)' => reply'[d] \in random'
        BY <2>1, <2>2, <2>3 DEF Granted
  <2>5. \A d \in Calls \ {c} : Opened(d)' => reply'[d] # id
        BY <2>1, <2>3 DEF Granted
  <2>6. \A d, e \in Calls : Opened(d)' /\ Opened(e)' /\ reply'[d] = reply'[e] => d = e
    <3> SUFFICES ASSUME NEW d \in Calls, NEW e \in Calls, Opened(d)', Opened(e)',
                        reply'[d] = reply'[e], d # e
                 PROVE  FALSE
        OBVIOUS
    <3>1. d # c /\ e # c
          BY <2>2, <2>5
    <3> QED BY <3>1, <2>3 DEF Granted
  <2>7. \A i \in random' : \E d \in Calls : Opened(d)' /\ reply'[d] = i
    <3> SUFFICES ASSUME NEW i \in random' PROVE \E d \in Calls : Opened(d)' /\ reply'[d] = i
        OBVIOUS
    <3>1. CASE i = id
          BY <3>1, <2>2
    <3>2. CASE i \in random
      <4>1. PICK d \in Calls : Opened(d) /\ reply[d] = i
            BY <3>2 DEF Granted
      <4>2. d # c
            BY <4>1, <1>3
      <4> QED BY <4>1, <4>2, <2>3
    <3> QED BY <3>1, <3>2, <2>1
  <2>8. ASSUME NEW d \in Calls, Acknowledged(d)'
        PROVE  session'[d] \in random' \ DOMAIN sessions'
    <3>1. d # c
          BY <1>3, <2>8
    <3>2. session[d] \in random \ DOMAIN sessions /\ session'[d] = session[d]
          BY <2>3, <2>8, <3>1 DEF Granted
    <3> QED BY <2>1, <3>2
  <2>9. \A d, e \in Calls :
          Acknowledged(d)' /\ Acknowledged(e)' /\ session'[d] = session'[e] => d = e
        BY <1>3, <2>3 DEF Granted
  <2>10. \A d \in Calls : method'[d] \in {"OpenSession", "CloseSession"} => phase'[d] = "done"
        BY <1>2 DEF Granted
  <2> QED BY <2>4, <2>6, <2>7, <2>8, <2>9, <2>10 DEF Granted
<1>5. ASSUME NEW code \in {"NOT_FOUND", "UNAUTHENTICATED", "RESOURCE_EXHAUSTED"}, Finish(c, code),
             UNCHANGED store \/ Store!OpenRefused
      PROVE  Granted'
  <2>1. random' = random /\ DOMAIN sessions' \subseteq DOMAIN sessions
    <3>1. CASE UNCHANGED store
          BY <3>1 DEF store
    <3>2. CASE Store!OpenRefused
          BY <3>2, OtherEffect
    <3> QED BY <1>5, <3>1, <3>2
  <2>2. ~ Opened(c)'
        BY <1>5 DEF Opened, Finish
  <2> QED BY <1>2, <1>3, <2>1, <2>2, OthersGranted
<1> QED BY <1>4, <1>5 DEF OpenSession

LEMMA CloseGranted ==
    ASSUME SafeCalls, SafeParts, Granted, NEW c \in Calls, NEW id \in SessionIds,
           CloseSession(c, id)
    PROVE  Granted'
<1> USE DEF SafeCalls, CallsTyped
<1>1. phase[c] = "none" /\ method[c] = "none"
      BY DEF CloseSession, Called, Answering
<1>2. /\ method'[c] = "CloseSession" /\ phase'[c] = "done" /\ session'[c] = id
      /\ \A d \in Calls \ {c} : /\ method'[d] = method[d] /\ phase'[d] = phase[d]
                                /\ session'[d] = session[d] /\ status'[d] = status[d]
                                /\ reply'[d] = reply[d]
      BY DEF CloseSession, Called, Finish, Respond
<1>3. ~ Opened(c) /\ ~ Acknowledged(c) /\ ~ Opened(c)'
      BY <1>1, <1>2 DEF Opened, Acknowledged
<1>4. random' = random /\ DOMAIN sessions' \subseteq DOMAIN sessions
      BY OtherEffect DEF CloseSession
<1>5. CASE Store!Close(id) /\ Respond(c, TRUE)
  <2>1. id \in random /\ id \in DOMAIN sessions /\ id \notin DOMAIN sessions'
        BY <1>5, CloseEffect DEF SafeParts, StoreP!SafeStore, StoreP!TypeOK
  <2>2. ASSUME NEW d \in Calls \ {c}
        PROVE  /\ Opened(d)' <=> Opened(d)
               /\ Acknowledged(d)' <=> Acknowledged(d)
               /\ reply'[d] = reply[d] /\ session'[d] = session[d]
               /\ Acknowledged(d) => session[d] # id
        BY <1>2, <2>1 DEF Opened, Acknowledged, Granted
  <2>3. \A d \in Calls : Acknowledged(d)' => session'[d] \in random' \ DOMAIN sessions'
        BY <1>2, <1>4, <2>1, <2>2 DEF Granted
  <2>4. \A d, e \in Calls :
          Acknowledged(d)' /\ Acknowledged(e)' /\ session'[d] = session'[e] => d = e
        BY <1>2, <2>2 DEF Granted
  <2>5. /\ \A d \in Calls : Opened(d)' => reply'[d] \in random'
        /\ \A d, e \in Calls : Opened(d)' /\ Opened(e)' /\ reply'[d] = reply'[e] => d = e
        /\ \A i \in random' : \E d \in Calls : Opened(d)' /\ reply'[d] = i
    <3>1. ASSUME NEW d \in Calls
          PROVE  (Opened(d)' <=> Opened(d)) /\ (Opened(d) => reply'[d] = reply[d])
      <4>1. CASE d = c
            BY <1>3, <4>1
      <4>2. CASE d # c
            BY <2>2, <4>2
      <4> QED BY <4>1, <4>2
    <3> QED BY <1>4, <3>1 DEF Granted
  <2>6. \A d \in Calls : method'[d] \in {"OpenSession", "CloseSession"} => phase'[d] = "done"
        BY <1>2 DEF Granted
  <2> QED BY <2>3, <2>4, <2>5, <2>6 DEF Granted
<1>6. CASE Respond(c, FALSE)
  <2>1. reply'[c] = FALSE
        BY <1>6 DEF Respond
  <2>2. ~ Acknowledged(c)'
        BY <2>1 DEF Acknowledged
  <2> QED BY <1>2, <1>3, <1>4, <2>2, OthersGranted
<1> QED BY <1>5, <1>6 DEF CloseSession

\* What the steps that neither open nor close a session do to the store and to the
\* methods of the calls
LEMMA OtherStep ==
    ASSUME SafeCalls, Granted, NEW c \in Calls,
           \/ HealthCount(c) \/ StreamInfer(c)
           \/ \E id \in SessionIds, image \in Images : Infer(c, id, image) \/ Read(c, id, image)
           \/ Serve(c) \/ ReadEnd(c)
    PROVE  /\ {method[c], method'[c]} \cap {"OpenSession", "CloseSession"} = {}
           /\ random' = random /\ DOMAIN sessions' \subseteq DOMAIN sessions
           /\ \A d \in Calls \ {c} : /\ method'[d] = method[d] /\ phase'[d] = phase[d]
                                     /\ session'[d] = session[d] /\ status'[d] = status[d]
                                     /\ reply'[d] = reply[d]
<1> USE DEF SafeCalls, CallsTyped
<1> DEFINE Frame == \A d \in Calls \ {c} : /\ method'[d] = method[d] /\ phase'[d] = phase[d]
                                           /\ session'[d] = session[d] /\ status'[d] = status[d]
                                           /\ reply'[d] = reply[d]
           Quiet == random' = random /\ DOMAIN sessions' \subseteq DOMAIN sessions
           Neither == /\ method[c] \notin {"OpenSession", "CloseSession"}
                      /\ method'[c] \notin {"OpenSession", "CloseSession"}
           Goal == Neither /\ Quiet /\ Frame
<1>1. UNCHANGED store => Quiet
      BY DEF store
<1>2. phase[c] = "none" => method[c] = "none"
      BY DEF Answering
<1>3. phase[c] # "done" => method[c] \notin {"OpenSession", "CloseSession"}
      BY DEF Granted
<1>4. CASE HealthCount(c)
  <2>1. Quiet
        BY <1>4, OtherEffect DEF HealthCount
  <2>2. Neither
        BY <1>2, <1>4 DEF HealthCount, Called
  <2>3. Frame
        BY <1>4 DEF HealthCount, Called, Goto, Respond
  <2> QED BY <2>1, <2>2, <2>3
<1>5. CASE StreamInfer(c) \/ \E id \in SessionIds, image \in Images : Infer(c, id, image)
  <2>1. Quiet
        BY <1>1, <1>5 DEF StreamInfer, Infer
  <2>2. Neither
        BY <1>2, <1>5 DEF StreamInfer, Infer, Called
  <2>3. Frame
        BY <1>5 DEF StreamInfer, Infer, Called, Goto
  <2> QED BY <2>1, <2>2, <2>3
<1>6. ASSUME NEW id, NEW image, Read(c, id, image) PROVE Goal
      BY <1>1, <1>3, <1>6 DEF Read, Goto
<1>7. CASE HealthQueue(c)
      BY <1>1, <1>3, <1>7 DEF HealthQueue, Finish, Respond
<1>8. CASE ValidateSession(c)
  <2>1. Quiet
        BY <1>8, OtherEffect DEF ValidateSession
  <2>2. Neither /\ Frame
        BY <1>3, <1>8 DEF ValidateSession, Goto, Finish
  <2> QED BY <2>1, <2>2
<1>9. CASE CheckRequest(c)
      BY <1>1, <1>3, <1>9 DEF CheckRequest, Goto, Finish
<1>10. CASE EngineStep(c)
       BY <1>1, <1>3, <1>10 DEF EngineStep, calls
<1>11. CASE AnswerInference(c)
  <2>1. Quiet /\ Neither
        BY <1>1, <1>3, <1>11 DEF AnswerInference
  <2>2. Frame
        BY <1>11 DEF AnswerInference, Goto, Finish, Respond
  <2> QED BY <2>1, <2>2
<1>12. CASE Write(c) \/ ReadEnd(c)
       BY <1>1, <1>3, <1>12 DEF Write, ReadEnd, Goto, Finish, Respond
<1>13. Goal
       BY <1>4, <1>5, <1>6, <1>7, <1>8, <1>9, <1>10, <1>11, <1>12 DEF Serve
<1> QED BY <1>13

LEMMA GrantedStep ==
    SafeCalls /\ SafeParts /\ Granted /\ [Next]_vars => Granted'
<1> SUFFICES ASSUME SafeCalls, SafeParts, Granted, [Next]_vars PROVE Granted'
    OBVIOUS
<1>1. ASSUME NEW c \in Calls, NEW model \in Models, NEW ok \in BOOLEAN, OpenSession(c, model, ok)
      PROVE  Granted'
      BY <1>1, OpenGranted
<1>2. ASSUME NEW c \in Calls, NEW id \in SessionIds, CloseSession(c, id) PROVE Granted'
      BY <1>2, CloseGranted
<1>3. ASSUME NEW c \in Calls,
             \/ HealthCount(c) \/ StreamInfer(c)
             \/ \E id \in SessionIds, image \in Images : Infer(c, id, image) \/ Read(c, id, image)
             \/ Serve(c) \/ ReadEnd(c)
      PROVE  Granted'
  <2>1. /\ ~ Opened(c) /\ ~ Opened(c)' /\ ~ Acknowledged(c) /\ ~ Acknowledged(c)'
        /\ method'[c] \notin {"OpenSession", "CloseSession"}
        BY <1>3, OtherStep DEF Opened, Acknowledged
  <2> QED BY <1>3, <2>1, OtherStep, OthersGranted
<1>4. CASE AnswerDiscovery \/ Tick
  <2>1. random' = random /\ DOMAIN sessions' \subseteq DOMAIN sessions
        BY <1>4, OtherEffect DEF AnswerDiscovery, Tick
  <2>2. UNCHANGED calls
        BY <1>4 DEF AnswerDiscovery, Tick
  <2> QED BY <2>1, <2>2 DEF Granted, Opened, Acknowledged, calls
<1>5. CASE UNCHANGED vars
      BY <1>5 DEF Granted, Opened, Acknowledged, vars, calls, store
<1> QED BY <1>1, <1>2, <1>3, <1>4, <1>5 DEF Next, Request

\* The ledger of who was given and who gave up which session is always right.
THEOREM ServerGranted == Spec => []Granted
<1>1. Spec => [](SafeCalls /\ SafeParts)
      BY ServerSafe
<1> QED BY <1>1, GrantedInit, GrantedStep, PTL DEF Spec

-------------------------------------------------------------------------------

\* The table holds one session at most, and those that are live are in it.
LEMMA TableHoldsOne ==
    ASSUME SafeParts
    PROVE  /\ \A x, y \in DOMAIN sessions : x = y
           /\ IsFiniteSet(DOMAIN sessions) /\ DOMAIN sessions \subseteq random
<1>1. /\ StoreP!Cardinality(DOMAIN sessions) <= 1 /\ StoreP!IsFiniteSet(DOMAIN sessions)
      /\ DOMAIN sessions \subseteq random
      BY DEF SafeParts, StoreP!SafeStore, StoreP!CapacityRespected, StoreP!TypeOK
<1>2. IsFiniteSet(DOMAIN sessions)
      BY <1>1 DEF StoreP!IsFiniteSet, IsFiniteSet
<1>3. Cardinality(DOMAIN sessions) <= 1
      BY <1>1, CardinalitySame
<1>4. ASSUME NEW x \in DOMAIN sessions, NEW y \in DOMAIN sessions, x # y PROVE FALSE
  <2>1. {x, y} \subseteq DOMAIN sessions
        OBVIOUS
  <2>2. Cardinality({x, y}) <= Cardinality(DOMAIN sessions)
        BY <1>2, <2>1, FS_Subset
  <2>3. IsFiniteSet({x}) /\ Cardinality({x}) = 1
        BY FS_Singleton
  <2>4. Cardinality({x} \cup {y}) = 2
        BY <1>4, <2>3, FS_AddElement
  <2>5. {x} \cup {y} = {x, y}
        OBVIOUS
  <2>6. Cardinality({x, y}) \in Nat /\ Cardinality(DOMAIN sessions) \in Nat
        BY <1>2, <2>1, FS_Subset, FS_CardinalityType
  <2> QED BY <1>3, <2>2, <2>4, <2>5, <2>6
<1> QED BY <1>1, <1>2, <1>4

\* Of all the sessions ever handed out, at most one is live.
THEOREM ServerOneHolder == Spec => []OneHolder
<1>1. SafeParts /\ Granted => OneHolder
  <2> SUFFICES ASSUME SafeParts, Granted, NEW c \in Calls, NEW d \in Calls,
                      Opened(c), Opened(d), reply[c] \in Live, reply[d] \in Live
               PROVE  c = d
      BY DEF OneHolder
  <2>1. reply[c] \in DOMAIN sessions /\ reply[d] \in DOMAIN sessions
        BY PrunedDomain
  <2>2. reply[c] = reply[d]
        BY <2>1, TableHoldsOne
  <2> QED BY <2>2 DEF Granted
<1> QED BY <1>1, ServerSafe, ServerGranted, PTL

\* CloseSession, as the RPC that it is: of all the calls that close a session, one at
\* most is told that it did.
THEOREM ServerClosedOnce == Spec => []ClosedOnce
<1>1. Granted => ClosedOnce
      BY DEF Granted, Acknowledged, ClosedOnce
<1> QED BY <1>1, ServerGranted, PTL

\* The request of c has been let through, to the engine.
Admitted(c) == phase[c] \in {"check", "engine"}

\* c was admitted before, and no request of c was let through since.
Stays(c) == /\ Admitted(c) /\ session'[c] = session[c]
            /\ phase'[c] = "check" => phase[c] = "check"

\* The only way to be admitted, and to stay so
LEMMA Admission ==
    ASSUME SafeCalls, [Next]_vars, NEW c \in Calls, Admitted(c)'
    PROVE  \/ Stays(c)
           \/ Store!Validate(session[c], Yolov5) /\ session'[c] = session[c]
<1> USE DEF SafeCalls, CallsTyped, Admitted, Stays
<1>1. CASE ValidateSession(c)
      BY <1>1 DEF ValidateSession, Finish
<1>2. ASSUME NEW e \in Calls, Request(e)
      PROVE  Stays(c)
      BY <1>2 DEF Request, OpenSession, CloseSession, HealthCount, StreamInfer, Infer, Read,
                  Called, Goto, Finish
<1>3. ASSUME NEW e \in Calls, Serve(e) \/ ReadEnd(e), ~ (e = c /\ ValidateSession(c))
      PROVE  Stays(c)
  <2>1. CASE HealthQueue(e) \/ Write(e) \/ ReadEnd(e)
        BY <2>1 DEF HealthQueue, Write, ReadEnd, Goto, Finish
  <2>2. CASE ValidateSession(e)
        BY <1>3, <2>2 DEF ValidateSession, Goto, Finish
  <2>3. CASE CheckRequest(e)
        BY <2>3 DEF CheckRequest, Goto, Finish
  <2>4. CASE EngineStep(e)
        BY <2>4 DEF EngineStep, calls
  <2>5. CASE AnswerInference(e)
        BY <2>5 DEF AnswerInference, Goto, Finish
  <2> QED BY <1>3, <2>1, <2>2, <2>3, <2>4, <2>5 DEF Serve
<1>4. CASE AnswerDiscovery \/ Tick \/ UNCHANGED vars
      BY <1>4 DEF AnswerDiscovery, Tick, vars, calls
<1> QED BY <1>1, <1>2, <1>3, <1>4 DEF Next

\* run_inference, after validate_session: no request with a session whose close was
\* acknowledged is let through.
THEOREM ServerClosedStaysClosed == Spec => ClosedStaysClosed
<1> DEFINE Refused ==
      \A c \in Calls :
        phase[c] # "check" /\ phase'[c] = "check" => ~ CloseAcknowledged(session'[c])
<1>1. SafeCalls /\ SafeParts /\ Granted /\ [Next]_vars => Refused
  <2> SUFFICES ASSUME SafeCalls, SafeParts, Granted, [Next]_vars, NEW c \in Calls,
                      phase[c] # "check", phase'[c] = "check", CloseAcknowledged(session'[c])
               PROVE  FALSE
      OBVIOUS
  <2> USE DEF SafeCalls, CallsTyped
  <2>1. PICK d \in Calls : Acknowledged(d) /\ session[d] = session'[c]
        BY DEF CloseAcknowledged, Acknowledged
  <2>2. session'[c] \notin DOMAIN sessions
        BY <2>1 DEF Granted
  <2>3. ~ Stays(c)
        BY DEF Stays
  <2>4. Store!Validate(session[c], Yolov5) /\ session'[c] = session[c]
        BY <2>3, Admission DEF Admitted
  <2> QED BY <2>2, <2>4, PrunedDomain DEF Store!Validate
<1>2. SafeCalls /\ SafeParts /\ Granted /\ [Next]_vars => [Refused]_vars
      BY <1>1
<1>3. Spec => []Granted
      BY ServerGranted
<1> QED BY <1>2, <1>3, ServerSafe, PTL DEF Spec, ClosedStaysClosed

\* OpenSession, after session_store_open returned -2: somebody's session is live.
THEOREM ServerRefusedOnlyWhenTaken == Spec => RefusedOnlyWhenTaken
<1> DEFINE Justified ==
      \A c \in Calls :
        method'[c] = "OpenSession" /\ status'[c] = "RESOURCE_EXHAUSTED" /\ status[c] = "pending"
        => \E d \in Calls : Opened(d) /\ reply[d] \in Live
<1>1. SafeCalls /\ SafeParts /\ Granted /\ [Next]_vars => Justified
  <2> SUFFICES ASSUME SafeCalls, SafeParts, Granted, [Next]_vars, NEW c \in Calls,
                      method'[c] = "OpenSession", status'[c] = "RESOURCE_EXHAUSTED",
                      status[c] = "pending"
               PROVE  \E d \in Calls : Opened(d) /\ reply[d] \in Live
      OBVIOUS
  <2> USE DEF SafeCalls, CallsTyped
  <2>1. phase[c] # "done" /\ method[c] # "OpenSession"
        BY DEF Answering, Granted
  <2>2. ASSUME NEW model, NEW ok, OpenSession(c, model, ok) PROVE Store!OpenRefused
        BY <2>2 DEF OpenSession, Finish
  <2>3. CASE Store!OpenRefused
    <3>1. Store!Cardinality(DOMAIN Store!Pruned) >= 1
          BY <2>3 DEF Store!OpenRefused
    <3>2. Cardinality(Live) >= 1
          BY <3>1, PrunedDomain, CardinalitySame
    <3>3. Live # {}
      <4>1. ASSUME Live = {} PROVE FALSE
        <5>1. Cardinality({}) = 0 /\ Cardinality(Live) = Cardinality({})
              BY <4>1, FS_EmptySet
        <5>2. ~ (0 >= 1)
              OBVIOUS
        <5> QED BY <3>2, <5>1, <5>2
      <4> QED BY <4>1
    <3>4. PICK id \in Live : id \in random
          BY <3>3, PrunedDomain, TableHoldsOne
    <3>5. PICK d \in Calls : Opened(d) /\ reply[d] = id
          BY <3>4 DEF Granted
    <3> QED BY <3>4, <3>5
  <2>4. ASSUME NEW e \in Calls, NEW model, NEW ok, OpenSession(e, model, ok), e # c PROVE FALSE
        BY <2>1, <2>4 DEF OpenSession, Called
  <2>5. ASSUME NEW e \in Calls, NEW id, CloseSession(e, id) PROVE FALSE
        BY <2>1, <2>5 DEF CloseSession, Called
  <2>6. ASSUME NEW e \in Calls,
               \/ HealthCount(e) \/ StreamInfer(e)
               \/ \E id \in SessionIds, image \in Images : Infer(e, id, image) \/ Read(e, id, image)
               \/ Serve(e) \/ ReadEnd(e)
        PROVE  FALSE
        BY <2>1, <2>6, OtherStep
  <2>7. CASE AnswerDiscovery \/ Tick \/ UNCHANGED vars
        BY <2>1, <2>7 DEF AnswerDiscovery, Tick, vars, calls
  <2> QED BY <2>2, <2>3, <2>4, <2>5, <2>6, <2>7 DEF Next, Request
<1>2. SafeCalls /\ SafeParts /\ Granted /\ [Next]_vars => [Justified]_vars
      BY <1>1
<1>3. Spec => []Granted
      BY ServerGranted
<1> QED BY <1>2, <1>3, ServerSafe, PTL DEF Spec, RefusedOnlyWhenTaken
-------------------------------------------------------------------------------
\* Who may use the NPU

\* Nobody has an image inferred without a session that OpenSession handed out, whatever
\* ids clients make up; and while it is live, it is the only one.  What ExclusiveOwnership
\* asks for beyond this, that it still be live, is not so.
OnlyHoldersInfer ==
    \A c \in Calls :
        Admitted(c) => /\ \E d \in Calls : Opened(d) /\ reply[d] = session[c]
                       /\ session[c] \in Live => Live = {session[c]}

\* The moment run_inference lets a request through, its session is the one that is live.
AdmittedExclusively ==
    [][\A c \in Calls :
         phase[c] # "check" /\ phase'[c] = "check" => Live' = {session'[c]}]_vars

LEMMA ValidatedHolds ==
    ASSUME SafeParts, SafeParts', NEW id \in SessionIds, Store!Validate(id, Yolov5)
    PROVE  Live' = {id} /\ id \in random /\ random' = random
<1>1. StoreP!Validate(id, Yolov5)
      BY DEF Store!Validate, StoreP!Validate, Store!Pruned, StoreP!Pruned, Store!Live, StoreP!Live,
             Store!Expired, StoreP!Expired, Store!Restrict, StoreP!Restrict, Store!Stored,
             StoreP!Stored, Store!NewEntry, StoreP!NewEntry
<1>2. Store!Live = StoreP!Live /\ Store!Live' = StoreP!Live'
      BY DEF Store!Live, StoreP!Live, Store!Expired, StoreP!Expired
<1>3. Live' = Live /\ id \in Live
      BY <1>1, <1>2, StoreP!ValidateLive, ComponentAssumptions, ServerAssumption
      DEF SafeParts, Live
<1>4. Live = {id} /\ id \in random
      BY <1>3, PrunedDomain, TableHoldsOne
<1> QED BY <1>3, <1>4 DEF Store!Validate

\* The id that validate_session finds was drawn, and stays so.
AdmittedDrawn == \A c \in Calls : Admitted(c) => session[c] \in random

LEMMA AdmittedStep ==
    SafeCalls /\ SafeParts /\ SafeParts' /\ AdmittedDrawn /\ [Next]_vars => AdmittedDrawn'
<1> SUFFICES ASSUME SafeCalls, SafeParts, SafeParts', AdmittedDrawn, [Next]_vars,
                    NEW c \in Calls, Admitted(c)'
             PROVE  session'[c] \in random'
    BY DEF AdmittedDrawn
<1>1. CASE Stays(c)
  <2>1. random \subseteq random'
    <3>1. [Store!Next]_(Store!vars)
          BY StoreSteps
    <3>2. CASE Store!Operation \/ Store!Tick
          BY <3>2, OpenEffect, OtherEffect DEF Store!Operation
    <3> QED BY <3>1, <3>2 DEF Store!Next, Store!vars
  <2> QED BY <1>1, <2>1 DEF AdmittedDrawn, Stays
<1>2. CASE Store!Validate(session[c], Yolov5) /\ session'[c] = session[c]
  <2>1. session[c] \in random
        BY <1>2, PrunedDomain, TableHoldsOne DEF Store!Validate
  <2> QED BY <1>2, <2>1 DEF Store!Validate
<1> QED BY <1>1, <1>2, Admission

\* The NPU is only ever used on behalf of sessions handed out, one of which is live.
THEOREM ServerOnlyHoldersInfer == Spec => []OnlyHoldersInfer
<1>1. Init => AdmittedDrawn
      BY DEF Init, AdmittedDrawn, Admitted
<1>2. Spec => []AdmittedDrawn
      BY <1>1, AdmittedStep, ServerSafe, PTL DEF Spec
<1>3. SafeParts /\ Granted /\ AdmittedDrawn => OnlyHoldersInfer
  <2> SUFFICES ASSUME SafeParts, Granted, AdmittedDrawn, NEW c \in Calls, Admitted(c)
               PROVE  /\ \E d \in Calls : Opened(d) /\ reply[d] = session[c]
                      /\ session[c] \in Live => Live = {session[c]}
      BY DEF OnlyHoldersInfer
  <2>1. \E d \in Calls : Opened(d) /\ reply[d] = session[c]
        BY DEF AdmittedDrawn, Granted
  <2>2. session[c] \in Live => Live = {session[c]}
        BY PrunedDomain, TableHoldsOne
  <2> QED BY <2>1, <2>2
<1> QED BY <1>2, <1>3, ServerSafe, ServerGranted, PTL

\* Exclusive ownership holds where the code checks it, after validate_session.
THEOREM ServerAdmittedExclusively == Spec => AdmittedExclusively
<1> DEFINE Exclusive ==
      \A c \in Calls : phase[c] # "check" /\ phase'[c] = "check" => Live' = {session'[c]}
<1>1. SafeCalls /\ SafeParts /\ SafeParts' /\ [Next]_vars => Exclusive
  <2> SUFFICES ASSUME SafeCalls, SafeParts, SafeParts', [Next]_vars, NEW c \in Calls,
                      phase[c] # "check", phase'[c] = "check"
               PROVE  Live' = {session'[c]}
      OBVIOUS
  <2>1. CASE Stays(c)
        BY <2>1 DEF Stays
  <2>2. CASE Store!Validate(session[c], Yolov5) /\ session'[c] = session[c]
    <3>1. session[c] \in SessionIds
          BY <2>2, PrunedDomain, TableHoldsOne
          DEF Store!Validate, SafeParts, StoreP!SafeStore, StoreP!TypeOK
    <3> QED BY <2>2, <3>1, ValidatedHolds
  <2> QED BY <2>1, <2>2, Admission DEF Admitted
<1>2. SafeCalls /\ SafeParts /\ SafeParts' /\ [Next]_vars => [Exclusive]_vars
      BY <1>1
<1> QED BY <1>2, ServerSafe, PTL DEF Spec, AdmittedExclusively

-------------------------------------------------------------------------------
\* What the store and the engine promise, the server promises

LEMMA LeaseSame ==
    /\ StoreP!Lease!Init => Store!Lease!Init
    /\ [StoreP!Lease!Next]_(StoreP!Lease!lease_vars) => [Store!Lease!Next]_(Store!Lease!lease_vars)
<1>1. Store!Live = StoreP!Live /\ Store!TimeoutTicks = StoreP!TimeoutTicks
      BY StoreSame DEF Store!TimeoutTicks, StoreP!TimeoutTicks
<1>2. Store!Live' = StoreP!Live'
      BY DEF Store!Live, StoreP!Live, Store!Expired, StoreP!Expired
<1>3. StoreP!Lease!Init => Store!Lease!Init
      BY <1>1 DEF StoreP!Lease!Init, Store!Lease!Init
<1>4. Store!Lease!Held = StoreP!Lease!Held
      BY <1>1 DEF StoreP!Lease!Held, Store!Lease!Held
<1>5. ASSUME NEW s
      PROVE  /\ StoreP!Lease!Grant(s) => Store!Lease!Grant(s)
             /\ StoreP!Lease!Renew(s) => Store!Lease!Renew(s)
             /\ StoreP!Lease!Release(s) => Store!Lease!Release(s)
  <2>1. StoreP!Lease!Cardinality(StoreP!Lease!Held) = Store!Lease!Cardinality(Store!Lease!Held)
        BY <1>4 DEF StoreP!Lease!Cardinality, Store!Lease!Cardinality
  <2> QED BY <1>1, <1>2, <1>4, <2>1
          DEF StoreP!Lease!Grant, Store!Lease!Grant, StoreP!Lease!Renew, Store!Lease!Renew,
              StoreP!Lease!Release, Store!Lease!Release
<1>6. StoreP!Lease!Elapse => Store!Lease!Elapse
      BY <1>1, <1>2, <1>4 DEF StoreP!Lease!Elapse, Store!Lease!Elapse
<1>7. UNCHANGED StoreP!Lease!lease_vars => UNCHANGED Store!Lease!lease_vars
      BY <1>1, <1>2 DEF StoreP!Lease!lease_vars, Store!Lease!lease_vars
<1> QED BY <1>3, <1>5, <1>6, <1>7 DEF StoreP!Lease!Next, Store!Lease!Next

\* Seen from its clients the server is the lease service: whatever RPCs run at the same
\* time, OpenSession grants, Infer and StreamInfer renew, CloseSession releases.
THEOREM ServerImplementsLease == Spec => Store!ImplementsLease
<1>1. StoreP!Spec => StoreP!ImplementsLease
      BY StoreP!StoreImplementsLease, ComponentAssumptions
<1>2. StoreP!ImplementsLease => Store!ImplementsLease
      BY LeaseSame, PTL DEF Store!ImplementsLease, StoreP!ImplementsLease,
                            Store!Lease!Spec, StoreP!Lease!Spec
<1>3. [Store!Next]_(Store!vars) => [StoreP!Next]_(StoreP!vars)
      BY StoreSame DEF Store!vars, StoreP!vars
<1>4. Store!Spec => StoreP!Spec
      BY <1>3, StoreSame, PTL DEF Store!Spec, StoreP!Spec
<1> QED BY <1>1, <1>2, <1>4, ServerContainsStore, PTL

LEMMA AtomicSame ==
    /\ EngineP!Atomic!Init => Engine!Atomic!Init
    /\ [EngineP!Atomic!Next]_(EngineP!Atomic!inference_vars)
           => [Engine!Atomic!Next]_(Engine!Atomic!inference_vars)
<1> USE DEF EngineP!Atomic!NoOutcome, Engine!Atomic!NoOutcome, EngineP!NoOutcome, Engine!NoOutcome,
            EngineP!Atomic!Failed, Engine!Atomic!Failed
<1>1. EngineP!Atomic!Init => Engine!Atomic!Init
      BY DEF EngineP!Atomic!Init, Engine!Atomic!Init
<1>2. ASSUME NEW t \in Calls
      PROVE  /\ \A p : EngineP!Atomic!Call(t, p) => Engine!Atomic!Call(t, p)
             /\ \A o : EngineP!Atomic!Answer(t, o) => Engine!Atomic!Answer(t, o)
             /\ EngineP!Atomic!Take(t) => Engine!Atomic!Take(t)
      BY DEF EngineP!Atomic!Call, Engine!Atomic!Call, EngineP!Atomic!Answer, Engine!Atomic!Answer,
             EngineP!Atomic!Take, Engine!Atomic!Take, EngineP!Atomic!Answers, Engine!Atomic!Answers
<1>3. EngineP!Atomic!Outcome = Engine!Atomic!Outcome
      BY DEF EngineP!Atomic!Outcome, Engine!Atomic!Outcome
<1>4. UNCHANGED EngineP!Atomic!inference_vars => UNCHANGED Engine!Atomic!inference_vars
      BY DEF EngineP!Atomic!inference_vars, Engine!Atomic!inference_vars
<1> QED BY <1>1, <1>2, <1>3, <1>4 DEF EngineP!Atomic!Next, Engine!Atomic!Next

\* Every inference an RPC asks for is answered as if it ran alone on the NPU, however
\* many handlers share it, and from the image of its own request.
THEOREM ServerImplementsInference == Spec => Engine!ImplementsAtomic
<1>1. EngineP!Spec => EngineP!ImplementsAtomic
      BY EngineP!EngineImplementsAtomic, ComponentAssumptions
<1>2. EngineP!ImplementsAtomic => Engine!ImplementsAtomic
      BY AtomicSame, PTL DEF Engine!ImplementsAtomic, EngineP!ImplementsAtomic,
                             Engine!Atomic!Spec, EngineP!Atomic!Spec
<1>3. [Engine!Next]_(Engine!vars) => [EngineP!Next]_(EngineP!vars)
      BY EngineSame DEF Engine!vars, EngineP!vars, Engine!tensors, EngineP!tensors
<1>4. Engine!Spec => EngineP!Spec
      BY <1>3, EngineSame, PTL DEF Engine!Spec, EngineP!Spec
<1> QED BY <1>1, <1>2, <1>4, ServerContainsEngine, PTL

===============================================================================
