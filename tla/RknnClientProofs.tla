---------------------------- MODULE RknnClientProofs ----------------------------
(***************************************************************************)
(* Proofs about RknnClient, for any number of clients and calls under way: *)
(* whatever the network loses or delays, no session has two clients and a  *)
(* close that arrives late finds no client with its session.               *)
(***************************************************************************)
EXTENDS RknnClient, FiniteSetTheorems, TLAPS

\* The proofs about the store, for the instance that Store is
StoreP == INSTANCE SessionStoreProofs WITH MaxSessions <- 1, Models <- {"yolov5"}

-------------------------------------------------------------------------------
\* The definitions of Store and StoreP are the same.

LEMMA CardinalitySame ==
    ASSUME NEW S
    PROVE  Store!Cardinality(S) = Cardinality(S) /\ StoreP!Cardinality(S) = Cardinality(S)
<1>1. Store!Cardinality(S) = Cardinality(S)
      BY DEF Store!Cardinality, Cardinality
<1>2. StoreP!Cardinality(S) = Cardinality(S)
      BY DEF StoreP!Cardinality, Cardinality
<1> QED BY <1>1, <1>2

\* What the proofs about the store assume of the constants
LEMMA StoreAssumed == StoreP!StoreAssumption
BY ClientAssumption DEF StoreP!StoreAssumption

LEMMA StoreSame ==
    /\ Store!Init <=> StoreP!Init
    /\ Store!Next <=> StoreP!Next
    /\ Store!vars = StoreP!vars
    /\ Store!TypeOK <=> StoreP!TypeOK
    /\ Store!Live = StoreP!Live
    /\ Store!Pruned = StoreP!Pruned
    /\ \A id, model : /\ Store!Open(id, model) <=> StoreP!Open(id, model)
                      /\ Store!Validate(id, model) <=> StoreP!Validate(id, model)
    /\ \A id : Store!Close(id) <=> StoreP!Close(id)
    /\ Store!Tick <=> StoreP!Tick
<1>1. /\ Store!Pruned = StoreP!Pruned /\ Store!Live = StoreP!Live
      /\ Store!TimeoutTicks = StoreP!TimeoutTicks
      BY DEF Store!Pruned, StoreP!Pruned, Store!Live, StoreP!Live, Store!Expired, StoreP!Expired,
             Store!Restrict, StoreP!Restrict, Store!TimeoutTicks, StoreP!TimeoutTicks
<1>2. Store!Init <=> StoreP!Init
      BY DEF Store!Init, StoreP!Init, Store!NewEntry, StoreP!NewEntry
<1>3. Store!TypeOK <=> StoreP!TypeOK
      BY <1>1 DEF Store!TypeOK, StoreP!TypeOK, Store!Entry, StoreP!Entry
<1>4. Store!vars = StoreP!vars
      BY DEF Store!vars, StoreP!vars
<1> USE <1>1, <1>4, CardinalitySame
<1>5. /\ \A model : Store!NewEntry(model) = StoreP!NewEntry(model)
      /\ \A table, id, entry : Store!Stored(table, id, entry) = StoreP!Stored(table, id, entry)
      /\ \A table, ids : Store!Restrict(table, ids) = StoreP!Restrict(table, ids)
      BY DEF Store!Stored, StoreP!Stored, Store!NewEntry, StoreP!NewEntry,
             Store!Restrict, StoreP!Restrict
<1>6. ASSUME NEW id, NEW model PROVE Store!Open(id, model) <=> StoreP!Open(id, model)
      BY <1>5 DEF Store!Open, StoreP!Open
<1>7. ASSUME NEW id, NEW model PROVE Store!Validate(id, model) <=> StoreP!Validate(id, model)
      BY <1>5 DEF Store!Validate, StoreP!Validate
<1>8. ASSUME NEW id PROVE Store!Close(id) <=> StoreP!Close(id)
      BY <1>5 DEF Store!Close, StoreP!Close
<1>9. Store!Operation <=> StoreP!Operation
  <2>1. Store!OpenRefused <=> StoreP!OpenRefused
        BY DEF Store!OpenRefused, StoreP!OpenRefused
  <2>2. ASSUME NEW id PROVE Store!ValidateRefused(id) <=> StoreP!ValidateRefused(id)
        BY DEF Store!ValidateRefused, StoreP!ValidateRefused
  <2>3. ASSUME NEW id PROVE Store!CloseRefused(id) <=> StoreP!CloseRefused(id)
        BY DEF Store!CloseRefused, StoreP!CloseRefused, Store!vars, StoreP!vars
  <2>4. ASSUME NEW n PROVE Store!Count(n) <=> StoreP!Count(n)
    <3>1. Store!Cardinality(DOMAIN Store!Pruned) = StoreP!Cardinality(DOMAIN StoreP!Pruned)
          OBVIOUS
    <3> QED BY <3>1 DEF Store!Count, StoreP!Count
  <2> QED BY <1>6, <1>7, <1>8, <2>1, <2>2, <2>3, <2>4 DEF Store!Operation, StoreP!Operation
<1>10. Store!Tick <=> StoreP!Tick
       BY DEF Store!Tick, StoreP!Tick
<1> QED BY <1>2, <1>3, <1>6, <1>7, <1>8, <1>9, <1>10 DEF Store!Next, StoreP!Next

-------------------------------------------------------------------------------
\* The inductive invariant

Typed == /\ session_id \in [Clients -> SessionIds \cup {None}]
         /\ at \in [Clients -> Doing]
         /\ call \in [Clients -> [kind : Kinds \cup {"none"}, id : SessionIds \cup {None},
                                  answer : Answers \cup {"pending"}]]
         /\ orphans \subseteq [kind : Kinds, id : SessionIds \cup {None}, answer : {"pending"}]

\* What a client waits for fits what it is doing.
Waiting(c) ==
    /\ at[c] = "idle" <=> call[c].kind = "none"
    /\ at[c] = "idle" => call[c].answer = "pending"
    /\ at[c] \in {"closing", "reconnecting"} <=> call[c].kind = "close"
    /\ call[c].kind \in {"close", "infer"} =>
          call[c].id = session_id[c] /\ session_id[c] # None
    /\ at[c] = "inferring" <=> call[c].kind = "infer"
    /\ at[c] = "opening" <=> call[c].kind = "open"
    /\ call[c].kind \in {"open", "health"} => session_id[c] = None

\* An OpenSession whose answer holds a session is on its way to c.
Granted(c) == call[c].kind = "open" /\ call[c].answer = "ok"

\* The session a client has, or will have when the answer arrives
Owns(c, id) == id # None /\ (session_id[c] = id \/ (Granted(c) /\ call[c].id = id))

Owners == /\ \A c \in Clients : \A id : Owns(c, id) => id \in random
          /\ \A c, d \in Clients : \A id : Owns(c, id) /\ Owns(d, id) => c = d

\* Calls whose clients have gone on: a close names a session that nobody owns any more.
Abandoned == \A x \in orphans :
                /\ x.kind \in {"close", "infer"} => x.id \in SessionIds
                /\ x.kind = "close" => x.id \in random /\ \A c \in Clients : ~ Owns(c, x.id)

SafeClients == /\ Typed
               /\ \A c \in Clients : Waiting(c)
               /\ Owners
               /\ Abandoned

LEMMA ClientsInit == Init => SafeClients /\ StoreP!SafeStore
<1> SUFFICES ASSUME Init PROVE SafeClients /\ StoreP!SafeStore
    OBVIOUS
<1>1. StoreP!SafeStore
      BY StoreSame, StoreAssumed, StoreP!InitSafe DEF Init
<1>2. \A c \in Clients : /\ session_id[c] = None /\ at[c] = "idle"
                         /\ call[c].kind = "none" /\ call[c].answer = "pending" /\ call[c].id = None
      BY DEF Init, NoCall, Call
<1>3. Typed
      BY DEF Init, Typed, Doing, Kinds, Answers, NoCall, Call
<1>4. (\A c \in Clients : Waiting(c)) /\ Owners
      BY <1>2 DEF Waiting, Owners, Owns, Granted
<1>5. Abandoned
      BY DEF Init, Abandoned
<1> QED BY <1>1, <1>3, <1>4, <1>5 DEF SafeClients

-------------------------------------------------------------------------------
\* What a call does to the store

LEMMA Undrawn ==
    ASSUME \/ Store!OpenRefused \/ Store!Tick
           \/ \E id, model : Store!Validate(id, model)
           \/ \E id : Store!ValidateRefused(id) \/ Store!Close(id) \/ Store!CloseRefused(id)
           \/ \E n : Store!Count(n)
    PROVE  random' = random
BY DEF Store!OpenRefused, Store!Tick, Store!Validate, Store!ValidateRefused, Store!Close,
       Store!CloseRefused, Store!Count, Store!vars

LEMMA RunEffect ==
    ASSUME NEW x, NEW answer, NEW id, Run(x, answer, id)
    PROVE  /\ x.kind \in {"open", "close", "infer", "health"}
           /\ answer \in Answers
           /\ x.kind = "open" /\ answer = "ok" =>
                 id \in SessionIds \ random /\ random' = random \cup {id}
           /\ ~ (x.kind = "open" /\ answer = "ok") => random' = random
           /\ x.kind \in {"close", "infer"} => id = x.id
           /\ x.kind = "health" \/ (x.kind = "open" /\ answer # "ok") => id = None
<1>1. CASE x.kind = "open" /\ answer = "ok" /\ Store!Open(id, "yolov5")
      BY <1>1 DEF Store!Open, Answers
<1>2. CASE x.kind = "open" /\ answer = "RESOURCE_EXHAUSTED" /\ id = None /\ Store!OpenRefused
      BY <1>2, Undrawn DEF Answers
<1>3. CASE /\ x.kind = "close" /\ answer \in {"ok", "not closed"} /\ id = x.id
           /\ Store!Close(id) \/ Store!CloseRefused(id)
      BY <1>3, Undrawn DEF Answers
<1>4. CASE /\ x.kind = "infer" /\ answer \in {"ok", "NOT_FOUND"} /\ id = x.id
           /\ Store!Validate(id, "yolov5") \/ Store!ValidateRefused(id)
      BY <1>4, Undrawn DEF Answers
<1>5. CASE x.kind = "health" /\ answer = "ok" /\ id = None /\ \E n \in 0 .. 1 : Store!Count(n)
      BY <1>5, Undrawn DEF Answers
<1> QED BY <1>1, <1>2, <1>3, <1>4, <1>5 DEF Run

LEMMA RunIsStoreStep ==
    ASSUME NEW x, NEW answer, NEW id, Run(x, answer, id),
           x.kind \in {"close", "infer"} => x.id \in SessionIds
    PROVE  Store!Next
<1>1. CASE Store!Open(id, "yolov5")
  <2>1. id \in SessionIds /\ "yolov5" \in {"yolov5"}
        BY <1>1 DEF Store!Open
  <2> QED BY <1>1, <2>1 DEF Store!Next, Store!Operation
<1>2. CASE Store!OpenRefused \/ \E n \in 0 .. 1 : Store!Count(n)
      BY <1>2 DEF Store!Next, Store!Operation
<1>3. CASE /\ id \in SessionIds
           /\ \/ Store!Close(id) \/ Store!CloseRefused(id)
              \/ Store!Validate(id, "yolov5") \/ Store!ValidateRefused(id)
      BY <1>3 DEF Store!Next, Store!Operation
<1> QED BY <1>1, <1>2, <1>3 DEF Run

-------------------------------------------------------------------------------
\* Steps of one client that leave the store alone: it owns nothing new, and calls it
\* abandons close nothing it still has.

LEMMA OneClientMoves ==
    ASSUME SafeClients, NEW c \in Clients, Typed', Waiting(c)', random' = random,
           \A d \in Clients \ {c} : /\ session_id'[d] = session_id[d] /\ at'[d] = at[d]
                                    /\ call'[d] = call[d],
           \A id : Owns(c, id)' => Owns(c, id),
           \A x \in orphans' \ orphans :
              /\ x.kind \in {"close", "infer"} => x.id \in SessionIds
              /\ x.kind = "close" => Owns(c, x.id) /\ ~ Owns(c, x.id)'
    PROVE  SafeClients'
<1>1. ASSUME NEW d \in Clients, NEW id PROVE Owns(d, id)' => Owns(d, id)
  <2>1. CASE d = c
        BY <2>1
  <2>2. CASE d # c
        BY <2>2 DEF Owns, Granted
  <2> QED BY <2>1, <2>2
<1>2. \A d \in Clients : Waiting(d)'
  <2>1. ASSUME NEW d \in Clients \ {c} PROVE Waiting(d)'
        BY <2>1 DEF SafeClients, Waiting
  <2> QED BY <2>1
<1>3. Owners'
      BY <1>1 DEF SafeClients, Owners
<1>4. ASSUME NEW x \in orphans'
      PROVE  /\ x.kind \in {"close", "infer"} => x.id \in SessionIds
             /\ x.kind = "close" => x.id \in random /\ \A d \in Clients : ~ Owns(d, x.id)'
  <2>1. CASE x \in orphans
        BY <1>1, <2>1 DEF SafeClients, Abandoned
  <2>2. CASE x \notin orphans
    <3>1. x.kind = "close" => Owns(c, x.id) /\ ~ Owns(c, x.id)'
          BY <2>2
    <3>2. x.kind = "close" => \A d \in Clients : ~ Owns(d, x.id)'
          BY <1>1, <3>1 DEF SafeClients, Owners
    <3> QED BY <2>2, <3>1, <3>2 DEF SafeClients, Owners
  <2> QED BY <2>1, <2>2
<1>5. Abandoned'
      BY <1>4 DEF Abandoned
<1> QED BY <1>2, <1>3, <1>5 DEF SafeClients

\* The records that are calls
LEMMA CallIs ==
    ASSUME NEW kind, NEW id
    PROVE  /\ Call(kind, id).kind = kind /\ Call(kind, id).id = id
           /\ Call(kind, id).answer = "pending"
           /\ kind \in Kinds \cup {"none"} /\ id \in SessionIds \cup {None} =>
                 Call(kind, id) \in [kind : Kinds \cup {"none"}, id : SessionIds \cup {None},
                                     answer : Answers \cup {"pending"}]
BY DEF Call

\* A client sends a call that fits the session it has, or has not; it owns nothing new by that.
LEMMA SendSafe ==
    ASSUME SafeClients, NEW c \in Clients, NEW doing \in Doing, NEW kind \in Kinds,
           NEW id \in SessionIds \cup {None},
           Send(c, doing, kind, id), random' = random, orphans' = orphans,
           session_id' = session_id,
           \/ kind \in {"close", "infer"} /\ id = session_id[c] /\ id # None
           \/ kind \in {"open", "health"} /\ session_id[c] = None,
           kind = "close" <=> doing \in {"closing", "reconnecting"},
           kind = "infer" <=> doing = "inferring",
           kind = "open" <=> doing = "opening",
           doing # "idle"
    PROVE  SafeClients'
<1> USE DEF SafeClients, Typed
<1>1. /\ at'[c] = doing /\ call'[c] = Call(kind, id)
      /\ \A d \in Clients \ {c} : at'[d] = at[d] /\ call'[d] = call[d]
      BY DEF Send
<1>2. Typed'
  <2>1. Call(kind, id) \in [kind : Kinds \cup {"none"}, id : SessionIds \cup {None},
                            answer : Answers \cup {"pending"}]
        BY CallIs
  <2>2. /\ at' \in [Clients -> Doing]
        /\ call' \in [Clients -> [kind : Kinds \cup {"none"}, id : SessionIds \cup {None},
                                  answer : Answers \cup {"pending"}]]
        BY <2>1 DEF Send
  <2> QED BY <2>2
<1>3. call'[c].kind = kind /\ call'[c].id = id /\ call'[c].answer = "pending" /\ kind # "none"
      BY <1>1, CallIs DEF Kinds
<1>4. Waiting(c)'
      BY <1>1, <1>3 DEF Waiting
<1>5. \A i : Owns(c, i)' => Owns(c, i)
      BY <1>3 DEF Owns, Granted
<1> QED BY <1>1, <1>2, <1>4, <1>5, OneClientMoves

\* A client begins an operation.
LEMMA BeginSafe ==
    ASSUME SafeClients, NEW c \in Clients, Connect(c) \/ Close(c) \/ Infer(c)
    PROVE  SafeClients'
<1>1. random' = random /\ orphans' = orphans /\ session_id' = session_id
      BY DEF Connect, Close, Infer, store
<1>2. /\ {"closing", "reconnecting", "health", "inferring"} \subseteq Doing
      /\ {"close", "health", "infer"} \subseteq Kinds
      /\ session_id[c] \in SessionIds \cup {None}
      BY DEF Doing, Kinds, SafeClients, Typed
<1>3. CASE session_id[c] # None /\ \/ Send(c, "reconnecting", "close", session_id[c])
                                   \/ Send(c, "closing", "close", session_id[c])
      BY <1>1, <1>2, <1>3, SendSafe
<1>4. CASE session_id[c] = None /\ Send(c, "health", "health", None)
      BY <1>1, <1>2, <1>4, SendSafe
<1>5. CASE session_id[c] # None /\ Send(c, "inferring", "infer", session_id[c])
      BY <1>1, <1>2, <1>5, SendSafe
<1> QED BY <1>3, <1>4, <1>5 DEF Connect, Close, Infer

\* The call of c ends; what c still has it had before, and a close left under way
\* names the session that c gave up.
LEMMA EndSafe ==
    ASSUME SafeClients, NEW c \in Clients, NEW id, random' = random,
           \/ Done(c)
           \/ Send(c, "health", "health", None) /\ id = None,
           session_id' = [session_id EXCEPT ![c] = id],
           id = None \/ Owns(c, id),
           orphans' = orphans \/ (Abandon(c) /\ at[c] # "idle"),
           call[c].kind = "close" => id = None
    PROVE  SafeClients'
<1> USE DEF SafeClients, Typed
<1>1. id \in SessionIds \cup {None} /\ session_id'[c] = id
  <2>1. session_id[c] \in SessionIds \cup {None} /\ call[c].id \in SessionIds \cup {None}
        OBVIOUS
  <2> QED BY <2>1 DEF Owns
<1>2. /\ \/ at'[c] = "idle" /\ call'[c] = Call("none", None)
         \/ at'[c] = "health" /\ call'[c] = Call("health", None) /\ id = None
      /\ \A d \in Clients \ {c} : /\ session_id'[d] = session_id[d] /\ at'[d] = at[d]
                                  /\ call'[d] = call[d]
      BY DEF Done, Send, NoCall
<1>3. /\ call'[c].kind \in {"none", "health"} /\ call'[c].answer = "pending"
      /\ at'[c] = "idle" <=> call'[c].kind = "none"
      /\ at'[c] \in {"idle", "health"}
      /\ call'[c].kind = "health" => session_id'[c] = None
      BY <1>1, <1>2, CallIs
<1>4. Waiting(c)'
      BY <1>3 DEF Waiting
<1>5. \A i : Owns(c, i)' => i = id /\ Owns(c, i)
      BY <1>1, <1>3 DEF Owns, Granted
<1>6. ASSUME NEW x \in orphans' \ orphans
      PROVE  /\ x = call[c] /\ x.kind \in Kinds /\ x.answer = "pending"
             /\ x.kind \in {"close", "infer"} => x.id \in SessionIds
             /\ x.kind = "close" => Owns(c, x.id) /\ ~ Owns(c, x.id)'
  <2>1. x = call[c] /\ x.answer = "pending" /\ at[c] # "idle"
        BY <1>6 DEF Abandon
  <2>2. x.kind # "none" /\ x.kind \in Kinds \cup {"none"}
        BY <2>1 DEF Waiting
  <2>3. x.kind \in {"close", "infer"} => x.id = session_id[c] /\ x.id # None /\ x.id \in SessionIds
        BY <2>1 DEF Waiting
  <2>4. x.kind = "close" => Owns(c, x.id) /\ ~ Owns(c, x.id)'
        BY <1>5, <2>1, <2>3 DEF Owns
  <2> QED BY <2>1, <2>2, <2>3, <2>4
<1>7. Typed'
  <2>1. /\ Call("none", None) \in [kind : Kinds \cup {"none"}, id : SessionIds \cup {None},
                                   answer : Answers \cup {"pending"}]
        /\ Call("health", None) \in [kind : Kinds \cup {"none"}, id : SessionIds \cup {None},
                                     answer : Answers \cup {"pending"}]
        BY CallIs DEF Kinds
  <2>2. at' \in [Clients -> Doing] /\ session_id' \in [Clients -> SessionIds \cup {None}]
        BY <1>1 DEF Done, Send, Doing
  <2>3. call' \in [Clients -> [kind : Kinds \cup {"none"}, id : SessionIds \cup {None},
                               answer : Answers \cup {"pending"}]]
        BY <2>1 DEF Done, Send, NoCall
  <2>4. orphans' \subseteq [kind : Kinds, id : SessionIds \cup {None}, answer : {"pending"}]
    <3>1. ASSUME NEW x \in orphans' \ orphans
          PROVE  x \in [kind : Kinds, id : SessionIds \cup {None}, answer : {"pending"}]
      <4>1. x \in [kind : Kinds \cup {"none"}, id : SessionIds \cup {None},
                   answer : Answers \cup {"pending"}]
            BY <1>6
      <4> QED BY <1>6, <4>1
    <3> QED BY <3>1
  <2> QED BY <2>2, <2>3, <2>4
<1> QED BY <1>2, <1>4, <1>5, <1>6, <1>7, OneClientMoves

\* An answer, a deadline or the end of its process ends what a client is doing.
LEMMA ReceiveSafe ==
    ASSUME SafeClients, NEW c \in Clients, Receive(c) \/ Timeout(c) \/ Crash(c)
    PROVE  SafeClients'
<1> USE DEF SafeClients
<1>1. random' = random
      BY DEF Receive, Timeout, Crash, store
<1>2. Waiting(c) /\ session_id[c] \in SessionIds \cup {None} /\ Typed
      BY DEF Typed
<1>3. session_id' = session_id => session_id' = [session_id EXCEPT ![c] = session_id[c]]
      BY DEF Typed
<1>4. session_id[c] = None \/ Owns(c, session_id[c])
      BY DEF Owns
<1>5. ASSUME AfterClose(c), at[c] \in {"closing", "reconnecting"},
             orphans' = orphans \/ Abandon(c)
      PROVE  SafeClients'
      BY <1>1, <1>5, EndSafe DEF AfterClose
<1>6. CASE Receive(c)
  <2>1. orphans' = orphans
        BY <1>6 DEF Receive
  <2>2. CASE at[c] \in {"closing", "reconnecting"} /\ AfterClose(c)
        BY <1>5, <2>1, <2>2
  <2>3. CASE at[c] = "health" /\ Send(c, "opening", "open", None) /\ session_id' = session_id
    <3>1. session_id[c] = None
          BY <1>2, <2>3 DEF Waiting, Typed, Kinds
    <3> QED BY <1>1, <2>1, <2>3, <3>1, SendSafe DEF Doing, Kinds
  <2>4. CASE /\ at[c] = "opening" /\ Done(c)
             /\ session_id' = [session_id EXCEPT ![c] =
                                 IF call[c].answer = "ok" THEN call[c].id ELSE None]
    <3> DEFINE id == IF call[c].answer = "ok" THEN call[c].id ELSE None
    <3>1. call[c].kind = "open"
          BY <1>2, <2>4 DEF Waiting
    <3>2. id = None \/ Owns(c, id)
          BY <3>1 DEF Owns, Granted
    <3> QED BY <1>1, <2>1, <2>4, <3>1, <3>2, EndSafe
  <2>5. CASE at[c] = "inferring" /\ Done(c) /\ session_id' = session_id
    <3>1. call[c].kind # "close"
          BY <1>2, <2>5 DEF Waiting
    <3> QED BY <1>1, <1>3, <1>4, <2>1, <2>5, <3>1, EndSafe
  <2> QED BY <1>6, <2>2, <2>3, <2>4, <2>5 DEF Receive
<1>7. CASE Timeout(c)
  <2>1. Abandon(c) /\ at[c] # "idle"
        BY <1>7 DEF Timeout
  <2>2. CASE at[c] \in {"closing", "reconnecting"} /\ AfterClose(c)
        BY <1>5, <2>1, <2>2
  <2>3. CASE /\ at[c] \in {"health", "opening", "inferring"}
             /\ Done(c) /\ session_id' = session_id
    <3>1. call[c].kind # "close"
          BY <1>2, <2>3 DEF Waiting
    <3> QED BY <1>1, <1>3, <1>4, <2>1, <2>3, <3>1, EndSafe
  <2> QED BY <1>7, <2>2, <2>3 DEF Timeout
<1>8. CASE Crash(c)
  <2>1. /\ session_id' = [session_id EXCEPT ![c] = None] /\ Done(c)
        /\ orphans' = orphans \/ (Abandon(c) /\ at[c] # "idle")
        BY <1>8 DEF Crash
  <2> QED BY <1>1, <2>1, EndSafe
<1> QED BY <1>6, <1>7, <1>8

-------------------------------------------------------------------------------
\* The server

LEMMA HandleSafe ==
    ASSUME SafeClients, NEW c \in Clients, Handle(c)
    PROVE  SafeClients'
<1> USE DEF SafeClients, Typed
<1>1. PICK answer \in Answers, id \in SessionIds \cup {None} :
         /\ Run(call[c], answer, id)
         /\ call' = [call EXCEPT ![c] = [Answered(@, answer) EXCEPT !.id = id]]
      BY DEF Handle
<1>2. /\ call[c].kind \in {"open", "close", "infer", "health"} /\ call[c].answer = "pending"
      /\ session_id' = session_id /\ at' = at /\ orphans' = orphans
      BY <1>1, RunEffect DEF Handle
<1>3. /\ call'[c].kind = call[c].kind /\ call'[c].id = id /\ call'[c].answer = answer
      /\ call'[c] \in [kind : Kinds \cup {"none"}, id : SessionIds \cup {None},
                       answer : Answers \cup {"pending"}]
      /\ \A d \in Clients \ {c} : call'[d] = call[d]
      BY <1>1 DEF Answered
<1>4. Typed'
  <2>1. call' \in [Clients -> [kind : Kinds \cup {"none"}, id : SessionIds \cup {None},
                               answer : Answers \cup {"pending"}]]
        BY <1>1, <1>3
  <2> QED BY <1>2, <2>1
<1>5. ASSUME NEW d \in Clients PROVE Waiting(d)'
  <2>1. call[c].kind \in {"close", "infer"} => id = call[c].id
        BY <1>1, RunEffect
  <2>2. CASE d = c
        BY <1>2, <1>3, <2>1, <2>2 DEF Waiting
  <2>3. CASE d # c
        BY <1>2, <1>3, <2>3 DEF Waiting
  <2> QED BY <2>2, <2>3
<1>6. CASE call[c].kind = "open" /\ answer = "ok"
  <2>1. id \in SessionIds \ random /\ random' = random \cup {id}
        BY <1>1, <1>6, RunEffect
  <2>2. session_id[c] = None
        BY <1>6 DEF Waiting
  <2>3. ASSUME NEW d \in Clients, NEW i
        PROVE  Owns(d, i)' => Owns(d, i) \/ (d = c /\ i = id)
    <3>1. CASE d = c
          BY <1>2, <1>3, <3>1 DEF Owns, Granted
    <3>2. CASE d # c
          BY <1>2, <1>3, <3>2 DEF Owns, Granted
    <3> QED BY <3>1, <3>2
  <2>4. \A d \in Clients : ~ Owns(d, id)
        BY <2>1 DEF Owners
  <2>5. Owners'
    <3>1. \A d \in Clients : \A i : Owns(d, i)' => i \in random'
          BY <2>1, <2>3 DEF Owners
    <3>2. ASSUME NEW d \in Clients, NEW e \in Clients, NEW i, Owns(d, i)', Owns(e, i)'
          PROVE  d = e
      <4>1. CASE i = id
            BY <2>3, <2>4, <3>2, <4>1
      <4>2. CASE i # id
            BY <2>3, <3>2, <4>2 DEF Owners
      <4> QED BY <4>1, <4>2
    <3> QED BY <3>1, <3>2 DEF Owners
  <2>6. ASSUME NEW x \in orphans', x.kind = "close"
        PROVE  x.id \in random' /\ \A d \in Clients : ~ Owns(d, x.id)'
    <3>1. x.id \in random /\ \A d \in Clients : ~ Owns(d, x.id)
          BY <1>2, <2>6 DEF Abandoned
    <3>2. x.id # id
          BY <2>1, <3>1
    <3> QED BY <2>1, <2>3, <3>1, <3>2
  <2>7. Abandoned'
        BY <1>2, <2>6 DEF Abandoned
  <2> QED BY <1>4, <1>5, <2>5, <2>7
<1>7. CASE ~ (call[c].kind = "open" /\ answer = "ok")
  <2>1. random' = random
        BY <1>1, <1>7, RunEffect
  <2>2. ASSUME NEW d \in Clients, NEW i PROVE Owns(d, i)' => Owns(d, i)
    <3>1. CASE d = c
          BY <1>2, <1>3, <1>7, <3>1 DEF Owns, Granted
    <3>2. CASE d # c
          BY <1>2, <1>3, <3>2 DEF Owns, Granted
    <3> QED BY <3>1, <3>2
  <2>3. Owners' /\ Abandoned'
        BY <1>2, <2>1, <2>2 DEF Owners, Abandoned
  <2> QED BY <1>4, <1>5, <2>3
<1> QED BY <1>6, <1>7

\* Steps that no client sees: sessions may be drawn, calls under way may go.
LEMMA UnseenSafe ==
    ASSUME SafeClients, UNCHANGED client, orphans' \subseteq orphans,
           random \subseteq random'
    PROVE  SafeClients'
<1> USE DEF SafeClients, client
<1>1. \A d \in Clients : \A i : Owns(d, i)' <=> Owns(d, i)
      BY DEF Owns, Granted
<1>2. Typed' /\ \A d \in Clients : Waiting(d)'
      BY DEF Typed, Waiting
<1>3. Owners'
      BY <1>1 DEF Owners
<1>4. Abandoned'
      BY <1>1 DEF Abandoned
<1> QED BY <1>2, <1>3, <1>4

LEMMA ClientsStep == SafeClients /\ [Next]_vars => SafeClients'
<1> SUFFICES ASSUME SafeClients, [Next]_vars PROVE SafeClients'
    OBVIOUS
<1>1. ASSUME NEW c \in Clients,
             \/ Connect(c) \/ Close(c) \/ Infer(c)
             \/ Handle(c) \/ Receive(c) \/ Timeout(c) \/ Crash(c)
      PROVE  SafeClients'
      BY <1>1, BeginSafe, HandleSafe, ReceiveSafe
<1>2. ASSUME NEW x \in orphans, HandleOrphan(x) PROVE SafeClients'
  <2>1. random \subseteq random' /\ orphans' \subseteq orphans /\ UNCHANGED client
        BY <1>2, RunEffect DEF HandleOrphan
  <2> QED BY <2>1, UnseenSafe
<1>3. ASSUME NEW x \in orphans, LoseOrphan(x) PROVE SafeClients'
  <2>1. random \subseteq random' /\ orphans' \subseteq orphans /\ UNCHANGED client
        BY <1>3 DEF LoseOrphan, store
  <2> QED BY <2>1, UnseenSafe
<1>4. CASE Poll \/ Tick
  <2>1. random' = random /\ orphans' = orphans /\ UNCHANGED client
        BY <1>4, Undrawn DEF Poll, Tick
  <2> QED BY <2>1, UnseenSafe
<1>5. CASE UNCHANGED vars
      BY <1>5, UnseenSafe DEF vars, store
<1> QED BY <1>1, <1>2, <1>3, <1>4, <1>5 DEF Next

LEMMA ClientsStoreStep == SafeClients /\ [Next]_vars => [Store!Next]_(Store!vars)
<1> SUFFICES ASSUME SafeClients, [Next]_vars PROVE Store!Next \/ UNCHANGED Store!vars
    OBVIOUS
<1> DEFINE Goal == Store!Next \/ UNCHANGED Store!vars
<1>1. UNCHANGED store => UNCHANGED Store!vars
      BY DEF store, Store!vars
<1>2. ASSUME NEW c \in Clients, Handle(c) PROVE Goal
  <2>1. call[c].kind \in {"close", "infer"} => call[c].id \in SessionIds
        BY DEF SafeClients, Typed, Waiting
  <2> QED BY <1>2, <2>1, RunIsStoreStep DEF Handle
<1>3. ASSUME NEW x \in orphans, HandleOrphan(x) PROVE Goal
      BY <1>3, RunIsStoreStep DEF HandleOrphan, SafeClients, Abandoned
<1>4. ASSUME NEW c \in Clients,
             Connect(c) \/ Close(c) \/ Infer(c) \/ Receive(c) \/ Timeout(c) \/ Crash(c)
      PROVE  Goal
      BY <1>1, <1>4 DEF Connect, Close, Infer, Receive, Timeout, Crash
<1>5. ASSUME NEW x \in orphans, LoseOrphan(x) PROVE Goal
      BY <1>1, <1>5 DEF LoseOrphan
<1>6. CASE Poll \/ Tick
      BY <1>6 DEF Poll, Tick, Store!Next, Store!Operation
<1>7. CASE UNCHANGED vars
      BY <1>1, <1>7 DEF vars
<1> QED BY <1>2, <1>3, <1>4, <1>5, <1>6, <1>7 DEF Next

\* The table holds one session at most, and those that are live are in it.
LEMMA TableHoldsOne ==
    ASSUME StoreP!SafeStore
    PROVE  /\ \A x, y \in DOMAIN sessions : x = y
           /\ IsFiniteSet(DOMAIN sessions) /\ DOMAIN sessions \subseteq random
<1>1. /\ StoreP!Cardinality(DOMAIN sessions) <= 1 /\ StoreP!IsFiniteSet(DOMAIN sessions)
      /\ DOMAIN sessions \subseteq random
      BY DEF StoreP!SafeStore, StoreP!CapacityRespected, StoreP!TypeOK
<1>2. IsFiniteSet(DOMAIN sessions)
      BY <1>1 DEF StoreP!IsFiniteSet, IsFiniteSet
<1>3. Cardinality(DOMAIN sessions) <= 1
      BY <1>1, CardinalitySame
<1>4. ASSUME NEW x \in DOMAIN sessions, NEW y \in DOMAIN sessions, x # y PROVE FALSE
  <2>1. {x, y} \subseteq DOMAIN sessions
        OBVIOUS
  <2>2. Cardinality({x, y}) <= Cardinality(DOMAIN sessions)
        BY <1>2, <2>1, FS_Subset
  <2>3. IsFiniteSet({x}) /\ Cardinality({x}) = 1
        BY FS_Singleton
  <2>4. Cardinality({x} \cup {y}) = 2
        BY <1>4, <2>3, FS_AddElement
  <2>5. {x} \cup {y} = {x, y}
        OBVIOUS
  <2>6. Cardinality({x, y}) \in Nat /\ Cardinality(DOMAIN sessions) \in Nat
        BY <1>2, <2>1, FS_Subset, FS_CardinalityType
  <2> QED BY <1>3, <2>2, <2>4, <2>5, <2>6
<1> QED BY <1>1, <1>2, <1>4

LEMMA ClientsWithStore ==
    SafeClients /\ StoreP!SafeStore /\ [Next]_vars => StoreP!SafeStore'
<1> SUFFICES ASSUME SafeClients, StoreP!SafeStore, [Next]_vars PROVE StoreP!SafeStore'
    OBVIOUS
<1>1. [StoreP!Next]_(StoreP!vars)
      BY ClientsStoreStep, StoreSame DEF Store!vars, StoreP!vars
<1> QED BY <1>1, StoreP!NextSafe, StoreAssumed

\* The inductive invariant: of clients, calls under way and the store
THEOREM ClientsSafe == Spec => [](SafeClients /\ StoreP!SafeStore)
BY ClientsInit, ClientsStep, ClientsWithStore, PTL DEF Spec

\* What the variables of the clients, the calls and the store hold
THEOREM ClientsTyping == Spec => []TypeOK
<1>1. SafeClients /\ StoreP!SafeStore => TypeOK
      BY StoreSame DEF SafeClients, Typed, TypeOK, StoreP!SafeStore
<1> QED BY <1>1, ClientsSafe, PTL

\* The store the clients use over the network behaves as the store alone does.
THEOREM ClientsContainStore == Spec => Store!Spec
<1>1. Init => Store!Init
      BY DEF Init
<1> QED BY <1>1, ClientsSafe, ClientsStoreStep, PTL DEF Spec, Store!Spec

\* Whatever calls were lost on the way, one client at most holds a live session, and no
\* two were given the same one.
THEOREM ClientsOneConnected == Spec => []OneClientConnected
<1>1. SafeClients /\ StoreP!SafeStore => OneClientConnected
  <2> SUFFICES ASSUME SafeClients, StoreP!SafeStore, NEW c \in Clients, NEW d \in Clients,
                      session_id[c] \in Live, session_id[d] \in Live \cup {session_id[c]}
               PROVE  c = d
      BY DEF OneClientConnected
  <2>1. \A x, y \in DOMAIN sessions : x = y
        BY TableHoldsOne
  <2>2. Live \subseteq DOMAIN sessions /\ DOMAIN sessions \subseteq SessionIds
        BY DEF Live, Store!Live, StoreP!SafeStore, StoreP!TypeOK
  <2>3. session_id[c] = session_id[d] /\ session_id[c] # None
        BY <2>1, <2>2, ClientAssumption
  <2> QED BY <2>3 DEF SafeClients, Owners, Owns
<1> QED BY <1>1, ClientsSafe, PTL

\* close() forgets its session before a late CloseSession can hit it: no client holds
\* the id such a call names.
THEOREM ClientsLateCloseHarmless == Spec => []LateCloseHarmless
<1>1. SafeClients /\ StoreP!SafeStore => LateCloseHarmless
  <2> SUFFICES ASSUME SafeClients, StoreP!SafeStore, NEW x \in orphans, x.kind = "close",
                      NEW c \in Clients, session_id[c] = x.id
               PROVE  FALSE
      BY DEF LateCloseHarmless
  <2>1. x.id \in SessionIds /\ ~ Owns(c, x.id)
        BY DEF SafeClients, Abandoned
  <2> QED BY <2>1, ClientAssumption DEF Owns
<1> QED BY <1>1, ClientsSafe, PTL

-------------------------------------------------------------------------------
\* Sessions that are leaked

\* A client has the id of a session, or will, or a call that names it is under way.
Named(id) == \/ \E c \in Clients : session_id[c] = id \/ call[c].id = id
             \/ \E x \in orphans : x.id = id

\* A session whose id nobody has any more - the answer to its OpenSession was lost, its
\* client died, its close never arrived - is out of everybody's reach for good: no call
\* keeps it alive, and every tick brings its end nearer.  What LeakReclaimed adds is that
\* time goes on.
ForgottenOnlyAges ==
    [][\A id \in random :
         ~ Named(id) =>
            /\ ~ Named(id)'
            /\ id \in Live /\ id \in Live' =>
                  sessions'[id].idle = sessions[id].idle + (IF Tick THEN 1 ELSE 0)]_vars

LEMMA NamesStay ==
    ASSUME SafeClients, [Next]_vars, NEW id \in random, id # None, ~ Named(id)
    PROVE  ~ Named(id)'
<1> USE DEF SafeClients, Typed
<1>1. ASSUME NEW c \in Clients, NEW doing, NEW kind, Send(c, doing, kind, None)
      PROVE  \A d \in Clients : call'[d].id # id
      BY <1>1, CallIs DEF Send, Named
<1>2. ASSUME NEW c \in Clients, Done(c)
      PROVE  \A d \in Clients : call'[d].id # id
      BY <1>2, CallIs DEF Done, NoCall, Named
<1>3. ASSUME NEW c \in Clients, Connect(c) \/ Close(c) \/ Infer(c) PROVE ~ Named(id)'
  <2>1. session_id' = session_id /\ orphans' = orphans
        BY <1>3 DEF Connect, Close, Infer
  <2>2. ASSUME NEW doing, NEW kind, Send(c, doing, kind, session_id[c])
        PROVE  \A d \in Clients : call'[d].id # id
        BY <2>2, CallIs DEF Send, Named
  <2>3. \A d \in Clients : call'[d].id # id
        BY <1>1, <1>3, <2>2 DEF Connect, Close, Infer
  <2> QED BY <2>1, <2>3 DEF Named
<1>4. ASSUME NEW c \in Clients, Handle(c) PROVE ~ Named(id)'
  <2>1. PICK answer \in Answers, i \in SessionIds \cup {None} :
           /\ Run(call[c], answer, i)
           /\ call' = [call EXCEPT ![c] = [Answered(@, answer) EXCEPT !.id = i]]
        BY <1>4 DEF Handle
  <2>2. i # id
        BY <2>1, RunEffect DEF Named
  <2>3. call'[c].id = i /\ \A d \in Clients \ {c} : call'[d] = call[d]
        BY <2>1 DEF Answered
  <2> QED BY <1>4, <2>2, <2>3 DEF Handle, Named
<1>5. ASSUME NEW c \in Clients, Receive(c) \/ Timeout(c) \/ Crash(c) PROVE ~ Named(id)'
  <2>1. \A d \in Clients : call'[d].id # id
        BY <1>1, <1>2, <1>5 DEF Receive, Timeout, Crash, AfterClose
  <2>2. \A d \in Clients : session_id'[d] # id
        BY <1>5 DEF Receive, Timeout, Crash, AfterClose, Named
  <2>3. \A x \in orphans' : x.id # id
        BY <1>5 DEF Receive, Timeout, Crash, Abandon, Named
  <2> QED BY <2>1, <2>2, <2>3 DEF Named
<1>6. ASSUME NEW x \in orphans, HandleOrphan(x) \/ LoseOrphan(x) PROVE ~ Named(id)'
      BY <1>6 DEF HandleOrphan, LoseOrphan, client, Named
<1>7. CASE Poll \/ Tick \/ UNCHANGED vars
      BY <1>7 DEF Poll, Tick, vars, client, Named
<1> QED BY <1>3, <1>4, <1>5, <1>6, <1>7 DEF Next

\* A call that does not name a session leaves its idle time alone.
LEMMA RunUntouching ==
    ASSUME NEW x, NEW answer, NEW i, Run(x, answer, i), NEW id, x.id # id,
           x.kind \in {"close", "infer"} => x.id \in SessionIds
    PROVE  StoreP!Untouching(id)
<1>1. CASE Store!Open(i, "yolov5")
  <2>1. i \in SessionIds /\ "yolov5" \in {"yolov5"}
        BY <1>1 DEF Store!Open
  <2> QED BY <1>1, <2>1, StoreSame DEF StoreP!Untouching
<1>2. CASE x.kind = "close" /\ i = x.id /\ (Store!Close(i) \/ Store!CloseRefused(i))
  <2>1. i \in SessionIds
        BY <1>2
  <2>2. CASE Store!Close(i)
        BY <2>1, <2>2, StoreSame DEF StoreP!Untouching
  <2>3. CASE Store!CloseRefused(i)
        BY <2>3 DEF StoreP!Untouching, StoreP!vars, Store!CloseRefused, Store!vars
  <2> QED BY <1>2, <2>2, <2>3
<1>3. CASE x.kind = "infer" /\ i = x.id /\ Store!Validate(i, "yolov5")
  <2>1. i \in SessionIds \ {id} /\ "yolov5" \in {"yolov5"}
        BY <1>3
  <2> QED BY <1>3, <2>1, StoreSame DEF StoreP!Untouching
<1>4. CASE Store!OpenRefused \/ Store!ValidateRefused(i) \/ \E n \in 0 .. 1 : Store!Count(n)
      BY <1>4, StoreSame DEF StoreP!Untouching, Store!OpenRefused, Store!ValidateRefused, Store!Count
<1> QED BY <1>1, <1>2, <1>3, <1>4 DEF Run

\* A leaked session is kept alive by nothing but its remaining time.
THEOREM ClientsForgottenOnlyAge == Spec => ForgottenOnlyAges
<1> DEFINE Aged(id) == sessions'[id].idle = sessions[id].idle + (IF Tick THEN 1 ELSE 0)
<1>1. SafeClients /\ StoreP!SafeStore /\ StoreP!SafeStore' /\ [Next]_vars =>
        [\A id \in random :
           ~ Named(id) =>
              /\ ~ Named(id)'
              /\ id \in Live /\ id \in Live' =>
                    sessions'[id].idle = sessions[id].idle + (IF Tick THEN 1 ELSE 0)]_vars
  <2> SUFFICES ASSUME SafeClients, StoreP!SafeStore, StoreP!SafeStore', [Next]_vars,
                      ~ UNCHANGED vars, NEW id \in random, ~ Named(id)
               PROVE  ~ Named(id)' /\ (id \in Live /\ id \in Live' => Aged(id))
      OBVIOUS
  <2>1. id # None
        BY ClientAssumption DEF StoreP!SafeStore, StoreP!TypeOK
  <2>2. ~ Named(id)'
        BY <2>1, NamesStay
  <2>3. ASSUME id \in Live, id \in Live' PROVE Aged(id)
    <3>1. /\ id \in StoreP!Live /\ id \in StoreP!Live'
          /\ sessions[id].idle \in Nat
      <4>1. id \in StoreP!Live /\ id \in StoreP!Live'
            BY <2>3 DEF Live, Store!Live, StoreP!Live, Store!Expired, StoreP!Expired
      <4>2. sessions[id] \in StoreP!Entry
            BY <4>1 DEF StoreP!Live, StoreP!SafeStore, StoreP!TypeOK
      <4> QED BY <4>1, <4>2 DEF StoreP!Entry
    <3>2. CASE Tick
      <4>1. sessions'[id].idle = sessions[id].idle + 1
            BY <3>1, <3>2, StoreSame, StoreP!TickLive, StoreAssumed DEF Tick
      <4> QED BY <3>2, <4>1
    <3>3. CASE ~ Tick
      <4>1. StoreP!Untouching(id)
        <5>1. ASSUME NEW c \in Clients, Handle(c) PROVE StoreP!Untouching(id)
          <6>1. /\ call[c].id # id
                /\ call[c].kind \in {"close", "infer"} => call[c].id \in SessionIds
                BY DEF Named, SafeClients, Typed, Waiting
          <6> QED BY <5>1, <6>1, RunUntouching DEF Handle
        <5>2. ASSUME NEW x \in orphans, HandleOrphan(x) PROVE StoreP!Untouching(id)
          <6>1. x.id # id /\ (x.kind \in {"close", "infer"} => x.id \in SessionIds)
                BY DEF Named, SafeClients, Abandoned
          <6> QED BY <5>2, <6>1, RunUntouching DEF HandleOrphan
        <5>3. UNCHANGED store => StoreP!Untouching(id)
              BY DEF StoreP!Untouching, StoreP!vars, store
        <5>4. ASSUME NEW c \in Clients,
                     Connect(c) \/ Close(c) \/ Infer(c) \/ Receive(c) \/ Timeout(c) \/ Crash(c)
              PROVE  UNCHANGED store
              BY <5>4 DEF Connect, Close, Infer, Receive, Timeout, Crash
        <5>5. ASSUME NEW x \in orphans, LoseOrphan(x) PROVE UNCHANGED store
              BY <5>5 DEF LoseOrphan
        <5>6. CASE Poll
              BY <5>6, StoreSame DEF Poll, Store!Count, StoreP!Untouching
        <5> QED BY <3>3, <5>1, <5>2, <5>3, <5>4, <5>5, <5>6 DEF Next
      <4>2. sessions'[id] = sessions[id]
            BY <3>1, <4>1, StoreP!IdleUntouched, StoreAssumed
      <4> QED BY <3>1, <3>3, <4>2
    <3> QED BY <3>2, <3>3
  <2> QED BY <2>2, <2>3
<1> QED BY <1>1, ClientsSafe, PTL DEF Spec, ForgottenOnlyAges

-------------------------------------------------------------------------------
\* What the store promises, it promises clients behind the network

LEMMA LeaseSame ==
    /\ StoreP!Lease!Init => Store!Lease!Init
    /\ [StoreP!Lease!Next]_(StoreP!Lease!lease_vars) => [Store!Lease!Next]_(Store!Lease!lease_vars)
<1>1. Store!Live = StoreP!Live /\ Store!TimeoutTicks = StoreP!TimeoutTicks
      BY StoreSame DEF Store!TimeoutTicks, StoreP!TimeoutTicks
<1>2. Store!Live' = StoreP!Live'
      BY DEF Store!Live, StoreP!Live, Store!Expired, StoreP!Expired
<1>3. StoreP!Lease!Init => Store!Lease!Init
      BY <1>1 DEF StoreP!Lease!Init, Store!Lease!Init
<1>4. Store!Lease!Held = StoreP!Lease!Held
      BY <1>1 DEF StoreP!Lease!Held, Store!Lease!Held
<1>5. ASSUME NEW s
      PROVE  /\ StoreP!Lease!Grant(s) => Store!Lease!Grant(s)
             /\ StoreP!Lease!Renew(s) => Store!Lease!Renew(s)
             /\ StoreP!Lease!Release(s) => Store!Lease!Release(s)
  <2>1. StoreP!Lease!Cardinality(StoreP!Lease!Held) = Store!Lease!Cardinality(Store!Lease!Held)
        BY <1>4 DEF StoreP!Lease!Cardinality, Store!Lease!Cardinality
  <2> QED BY <1>1, <1>2, <1>4, <2>1
          DEF StoreP!Lease!Grant, Store!Lease!Grant, StoreP!Lease!Renew, Store!Lease!Renew,
              StoreP!Lease!Release, Store!Lease!Release
<1>6. StoreP!Lease!Elapse => Store!Lease!Elapse
      BY <1>1, <1>2, <1>4 DEF StoreP!Lease!Elapse, Store!Lease!Elapse
<1>7. UNCHANGED StoreP!Lease!lease_vars => UNCHANGED Store!Lease!lease_vars
      BY <1>1, <1>2 DEF StoreP!Lease!lease_vars, Store!Lease!lease_vars
<1> QED BY <1>3, <1>5, <1>6, <1>7 DEF StoreP!Lease!Next, Store!Lease!Next

\* Calls that are lost, late, given up or sent by a client that has died since disturb
\* the lease service no more than any others.
THEOREM ClientsImplementLease == Spec => Store!ImplementsLease
<1>1. StoreP!Spec => StoreP!ImplementsLease
      BY StoreP!StoreImplementsLease, StoreAssumed
<1>2. StoreP!ImplementsLease => Store!ImplementsLease
      BY LeaseSame, PTL DEF Store!ImplementsLease, StoreP!ImplementsLease,
                            Store!Lease!Spec, StoreP!Lease!Spec
<1>3. [Store!Next]_(Store!vars) => [StoreP!Next]_(StoreP!vars)
      BY StoreSame DEF Store!vars, StoreP!vars
<1>4. Store!Spec => StoreP!Spec
      BY <1>3, StoreSame, PTL DEF Store!Spec, StoreP!Spec
<1> QED BY <1>1, <1>2, <1>4, ClientsContainStore, PTL
===============================================================================
