------------------------------ MODULE RknnClient ------------------------------
(***************************************************************************)
(* client/rknn_client.py: several RknnClient processes, each doing one     *)
(* operation at a time, connected to the session store by a network that   *)
(* loses, delays and never duplicates calls (gRPC retries nothing here).   *)
(*                                                                         *)
(* A call runs on the server at most once, perhaps after its client has    *)
(* given up on it: then it is an orphan and its answer goes nowhere.       *)
(* Of the server only the store is modelled: what its handlers do beyond   *)
(* it is in GrpcServer.                                                    *)
(***************************************************************************)
EXTENDS Integers, FiniteSets

CONSTANTS Clients,        \* RknnClient objects, one thread each
          SessionIds,     \* ids the store may draw
          IdleTimeout,    \* in seconds
          TicksPerSecond, \* resolution of the clock
          MaxOrphans,     \* bound on the calls abandoned and still under way
          None

ASSUME ClientAssumption == /\ None \notin SessionIds
                           /\ MaxOrphans \in Nat
                           /\ {IdleTimeout, TicksPerSecond} \subseteq Nat \ {0}

VARIABLES sessions, random, \* the session store of the server
          session_id,       \* self.session_id, None when ""; channel and stub go with it
          at,               \* what each client is doing
          call,             \* the RPC it is waiting for
          orphans           \* calls their clients have given up, still under way

Store == INSTANCE SessionStore WITH MaxSessions <- 1, Models <- {"yolov5"}

store == <<sessions, random>>
client == <<session_id, at, call>>
vars == <<store, client, orphans>>

\* connect() is close(), Health and OpenSession; close() may also be called alone.
Doing == {"idle", "closing", "reconnecting", "health", "opening", "inferring"}

Kinds == {"close", "health", "open", "infer"}

\* A call: what it asks, about which session, and what the server answered.
Call(kind, id) == [kind |-> kind, id |-> id, answer |-> "pending"]

NoCall == Call("none", None)

Answered(x, answer) == [x EXCEPT !.answer = answer]

Live == Store!Live

-------------------------------------------------------------------------------

Init == /\ Store!Init
        /\ session_id = [c \in Clients |-> None]
        /\ at = [c \in Clients |-> "idle"]
        /\ call = [c \in Clients |-> NoCall]
        /\ orphans = {}

Send(c, doing, kind, id) == /\ at' = [at EXCEPT ![c] = doing]
                            /\ call' = [call EXCEPT ![c] = Call(kind, id)]

Done(c) == /\ at' = [at EXCEPT ![c] = "idle"]
           /\ call' = [call EXCEPT ![c] = NoCall]

\* connect() calls close() first, which sends nothing when not connected.
Connect(c) ==
    /\ at[c] = "idle"
    /\ IF session_id[c] # None THEN Send(c, "reconnecting", "close", session_id[c])
                               ELSE Send(c, "health", "health", None)
    /\ UNCHANGED <<store, session_id, orphans>>

\* close()
Close(c) ==
    /\ at[c] = "idle"
    /\ session_id[c] # None
    /\ Send(c, "closing", "close", session_id[c])
    /\ UNCHANGED <<store, session_id, orphans>>

\* infer(), infer_bytes(): refused locally when not connected
Infer(c) ==
    /\ at[c] = "idle"
    /\ session_id[c] # None
    /\ Send(c, "inferring", "infer", session_id[c])
    /\ UNCHANGED <<store, session_id, orphans>>

-------------------------------------------------------------------------------

\* What the server does with a call of this kind, and answers
Run(x, answer, id) ==
    \/ x.kind = "open" /\ answer = "ok" /\ Store!Open(id, "yolov5")
    \/ x.kind = "open" /\ answer = "RESOURCE_EXHAUSTED" /\ id = None /\ Store!OpenRefused
    \/ x.kind = "close" /\ answer = "ok" /\ id = x.id /\ Store!Close(id)
    \/ x.kind = "close" /\ answer = "not closed" /\ id = x.id /\ Store!CloseRefused(id)
    \/ x.kind = "infer" /\ answer = "ok" /\ id = x.id /\ Store!Validate(id, "yolov5")
    \/ x.kind = "infer" /\ answer = "NOT_FOUND" /\ id = x.id /\ Store!ValidateRefused(id)
    \/ x.kind = "health" /\ answer = "ok" /\ id = None /\ \E n \in 0 .. 1 : Store!Count(n)

Answers == {"ok", "not closed", "NOT_FOUND", "RESOURCE_EXHAUSTED"}

\* The server handles the call a client is waiting for.
Handle(c) ==
    /\ call[c].answer = "pending"
    /\ \E answer \in Answers, id \in SessionIds \cup {None} :
          /\ Run(call[c], answer, id)
          /\ call' = [call EXCEPT ![c] = [Answered(@, answer) EXCEPT !.id = id]]
    /\ UNCHANGED <<session_id, at, orphans>>

\* The server handles a call its client no longer waits for.
HandleOrphan(x) ==
    /\ x \in orphans
    /\ \E answer \in Answers, id \in SessionIds \cup {None} : Run(x, answer, id)
    /\ orphans' = orphans \ {x}
    /\ UNCHANGED client

\* It never gets there.
LoseOrphan(x) ==
    /\ x \in orphans
    /\ orphans' = orphans \ {x}
    /\ UNCHANGED <<store, client>>

\* Discovery probes and monitoring clients poll the store; time passes.
Poll == (\E n \in 0 .. 1 : Store!Count(n)) /\ UNCHANGED <<client, orphans>>

Tick == Store!Tick /\ UNCHANGED <<client, orphans>>

-------------------------------------------------------------------------------

\* Mutated: a close() that fails keeps the session.
AfterCloseKeeping(c) ==
    /\ session_id' = [session_id EXCEPT ![c] =
                          IF call[c].answer = "pending" THEN @ ELSE None]
    /\ \/ at[c] = "closing" /\ Done(c)
       \/ at[c] = "reconnecting" /\ Send(c, "health", "health", None)

\* close() swallows the RpcError and forgets the session either way; connect()
\* goes on to open a new one, unless its endpoint has no port.
AfterClose(c) ==
    /\ session_id' = [session_id EXCEPT ![c] = None]
    /\ \/ at[c] \in {"closing", "reconnecting"} /\ Done(c)
       \/ at[c] = "reconnecting" /\ Send(c, "health", "health", None)

\* The answer arrives.
Receive(c) ==
    /\ at[c] # "idle"
    /\ call[c].answer # "pending"
    /\ \/ at[c] \in {"closing", "reconnecting"} /\ AfterClose(c)
       \/ /\ at[c] = "health"
          /\ Send(c, "opening", "open", None)
          /\ UNCHANGED session_id
       \/ /\ at[c] = "opening"
          /\ Done(c)
          /\ session_id' = [session_id EXCEPT ![c] =
                               IF call[c].answer = "ok" THEN call[c].id ELSE None]
       \/ at[c] = "inferring" /\ Done(c) /\ UNCHANGED session_id
    /\ UNCHANGED <<store, orphans>>

\* A call abandoned before the server handled it may yet be handled.
Abandon(c) ==
    orphans' = IF call[c].answer = "pending" THEN orphans \cup {call[c]} ELSE orphans

\* Deadline or lost connection: connect() raises, without a session to its name
\* even when the server opened one; infer() raises and keeps the session.
Timeout(c) ==
    /\ at[c] # "idle"
    /\ Cardinality(orphans) < MaxOrphans
    /\ Abandon(c)
    /\ \/ at[c] \in {"closing", "reconnecting"} /\ AfterClose(c)
       \/ at[c] \in {"health", "opening", "inferring"} /\ Done(c) /\ UNCHANGED session_id
    /\ UNCHANGED store

\* The client process dies and is started again.
Crash(c) ==
    /\ at[c] # "idle" \/ session_id[c] # None
    /\ Cardinality(orphans) < MaxOrphans
    /\ session_id' = [session_id EXCEPT ![c] = None]
    /\ IF at[c] = "idle" THEN UNCHANGED orphans ELSE Abandon(c)
    /\ Done(c)
    /\ UNCHANGED store

-------------------------------------------------------------------------------

Next == \/ \E c \in Clients : \/ Connect(c) \/ Close(c) \/ Infer(c)
                              \/ Handle(c) \/ Receive(c) \/ Timeout(c) \/ Crash(c)
        \/ \E x \in orphans : HandleOrphan(x) \/ LoseOrphan(x)
        \/ Poll
        \/ Tick

Spec == Init /\ [][Next]_vars

\* Calls end, by an answer or by their deadline, and time passes.
FairSpec == /\ Spec
            /\ \A c \in Clients : WF_vars(Receive(c) \/ Timeout(c))
            /\ WF_vars(\E x \in orphans : HandleOrphan(x) \/ LoseOrphan(x))
            /\ WF_vars(Tick)

-------------------------------------------------------------------------------

TypeOK == /\ Store!TypeOK
          /\ session_id \in [Clients -> SessionIds \cup {None}]
          /\ at \in [Clients -> Doing]
          /\ call \in [Clients -> [kind : Kinds \cup {"none"}, id : SessionIds \cup {None},
                                   answer : Answers \cup {"pending"}]]

\* The sessions somebody knows of: held by a client or in an answer to it
Known == {session_id[c] : c \in Clients} \cup {call[c].id : c \in Clients}

\* Of all clients at most one holds a session that is live on the server, and
\* no two were ever given the same one, whatever calls were lost on the way.
OneClientConnected ==
    \A c, d \in Clients :
        session_id[c] \in Live /\ session_id[d] \in Live \cup {session_id[c]} => c = d

\* A CloseSession that arrives late, its client long gone on, ends nobody's
\* session: no client still holds the id it names.
LateCloseHarmless ==
    \A x \in orphans : x.kind = "close" => \A c \in Clients : session_id[c] # x.id

\* A session opened for a client that never learned of it, or died with it, or
\* could not close it, does not block the accelerator for ever.
LeakReclaimed ==
    \A id \in SessionIds : (id \in Live /\ id \notin Known) ~> (id \notin Live)
===============================================================================
