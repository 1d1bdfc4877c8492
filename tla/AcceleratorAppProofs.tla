------------------------- MODULE AcceleratorAppProofs -------------------------
(***************************************************************************)
(* Proofs about AcceleratorApp and the SharedClient in it, for any number  *)
(* of threads and connections: the types, that the three fields of the     *)
(* client belong together unless a connect or close overlapped another,    *)
(* and that only such an overlap makes the program trip over itself.       *)
(***************************************************************************)
EXTENDS AcceleratorApp, TLAPS

\* What the fields and the threads hold are connections that were really made.
Typed == /\ TypeOK
         /\ {channel, stub, session_id} \subseteq made \cup {None}
         /\ \A t \in Threads : mine[t] \in made \cup {None}

\* t is at a statement of connect or close ...
Midway(t) == stage[t] \in Closing \cup Connecting

\* ... or at one that uses what they have left.
Reading(t) == stage[t] \in {"test connected", "read session", "call"}

\* Which operations get to which statements
Staged(t) ==
    /\ stage[t] \in Connecting => operation[t] = "connect"
    /\ stage[t] \in Closing => operation[t] \in Changers
    /\ Reading(t) => operation[t] \in Operations \ (Changers \cup {"scan"})
    /\ stage[t] = "scan" => operation[t] = "scan"

AllStaged == \A t \in Threads : Staged(t)

\* What the one thread in connect or close finds in the fields at each statement
Found(t) ==
    /\ stage[t] \in {"test session", "read stub", "call close"} => Whole
    /\ stage[t] \in {"read stub", "call close"} => stub # None
    /\ stage[t] = "call close" => mine[t] = stub
    /\ stage[t] \in {"test channel", "close channel"} =>
          channel = stub /\ stub = session_id /\ (channel # None => channel \in open)
    /\ stage[t] = "close channel" => channel # None
    /\ stage[t] \in {"test channel", "close channel", "drop channel", "drop stub",
                     "drop session", "dial"} => made \subseteq asked
    /\ stage[t] \in {"drop stub", "drop session", "dial"} => channel = None
    /\ stage[t] \in {"drop session", "dial"} => stub = None
    /\ stage[t] = "dial" => session_id = None
    /\ stage[t] \in {"set channel", "set stub", "set session"} =>
          mine[t] \in open /\ made \subseteq asked \cup {mine[t]}
    /\ stage[t] \in {"set stub", "set session"} => channel = mine[t]
    /\ stage[t] = "set session" => stub = mine[t]

\* Of connect and close one runs at a time.
OneMidway == \A t, u \in Threads : Midway(t) /\ Midway(u) => t = u

AllFound == \A t \in Threads : Midway(t) => Found(t)

WholeBetween == (\A t \in Threads : ~ Midway(t)) => Whole

\* A reader that nobody has disturbed runs alone, and has seen a connection.
Undisturbed ==
    \A t \in Threads : Reading(t) /\ t \notin disturbed =>
        /\ \A u \in Threads : ~ Midway(u)
        /\ stage[t] # "test connected" => stub # None

\* As long as no connect or close has overlapped another:
Orderly == OneMidway /\ AllFound /\ WholeBetween /\ Undisturbed

\* The inductive invariant
SafeClient == /\ Typed
              /\ AllStaged
              /\ InternalErrorOnlyByOverlap
              /\ ~ overlapped => Orderly

-------------------------------------------------------------------------------

\* The statements of connect and close are where Changing threads are.
LEMMA MidwayIsChanging ==
    ASSUME TypeOK, AllStaged, NEW t \in Threads
    PROVE  /\ Changing(t) <=> Midway(t)
           /\ Active(t) <=> Midway(t) \/ Reading(t) \/ stage[t] = "scan"
<1>1. stage[t] \in Stages /\ Staged(t)
      BY DEF TypeOK, AllStaged
<1>2. Active(t) <=> Midway(t) \/ Reading(t) \/ stage[t] = "scan"
      BY <1>1 DEF Stages, Active, Midway, Reading, Closing, Connecting
<1>3. Changing(t) <=> Midway(t)
      BY <1>1, <1>2 DEF Staged, Changing, Midway, Reading, Changers, Closing, Connecting, Operations
<1> QED BY <1>2, <1>3

\* Found speaks of the fields, the connections and the thread itself.
LEMMA FoundKept ==
    ASSUME NEW t, Found(t), stage'[t] = stage[t], mine'[t] = mine[t],
           UNCHANGED <<channel, stub, session_id, made, open, asked>>
    PROVE  Found(t)'
<1>1. Whole' <=> Whole
      BY DEF Whole
<1> DEFINE s == stage[t]
           m == mine[t]
<1>2. stage'[t] = s /\ mine'[t] = m
      OBVIOUS
<1> HIDE DEF s, m
<1> QED BY <1>1, <1>2 DEF Found, s, m

LEMMA InitSafe == Init => SafeClient
<1> SUFFICES ASSUME Init PROVE SafeClient
    OBVIOUS
<1>1. Typed
      BY DEF Init, Typed, TypeOK, Stages, Results
<1>2. \A t \in Threads : ~ Midway(t) /\ ~ Reading(t) /\ stage[t] = "free"
      BY DEF Init, Midway, Reading, Closing, Connecting
<1>3. Whole
      BY DEF Init, Whole
<1>4. Orderly
      BY <1>2, <1>3 DEF Orderly, OneMidway, AllFound, WholeBetween, Undisturbed
<1>5. AllStaged
      BY <1>2 DEF AllStaged, Staged, Midway
<1>6. InternalErrorOnlyByOverlap
      BY DEF Init, InternalErrorOnlyByOverlap
<1> QED BY <1>1, <1>4, <1>5, <1>6 DEF SafeClient

-------------------------------------------------------------------------------
\* A thread calls a method, or is done with its result.

LEMMA BeginSafe ==
    ASSUME SafeClient, NEW t \in Threads, NEW o \in Operations, Begin(t, o)
    PROVE  SafeClient'
<1> DEFINE others == {u \in Threads \ {t} : Active(u)}
           changers == {u \in others : Changing(u)}
           start == CASE o \in Changers -> "test session"
                      [] o = "scan" -> "scan"
                      [] OTHER -> "test connected"
<1>1. /\ ~ Active(t)
      /\ operation' = [operation EXCEPT ![t] = o]
      /\ stage' = [stage EXCEPT ![t] = start]
      /\ result' = [result EXCEPT ![t] = "none"]
      /\ mine' = [mine EXCEPT ![t] = None]
      /\ disturbed' = (disturbed \ {t}) \cup (IF o \in Changers THEN others ELSE {})
                                       \cup (IF changers = {} THEN {} ELSE {t})
      /\ overlapped' = (overlapped \/ (o \in Changers /\ changers # {}))
      /\ UNCHANGED <<fields, connections>>
      BY DEF Begin
<1>2. /\ start \in {"test session", "scan", "test connected"}
      /\ start = "test session" <=> o \in Changers
      /\ start = "scan" <=> o = "scan"
      BY DEF Operations, Changers
<1> HIDE DEF start
<1> USE DEF SafeClient
<1>3. Typed'
      BY <1>1, <1>2 DEF Typed, TypeOK, Stages, Closing, Results, fields, connections
<1>4. AllStaged'
  <2> SUFFICES ASSUME NEW u \in Threads PROVE Staged(u)'
      BY DEF AllStaged
  <2>1. CASE u = t
        BY <2>1, <1>1, <1>2 DEF Typed, TypeOK, Staged, Reading, Closing, Connecting, Changers, Operations
  <2>2. CASE u # t
        BY <2>2, <1>1 DEF Typed, TypeOK, AllStaged, Staged, Reading
  <2> QED BY <2>1, <2>2
<1>5. InternalErrorOnlyByOverlap'
  <2> SUFFICES ASSUME NEW u \in Threads, result'[u] = "exception", operation'[u] # "scan"
               PROVE  overlapped' \/ u \in disturbed'
      BY DEF InternalErrorOnlyByOverlap
  <2>1. u # t
        BY <1>1 DEF Typed, TypeOK
  <2>2. result[u] = "exception" /\ operation[u] # "scan"
        BY <1>1, <2>1 DEF Typed, TypeOK
  <2> QED BY <1>1, <2>1, <2>2 DEF InternalErrorOnlyByOverlap
<1>6. ASSUME ~ overlapped' PROVE Orderly'
  <2>1. ~ overlapped /\ Orderly /\ (o \in Changers => changers = {})
        BY <1>1, <1>6
  <2>2. \A u \in Threads : /\ Changing(u) <=> Midway(u)
                           /\ Active(u) <=> Midway(u) \/ Reading(u) \/ stage[u] = "scan"
        BY MidwayIsChanging DEF Typed
  <2>3. changers = {u \in Threads : Midway(u)}
        BY <1>1, <2>2
  <2>4. \A u \in Threads : u # t => stage'[u] = stage[u] /\ mine'[u] = mine[u]
        BY <1>1 DEF Typed, TypeOK
  <2>5. stage'[t] = start
        BY <1>1 DEF Typed, TypeOK
  <2>6. /\ Midway(t)' <=> o \in Changers
        /\ Reading(t)' => start = "test connected"
        BY <1>2, <2>5 DEF Midway, Reading, Closing, Connecting
  <2>7. \A u \in Threads : u # t => (Midway(u)' <=> Midway(u)) /\ (Reading(u)' <=> Reading(u))
        BY <2>4 DEF Midway, Reading
  <2>8. ~ Midway(t) /\ ~ Reading(t)
        BY <1>1, <2>2
  <2>9. Whole' <=> Whole
        BY <1>1 DEF Whole, fields, connections
  <2>10. OneMidway'
        BY <2>1, <2>3, <2>6, <2>7 DEF Orderly, OneMidway
  <2>11. AllFound'
    <3> SUFFICES ASSUME NEW u \in Threads, Midway(u)' PROVE Found(u)'
        BY DEF AllFound
    <3>1. CASE u = t
      <4>1. Whole'
            BY <3>1, <2>1, <2>3, <2>6, <2>9 DEF Orderly, WholeBetween
      <4>2. stage'[u] = "test session"
            BY <3>1, <2>5, <2>6, <1>2
      <4> QED BY <4>1, <4>2 DEF Found
    <3>2. CASE u # t
      <4>1. Found(u) /\ stage'[u] = stage[u] /\ mine'[u] = mine[u]
            BY <3>2, <2>1, <2>4, <2>7 DEF Orderly, AllFound
      <4>2. UNCHANGED <<channel, stub, session_id, made, open, asked>>
            BY <1>1 DEF fields, connections
      <4> QED BY <4>1, <4>2, <2>9, FoundKept
    <3> QED BY <3>1, <3>2
  <2>12. WholeBetween'
    <3> SUFFICES ASSUME \A u \in Threads : ~ Midway(u)' PROVE Whole
        BY <2>9 DEF WholeBetween
    <3> QED BY <2>1, <2>7, <2>8 DEF Orderly, WholeBetween
  <2>13. Undisturbed'
    <3> SUFFICES ASSUME NEW u \in Threads, Reading(u)', u \notin disturbed'
                 PROVE  /\ \A w \in Threads : ~ Midway(w)'
                        /\ stage'[u] # "test connected" => stub' # None
        BY DEF Undisturbed
    <3>1. CASE u = t
      <4>1. changers = {}
            BY <3>1, <1>1
      <4>2. o \notin Changers
            BY <3>1, <2>5, <2>6, <1>2
      <4> QED BY <3>1, <4>1, <4>2, <2>3, <2>5, <2>6, <2>7
    <3>2. CASE u # t
      <4>1. Reading(u) /\ u \in others
            BY <3>2, <2>2, <2>7
      <4>2. o \notin Changers /\ u \notin disturbed
            BY <3>2, <4>1, <1>1
      <4>3. /\ \A w \in Threads : ~ Midway(w)
            /\ stage[u] # "test connected" => stub # None
            BY <4>1, <4>2, <2>1 DEF Orderly, Undisturbed
      <4> QED BY <3>2, <4>2, <4>3, <2>4, <2>6, <2>7, <1>1 DEF fields
    <3> QED BY <3>1, <3>2
  <2> QED BY <2>10, <2>11, <2>12, <2>13 DEF Orderly
<1> QED BY <1>3, <1>4, <1>5, <1>6

\* A thread with nothing under way is made free again, or all are: the end of an
\* operation and the end of the process alike.
LEMMA FreedSafe ==
    ASSUME SafeClient, NEW freed \in SUBSET Threads,
           overlapped \/ \A t \in freed : ~ Midway(t),
           stage' = [t \in Threads |-> IF t \in freed THEN "free" ELSE stage[t]],
           operation' = [t \in Threads |-> IF t \in freed THEN "none" ELSE operation[t]],
           mine' = [t \in Threads |-> IF t \in freed THEN None ELSE mine[t]],
           result' = [t \in Threads |-> IF t \in freed THEN "none" ELSE result[t]],
           disturbed' = disturbed \ freed,
           UNCHANGED <<fields, connections, overlapped>>
    PROVE  SafeClient'
<1> USE DEF SafeClient, fields, connections
<1>1. \A t \in Threads : IF t \in freed THEN stage'[t] = "free" /\ result'[t] = "none"
                         ELSE /\ stage'[t] = stage[t] /\ mine'[t] = mine[t]
                              /\ operation'[t] = operation[t] /\ result'[t] = result[t]
      OBVIOUS
<1>2. Typed'
      BY DEF Typed, TypeOK, Stages, Results
<1>3. \A t \in Threads : IF t \in freed THEN ~ Midway(t)' /\ ~ Reading(t)'
                         ELSE (Midway(t)' <=> Midway(t)) /\ (Reading(t)' <=> Reading(t))
      BY <1>1 DEF Midway, Reading, Closing, Connecting
<1>4. AllStaged'
  <2> SUFFICES ASSUME NEW t \in Threads PROVE Staged(t)'
      BY DEF AllStaged
  <2>1. CASE t \in freed
        BY <2>1, <1>1 DEF Staged, Reading, Closing, Connecting
  <2>2. CASE t \notin freed
        BY <2>2, <1>1 DEF AllStaged, Staged, Reading
  <2> QED BY <2>1, <2>2
<1>5. InternalErrorOnlyByOverlap'
      BY <1>1 DEF InternalErrorOnlyByOverlap
<1>6. ASSUME ~ overlapped' PROVE Orderly'
  <2>1. Orderly /\ \A t \in freed : ~ Midway(t)
        BY <1>6
  <2>2. Whole' <=> Whole
        BY DEF Whole
  <2>3. OneMidway'
        BY <2>1, <1>3 DEF Orderly, OneMidway
  <2>4. AllFound'
    <3> SUFFICES ASSUME NEW t \in Threads, Midway(t)' PROVE Found(t)'
        BY DEF AllFound
    <3>1. Midway(t) /\ t \notin freed
          BY <1>3
    <3>2. Found(t)
          BY <3>1, <2>1 DEF Orderly, AllFound
    <3>3. stage'[t] = stage[t] /\ mine'[t] = mine[t]
          BY <3>1, <1>1
    <3> QED BY <3>2, <3>3, FoundKept
  <2>5. WholeBetween'
    <3> SUFFICES ASSUME \A t \in Threads : ~ Midway(t)' PROVE Whole
        BY <2>2 DEF WholeBetween
    <3>1. \A t \in Threads : ~ Midway(t)
          BY <2>1, <1>3
    <3> QED BY <2>1, <3>1 DEF Orderly, WholeBetween
  <2>6. Undisturbed'
    <3> SUFFICES ASSUME NEW t \in Threads, Reading(t)', t \notin disturbed'
                 PROVE  /\ \A u \in Threads : ~ Midway(u)'
                        /\ stage'[t] # "test connected" => stub' # None
        BY DEF Undisturbed
    <3>1. Reading(t) /\ t \notin freed /\ t \notin disturbed /\ stage'[t] = stage[t]
          BY <1>3, <1>1
    <3>2. \A u \in Threads : ~ Midway(u)
          BY <3>1, <2>1 DEF Orderly, Undisturbed
    <3> QED BY <3>1, <3>2, <2>1, <1>3 DEF Orderly, Undisturbed
  <2> QED BY <2>3, <2>4, <2>5, <2>6 DEF Orderly
<1> QED BY <1>2, <1>4, <1>5, <1>6

LEMMA ReleaseSafe ==
    ASSUME SafeClient, NEW t \in Threads, Release(t)
    PROVE  SafeClient'
<1>1. ~ Midway(t)
      BY DEF Release, Midway, Closing, Connecting
<1>2. /\ stage' = [u \in Threads |-> IF u \in {t} THEN "free" ELSE stage[u]]
      /\ operation' = [u \in Threads |-> IF u \in {t} THEN "none" ELSE operation[u]]
      /\ mine' = [u \in Threads |-> IF u \in {t} THEN None ELSE mine[u]]
      /\ result' = [u \in Threads |-> IF u \in {t} THEN "none" ELSE result[u]]
      BY DEF Release, SafeClient, Typed, TypeOK
<1>3. disturbed' = disturbed \ {t} /\ UNCHANGED <<fields, connections, overlapped>>
      BY DEF Release
<1>4. {t} \in SUBSET Threads /\ \A u \in {t} : ~ Midway(u)
      BY <1>1
<1> QED BY <1>2, <1>3, <1>4, FreedSafe

-------------------------------------------------------------------------------
\* A thread goes on with its operation.

\* Only its own stage, result and local variable change.
LEMMA StepLocal ==
    ASSUME Typed, NEW t \in Threads, Step(t)
    PROVE  /\ UNCHANGED <<operation, disturbed, overlapped>>
           /\ \E s : stage' = [stage EXCEPT ![t] = s]
           /\ result' = result \/ \E outcome \in Results : result' = [result EXCEPT ![t] = outcome]
           /\ mine' = mine \/ \E c \in made' \cup {None} : mine' = [mine EXCEPT ![t] = c]
           /\ \A u \in Threads \ {t} : stage'[u] = stage[u] /\ mine'[u] = mine[u]
                                        /\ result'[u] = result[u]
<1> DEFINE Staying == mine' = mine \/ \E c \in made' \cup {None} : mine' = [mine EXCEPT ![t] = c]
<1>1. /\ UNCHANGED <<operation, disturbed, overlapped>>
      /\ \E s : stage' = [stage EXCEPT ![t] = s]
      /\ result' = result \/ \E outcome \in Results : result' = [result EXCEPT ![t] = outcome]
      BY DEF Step, TestSession, ReadStub, CallClose, TestChannel, CloseChannel, Drop, DialFailed, Results,
             DialAnswered, Set, TestConnected, ReadSession, Call, Scan, Goto, End
<1>2. Staying
  <2>1. ASSUME NEW c \in Connections, DialAnswered(t, c) PROVE Staying
        BY <2>1 DEF DialAnswered
  <2>2. CASE ReadStub(t) \/ ReadSession(t)
        BY <2>2 DEF ReadStub, ReadSession, Typed, fields, connections
  <2>3. CASE CallClose(t)
        BY <2>3 DEF CallClose
  <2>4. CASE ~ (ReadStub(t) \/ CallClose(t) \/ ReadSession(t)
                \/ \E c \in Connections : DialAnswered(t, c))
    <3>1. mine' = mine
          BY <2>4 DEF Step, TestSession, TestChannel, CloseChannel, Drop, DialFailed,
                      Set, TestConnected, Call, Scan
    <3> QED BY <3>1
  <2> QED BY <2>1, <2>2, <2>3, <2>4
<1>3. \A u \in Threads \ {t} : stage'[u] = stage[u] /\ mine'[u] = mine[u] /\ result'[u] = result[u]
      BY <1>1, <1>2 DEF Typed, TypeOK
<1> QED BY <1>1, <1>2, <1>3

\* Where a step leads
LEMMA StepLeads ==
    ASSUME Typed, NEW t \in Threads, Step(t)
    PROVE  \/ stage'[t] = "ended"
           \/ stage[t] \in Closing /\ stage'[t] \in Closing
           \/ stage[t] \in Closing /\ stage'[t] = "dial" /\ operation[t] = "connect"
           \/ stage[t] \in Connecting /\ stage'[t] \in Connecting
           \/ Reading(t) /\ Reading(t)'
<1> USE DEF Goto, End, Typed, TypeOK, Reading, Closing, Connecting
<1>1. CASE TestSession(t)
      BY <1>1 DEF TestSession
<1>2. CASE ReadStub(t) \/ CallClose(t)
      BY <1>2 DEF ReadStub, CallClose
<1>3. CASE TestChannel(t)
      BY <1>3 DEF TestChannel
<1>4. CASE CloseChannel(t)
      BY <1>4 DEF CloseChannel
<1>5. CASE Drop(t)
      BY <1>5 DEF Drop
<1>6. CASE DialFailed(t)
      BY <1>6 DEF DialFailed
<1>7. ASSUME NEW c \in Connections, DialAnswered(t, c)
      PROVE  stage[t] \in Connecting /\ stage'[t] \in Connecting
      BY <1>7 DEF DialAnswered
<1>8. CASE Set(t)
      BY <1>8 DEF Set
<1>9. CASE TestConnected(t)
      BY <1>9 DEF TestConnected
<1>10. CASE ReadSession(t)
      BY <1>10 DEF ReadSession
<1>11. CASE Call(t) \/ Scan(t)
      BY <1>11 DEF Call, Scan
<1> QED BY <1>1, <1>2, <1>3, <1>4, <1>5, <1>6, <1>7, <1>8, <1>9, <1>10, <1>11 DEF Step

LEMMA StepTyped ==
    ASSUME Typed, NEW t \in Threads, Step(t)
    PROVE  Typed'
<1> DEFINE Held == /\ made \subseteq made' /\ made' \subseteq Connections
                   /\ open' \subseteq made' /\ asked' \subseteq made'
                   /\ {channel', stub', session_id'} \subseteq made' \cup {None}
<1>1. Held
  <2> USE DEF Typed, TypeOK, fields, connections
  <2>1. CASE TestSession(t) \/ ReadStub(t) \/ TestChannel(t) \/ DialFailed(t)
        BY <2>1 DEF TestSession, ReadStub, TestChannel, DialFailed
  <2>2. CASE CallClose(t)
        BY <2>2 DEF CallClose
  <2>3. CASE CloseChannel(t)
        BY <2>3 DEF CloseChannel
  <2>4. CASE Drop(t)
        BY <2>4 DEF Drop
  <2>5. ASSUME NEW c \in Connections, DialAnswered(t, c) PROVE Held
        BY <2>5 DEF DialAnswered
  <2>6. CASE Set(t)
        BY <2>6 DEF Set
  <2>7. CASE TestConnected(t) \/ ReadSession(t) \/ Call(t) \/ Scan(t)
        BY <2>7 DEF TestConnected, ReadSession, Call, Scan
  <2> QED BY <2>1, <2>2, <2>3, <2>4, <2>5, <2>6, <2>7 DEF Step
<1>2. stage' \in [Threads -> Stages]
  <2>1. stage'[t] \in Stages
        BY StepLeads DEF Stages, Reading, Closing, Connecting
  <2> QED BY <2>1, StepLocal DEF Typed, TypeOK
<1>3. result' \in [Threads -> Results] /\ UNCHANGED <<operation, disturbed, overlapped>>
      BY StepLocal DEF Typed, TypeOK
<1>4. mine' \in [Threads -> made' \cup {None}]
      BY <1>1, StepLocal DEF Typed, TypeOK
<1> QED BY <1>1, <1>2, <1>3, <1>4 DEF Typed, TypeOK

LEMMA StepStaged ==
    ASSUME Typed, AllStaged, NEW t \in Threads, Step(t)
    PROVE  AllStaged'
<1> SUFFICES ASSUME NEW u \in Threads PROVE Staged(u)'
    BY DEF AllStaged
<1>1. CASE u = t
  <2>1. Staged(t) /\ operation' = operation
        BY StepLocal DEF AllStaged
  <2> QED BY <1>1, <2>1, StepLeads DEF Staged, Reading, Closing, Connecting, Changers
<1>2. CASE u # t
  <2>1. stage'[u] = stage[u] /\ operation'[u] = operation[u] /\ Staged(u)
        BY <1>2, StepLocal DEF AllStaged
  <2> QED BY <2>1 DEF Staged, Reading
<1> QED BY <1>1, <1>2

\* While nothing overlaps, a thread in connect or close that finds the fields as it
\* should leaves them as its next statement should find them, and belonging
\* together when it is through; and it does not fail on them.
LEMMA MidwayStep ==
    ASSUME Typed, NEW t \in Threads, Step(t), Midway(t), Found(t)
    PROVE  /\ Midway(t)' => Found(t)'
           /\ ~ Midway(t)' => Whole'
           /\ result'[t] # "exception" \/ result'[t] = result[t]
<1> DEFINE Goal == /\ Midway(t)' => Found(t)'
                   /\ ~ Midway(t)' => Whole'
                   /\ result'[t] # "exception" \/ result'[t] = result[t]
<1> USE DEF Goto, End, Typed, TypeOK, Midway, Closing, Connecting, Found, Whole, fields, connections
<1>1. CASE TestSession(t)
      BY <1>1, SharedClientAssumption DEF TestSession
<1>2. CASE ReadStub(t) \/ CallClose(t)
  <2>1. CASE ReadStub(t)
    <3>1. stage[t] = "read stub" /\ stub # None /\ Whole
          BY <2>1 DEF ReadStub
    <3>2. /\ stage'[t] = "call close" /\ mine'[t] = stub
          /\ UNCHANGED <<fields, connections, result>>
          BY <2>1, <3>1 DEF ReadStub
    <3> QED BY <3>1, <3>2
  <2>2. CASE CallClose(t)
    <3>1. stage[t] = "call close" /\ mine[t] \in open /\ Whole
          BY <2>2 DEF CallClose
    <3>2. /\ stage'[t] = "test channel" /\ asked' = asked \cup ({session_id} \ {None})
          /\ UNCHANGED <<fields, made, open, result>>
          BY <2>2, <3>1 DEF CallClose
    <3>3. None \notin made
          BY SharedClientAssumption
    <3> QED BY <3>1, <3>2, <3>3
  <2> QED BY <1>2, <2>1, <2>2
<1>3. CASE TestChannel(t)
      BY <1>3 DEF TestChannel
<1>4. CASE CloseChannel(t)
      BY <1>4 DEF CloseChannel
<1>5. CASE Drop(t)
      BY <1>5 DEF Drop
<1>6. CASE DialFailed(t)
      BY <1>6 DEF DialFailed
<1>7. ASSUME NEW c \in Connections, DialAnswered(t, c) PROVE Goal
      BY <1>7 DEF DialAnswered
<1>8. CASE Set(t)
      BY <1>8 DEF Set
<1>9. ~ (TestConnected(t) \/ ReadSession(t) \/ Call(t) \/ Scan(t))
      BY DEF TestConnected, ReadSession, Call, Scan
<1> QED BY <1>1, <1>2, <1>3, <1>4, <1>5, <1>6, <1>7, <1>8, <1>9 DEF Step

\* The others leave the object as it is; beside no connect or close a reader sees
\* fields that belong together, and does not fail on them.
LEMMA ReaderStep ==
    ASSUME Typed, NEW t \in Threads, Step(t), ~ Midway(t)
    PROVE  /\ UNCHANGED <<fields, connections>>
           /\ ~ Midway(t)'
           /\ Reading(t)' => Reading(t) /\ (stage[t] = "test connected" => stub # None)
           /\ stage'[t] # "test connected"
           /\ result'[t] = "exception" /\ result[t] # "exception"
              => stage[t] = "scan" \/ (stage[t] = "call" /\ stub \notin open)
<1> USE DEF Goto, End, Typed, TypeOK, Midway, Reading, Closing, Connecting, Connected
<1>1. CASE TestConnected(t)
      BY <1>1 DEF TestConnected
<1>2. CASE ReadSession(t)
      BY <1>2 DEF ReadSession
<1>3. CASE Call(t)
      BY <1>3 DEF Call
<1>4. CASE Scan(t)
      BY <1>4 DEF Scan
<1>5. ~ (TestSession(t) \/ ReadStub(t) \/ CallClose(t) \/ TestChannel(t) \/ CloseChannel(t) \/ Drop(t)
         \/ DialFailed(t) \/ (\E c \in Connections : DialAnswered(t, c)) \/ Set(t))
      BY DEF TestSession, ReadStub, CallClose, TestChannel, CloseChannel, Drop, DialFailed,
             DialAnswered, Set
<1> QED BY <1>1, <1>2, <1>3, <1>4, <1>5 DEF Step

LEMMA StepSafe ==
    ASSUME SafeClient, NEW t \in Threads, Step(t)
    PROVE  SafeClient'
<1> USE DEF SafeClient
<1>1. Typed' /\ AllStaged'
      BY StepTyped, StepStaged
<1>2. /\ UNCHANGED <<operation, disturbed, overlapped>>
      /\ \A u \in Threads \ {t} : stage'[u] = stage[u] /\ mine'[u] = mine[u]
                                   /\ result'[u] = result[u]
      BY StepLocal
<1>3. \A u \in Threads : u # t => (Midway(u)' <=> Midway(u)) /\ (Reading(u)' <=> Reading(u))
      BY <1>2 DEF Midway, Reading
<1>4. CASE overlapped
      BY <1>1, <1>2, <1>4 DEF InternalErrorOnlyByOverlap
<1>5. CASE ~ overlapped /\ Midway(t)
  <2>1. Orderly /\ Found(t) /\ \A u \in Threads : Midway(u) => u = t
        BY <1>5 DEF Orderly, AllFound, OneMidway
  <2>2. /\ Midway(t)' => Found(t)'
        /\ ~ Midway(t)' => Whole'
        /\ result'[t] # "exception" \/ result'[t] = result[t]
        BY <2>1, <1>5, MidwayStep
  <2>3. ~ Reading(t)'
        BY <1>5, StepLeads DEF Midway, Reading, Closing, Connecting
  <2>4. OneMidway' /\ AllFound' /\ WholeBetween'
        BY <2>1, <2>2, <1>3 DEF OneMidway, AllFound, WholeBetween
  <2>5. Undisturbed'
    <3>1. \A u \in Threads : Reading(u)' => u # t /\ Reading(u)
          BY <2>3, <1>3
    <3>2. \A u \in Threads : Reading(u) => u \in disturbed
          BY <2>1, <1>5 DEF Orderly, Undisturbed
    <3> QED BY <3>1, <3>2, <1>2 DEF Undisturbed
  <2>6. InternalErrorOnlyByOverlap'
        BY <2>2, <1>2 DEF InternalErrorOnlyByOverlap
  <2> QED BY <1>1, <2>4, <2>5, <2>6 DEF Orderly
<1>6. CASE ~ overlapped /\ ~ Midway(t)
  <2>1. Orderly
        BY <1>6
  <2>2. /\ UNCHANGED <<fields, connections>>
        /\ ~ Midway(t)'
        /\ Reading(t)' => Reading(t) /\ (stage[t] = "test connected" => stub # None)
        /\ stage'[t] # "test connected"
        /\ result'[t] = "exception" /\ result[t] # "exception"
           => stage[t] = "scan" \/ (stage[t] = "call" /\ stub \notin open)
        BY <1>6, ReaderStep
  <2>3. Whole' <=> Whole
        BY <2>2 DEF Whole, fields, connections
  <2>4. OneMidway' /\ WholeBetween'
        BY <2>1, <2>2, <2>3, <1>3, <1>6 DEF Orderly, OneMidway, WholeBetween
  <2>5. AllFound'
    <3> SUFFICES ASSUME NEW u \in Threads, Midway(u)' PROVE Found(u)'
        BY DEF AllFound
    <3>1. u # t /\ Midway(u)
          BY <2>2, <1>3
    <3>2. Found(u) /\ stage'[u] = stage[u] /\ mine'[u] = mine[u]
          BY <3>1, <2>1, <1>2 DEF Orderly, AllFound
    <3> QED BY <3>2, <2>2, FoundKept DEF fields, connections
  <2>6. Undisturbed'
    <3> SUFFICES ASSUME NEW u \in Threads, Reading(u)', u \notin disturbed
                 PROVE  /\ \A w \in Threads : ~ Midway(w)'
                        /\ stage'[u] # "test connected" => stub' # None
        BY <1>2 DEF Undisturbed
    <3>1. Reading(u)
          BY <2>2, <1>3
    <3>2. /\ \A w \in Threads : ~ Midway(w)
          /\ stage[u] # "test connected" => stub # None
          BY <3>1, <2>1 DEF Orderly, Undisturbed
    <3>3. stub # None \/ stage'[u] = "test connected"
          BY <3>2, <2>2, <1>2
    <3> QED BY <3>2, <3>3, <2>2, <1>3 DEF fields
  <2>7. InternalErrorOnlyByOverlap'
    <3> SUFFICES ASSUME NEW u \in Threads, result'[u] = "exception", operation[u] # "scan",
                        u \notin disturbed
                 PROVE  FALSE
        BY <1>2 DEF InternalErrorOnlyByOverlap
    <3>1. u = t /\ result[t] # "exception"
          BY <1>2, <1>6 DEF InternalErrorOnlyByOverlap
    <3>2. stage[t] = "call" /\ stub \notin open
          BY <3>1, <2>2 DEF AllStaged, Staged
    <3>3. (\A w \in Threads : ~ Midway(w)) /\ stub # None
          BY <3>1, <3>2, <2>1 DEF Orderly, Undisturbed, Reading
    <3>4. Whole
          BY <3>3, <2>1 DEF Orderly, WholeBetween
    <3> QED BY <3>2, <3>3, <3>4 DEF Whole
  <2> QED BY <1>1, <2>4, <2>5, <2>6, <2>7 DEF Orderly
<1> QED BY <1>4, <1>5, <1>6

\* What the invariant says between operations
LEMMA SafeClientGives ==
    SafeClient => TypeOK /\ ConnectionWhole /\ InternalErrorOnlyByOverlap
<1> SUFFICES ASSUME SafeClient PROVE ConnectionWhole
    BY DEF SafeClient, Typed
<1>1. TypeOK /\ AllStaged
      BY DEF SafeClient, Typed
<1>2. ~ Changed => \A t \in Threads : ~ Midway(t)
      BY <1>1, MidwayIsChanging DEF Changed
<1> QED BY <1>2 DEF SafeClient, Orderly, WholeBetween, ConnectionWhole

-------------------------------------------------------------------------------
\* Queues without repetition

InQueue(e, q) == \E i \in 1 .. Len(q) : q[i] = e

Distinct(q) == \A i, j \in 1 .. Len(q) : q[i] = q[j] => i = j

LEMMA AppendQueue ==
    ASSUME NEW S, NEW q \in Seq(S), NEW e \in S, Distinct(q), ~ InQueue(e, q)
    PROVE  /\ Append(q, e) \in Seq(S) /\ Distinct(Append(q, e))
           /\ \A d : InQueue(d, Append(q, e)) <=> InQueue(d, q) \/ d = e
<1> DEFINE r == Append(q, e)
<1>1. /\ r \in Seq(S) /\ Len(q) \in Nat /\ Len(r) = Len(q) + 1 /\ r[Len(q) + 1] = e
      /\ \A i \in 1 .. Len(q) : r[i] = q[i]
      OBVIOUS
<1> HIDE DEF r
<1>2. \A i \in 1 .. Len(r) : i \in 1 .. Len(q) \/ i = Len(q) + 1
      BY <1>1
<1>3. Distinct(r)
      BY <1>1, <1>2 DEF Distinct, InQueue
<1>4. \A d : InQueue(d, r) <=> InQueue(d, q) \/ d = e
      BY <1>1, <1>2 DEF InQueue
<1> QED BY <1>1, <1>3, <1>4 DEF r

LEMMA TailQueue ==
    ASSUME NEW S, NEW q \in Seq(S), q # <<>>, Distinct(q)
    PROVE  /\ Tail(q) \in Seq(S) /\ Distinct(Tail(q)) /\ Head(q) \in S /\ InQueue(Head(q), q)
           /\ \A d : InQueue(d, Tail(q)) <=> InQueue(d, q) /\ d # Head(q)
<1> DEFINE r == Tail(q)
<1>1. /\ r \in Seq(S) /\ Len(q) \in Nat \ {0} /\ Len(r) = Len(q) - 1 /\ Head(q) = q[1]
      /\ q[1] \in S
      /\ \A i \in 1 .. Len(r) : r[i] = q[i + 1]
      OBVIOUS
<1> HIDE DEF r
<1>2. \A i \in 1 .. Len(r) : i + 1 \in 1 .. Len(q) /\ i + 1 # 1
      BY <1>1
<1>3. Distinct(r)
      BY <1>1, <1>2 DEF Distinct
<1>4. \A i \in 1 .. Len(q) : i = 1 \/ (i - 1 \in 1 .. Len(r) /\ (i - 1) + 1 = i)
      BY <1>1
<1>5. ASSUME NEW d PROVE InQueue(d, r) <=> InQueue(d, q) /\ d # q[1]
  <2>1. ASSUME InQueue(d, r) PROVE InQueue(d, q) /\ d # q[1]
        BY <2>1, <1>1, <1>2 DEF InQueue, Distinct
  <2>2. ASSUME InQueue(d, q), d # q[1] PROVE InQueue(d, r)
    <3>1. PICK i \in 1 .. Len(q) : q[i] = d
          BY <2>2 DEF InQueue
    <3>2. i - 1 \in 1 .. Len(r) /\ r[i - 1] = d
          BY <2>2, <3>1, <1>1, <1>4
    <3> QED BY <3>2 DEF InQueue
  <2> QED BY <2>1, <2>2
<1>6. InQueue(q[1], q)
      BY <1>1 DEF InQueue
<1> QED BY <1>1, <1>3, <1>5, <1>6 DEF r

-------------------------------------------------------------------------------
\* The window

\* The workers that have ended are those with an event, and each has one.
Queued == /\ events \in Seq(Workers)
          /\ Distinct(events)
          /\ \A t \in Workers : stage[t] = "ended" <=> InQueue(t, events)

\* When the window is being closed no connect or close starts beside it: one that
\* is under way was so before, and overlaps it.
ExitAlone == stage[Tk] # "free" /\ ~ overlapped => \A t \in Workers : ~ Midway(t)

WidgetsTyped == /\ enabled \subseteq Buttons
                /\ {image_path, video_dialog, polling, window} \subseteq BOOLEAN
                /\ video \in {"none", "running", "over"}
                /\ scan_dialog \in {"closed", "open", "filled", "stale"}

\* Only _on_exit uses the client in the Tk thread.
TkCloses == operation[Tk] \in {"none", "close"}

\* An operation is under way, or its event waits, whose handler updates the buttons.
Awaited == \E t \in Workers : /\ operation[t] \in {"scan", "connect", "close", "infer"}
                             /\ stage[t] # "free"

RefreshAwaited == \E t \in Workers : operation[t] = "performance" /\ stage[t] # "free"

\* The exit has come so far that the window will go.
ExitDropping == \/ stage[Tk] \in {"drop channel", "drop stub", "drop session"}
                \/ stage[Tk] = "ended" /\ result[Tk] # "exception"

\* Otherwise the buttons are as _update_controls would make them, but for Infer, which
\* a bad file leaves disabled, and for Refresh while a refresh is under way.
Right == Controls(image_path, video = "running")

Settled == /\ enabled \ {"refresh"} \subseteq Right
           /\ Right \ {"infer", "refresh"} \subseteq enabled
           /\ RefreshAwaited \/ ("refresh" \in enabled <=> "refresh" \in Right)

Usable == enabled \cap {"scan", "connect", "close"} # {}

Settling == window /\ polling => Awaited \/ Settled \/ (ExitDropping /\ Usable)

\* The inductive invariant
SafeApp == /\ SafeClient
           /\ Queued
           /\ ExitAlone
           /\ WidgetsTyped
           /\ TkCloses
           /\ Settling

LEMMA ControlsTyped ==
    ASSUME NEW image, NEW running
    PROVE  /\ Controls(image, running) \subseteq Buttons
           /\ Controls(image, running) \cap {"scan", "connect", "close"} # {}
<1>1. CASE Connected
  <2>1. "close" \in Controls(image, running)
        BY <1>1 DEF Controls, Buttons
  <2> QED BY <2>1 DEF Controls
<1>2. CASE ~ Connected
  <2>1. "scan" \in Controls(image, running)
        BY <1>2 DEF Controls, Buttons
  <2> QED BY <2>1 DEF Controls
<1> QED BY <1>1, <1>2

\* What a step of the program does to the client: nothing, a call of a method by an
\* idle worker or by one whose event is handled, or by the exiting main loop, a step
\* or the end of an operation, or the end of the process.
LEMMA ClientSteps ==
    ASSUME Queued, AppNext
    PROVE  \/ UNCHANGED vars
           \/ \E t \in Workers, o \in Operations : Begin(t, o) /\ stage[Tk] = "free"
           \/ \E t \in Threads : Release(t) \/ Step(t)
           \/ Begin(Tk, "close")
           \/ /\ stage[Tk] = "ended"
              /\ operation' = [t \in Threads |-> "none"]
              /\ stage' = [t \in Threads |-> "free"]
              /\ mine' = [t \in Threads |-> None]
              /\ result' = [t \in Threads |-> "none"]
              /\ disturbed' = {}
              /\ UNCHANGED <<fields, connections, overlapped>>
<1> DEFINE Goal == \/ UNCHANGED vars
                   \/ \E t \in Workers, o \in Operations : Begin(t, o) /\ stage[Tk] = "free"
                   \/ \E t \in Threads : Release(t) \/ Step(t)
                   \/ Begin(Tk, "close")
                   \/ /\ stage[Tk] = "ended"
                      /\ operation' = [t \in Threads |-> "none"]
                      /\ stage' = [t \in Threads |-> "free"]
                      /\ mine' = [t \in Threads |-> None]
                      /\ result' = [t \in Threads |-> "none"]
                      /\ disturbed' = {}
                      /\ UNCHANGED <<fields, connections, overlapped>>
<1>1. ASSUME NEW o \in Operations, RunAsync(o), stage[Tk] = "free" PROVE Goal
  <2>1. \E t \in Workers : Begin(t, o)
        BY <1>1 DEF RunAsync
  <2> QED BY <2>1, <1>1
<1>2. CASE Press
  <2> USE DEF Looping, Pressed, Operations
  <2>1. CASE ScanPressed
        BY <2>1, <1>1 DEF ScanPressed
  <2>2. CASE ConnectPressed
        BY <2>2, <1>1 DEF ConnectPressed
  <2>3. CASE ClosePressed
        BY <2>3, <1>1 DEF ClosePressed
  <2>4. CASE RefreshPressed
        BY <2>4, <1>1 DEF RefreshPressed
  <2>5. CASE InferPressed
        BY <2>5, <1>1 DEF InferPressed
  <2>6. CASE CloseScanDialog \/ ChooseImage \/ OpenVideoDialog \/ CloseVideoDialog
             \/ StartVideo \/ StopPressed
        BY <2>6 DEF CloseScanDialog, ChooseImage, OpenVideoDialog, CloseVideoDialog, StartVideo,
                    StopPressed
  <2> QED BY <1>2, <2>1, <2>2, <2>3, <2>4, <2>5, <2>6 DEF Press
<1>3. ASSUME NEW t \in Workers, Work(t) PROVE Goal
      BY <1>3 DEF Work, Workers
<1>4. CASE HandleEvent
  <2>1. Head(events) \in Workers
        BY <1>4, TailQueue DEF HandleEvent, GetEvent, Queued
  <2> QED BY <1>4, <2>1 DEF HandleEvent, PerformanceFailed, RowsCollide, Handled, Looping,
                            Workers, Operations
<1>5. CASE VideoEnds
      BY <1>5 DEF VideoEnds
<1>6. CASE Exit
      BY <1>6 DEF Exit
<1>7. CASE ExitStep \/ ExitEnd
      BY <1>7, AppAssumption DEF ExitStep, ExitEnd
<1> QED BY <1>2, <1>3, <1>4, <1>5, <1>6, <1>7 DEF AppNext

LEMMA AppClientSafe ==
    ASSUME SafeClient, Queued, ExitAlone, AppNext
    PROVE  SafeClient' /\ ExitAlone'
<1>1. ASSUME UNCHANGED vars PROVE SafeClient' /\ ExitAlone'
  <2> USE <1>1 DEF vars, fields, connections, threads
  <2>1. Orderly' <=> Orderly
    <3>1. \A t \in Threads : Found(t)' <=> Found(t)
          BY DEF Found, Whole
    <3> QED BY <3>1 DEF Orderly, OneMidway, AllFound, WholeBetween, Undisturbed, Midway, Reading, Whole
  <2> QED BY <2>1 DEF SafeClient, Typed, TypeOK, AllStaged, Staged, Reading,
                      InternalErrorOnlyByOverlap, ExitAlone, Midway
<1>2. ASSUME NEW t \in Workers, NEW o \in Operations, Begin(t, o), stage[Tk] = "free"
      PROVE  SafeClient' /\ ExitAlone'
  <2>1. SafeClient'
        BY <1>2, BeginSafe DEF Workers
  <2>2. stage'[Tk] = stage[Tk]
        BY <1>2, AppAssumption DEF Begin, Workers, SafeClient, Typed, TypeOK
  <2> QED BY <1>2, <2>1, <2>2 DEF ExitAlone
<1>3. ASSUME NEW t \in Threads, Release(t) PROVE SafeClient' /\ ExitAlone'
  <2>1. SafeClient'
        BY <1>3, ReleaseSafe
  <2>2. /\ \A u \in Threads : stage'[u] = stage[u] \/ stage'[u] = "free"
        /\ overlapped' = overlapped
        BY <1>3 DEF Release, SafeClient, Typed, TypeOK
  <2> QED BY <2>1, <2>2, AppAssumption DEF ExitAlone, Midway, Closing, Connecting, Workers
<1>4. ASSUME NEW t \in Threads, Step(t) PROVE SafeClient' /\ ExitAlone'
  <2>1. SafeClient'
        BY <1>4, StepSafe
  <2>2. /\ overlapped' = overlapped
        /\ \A u \in Threads \ {t} : stage'[u] = stage[u]
        BY <1>4, StepLocal DEF SafeClient
  <2>3. stage[t] # "free" /\ (Midway(t)' => Midway(t))
        BY <1>4, StepLeads DEF SafeClient, Step, TestSession, ReadStub, CallClose, TestChannel, CloseChannel,
               Drop, DialFailed, DialAnswered, Set, TestConnected, ReadSession, Call, Scan, Goto,
               End, Midway, Reading, Closing, Connecting
  <2>4. \A u \in Threads : (stage'[u] # "free" => stage[u] # "free") /\ (Midway(u)' => Midway(u))
        BY <2>2, <2>3 DEF Midway
  <2> QED BY <2>1, <2>2, <2>4, AppAssumption DEF ExitAlone, Workers
<1>5. ASSUME Begin(Tk, "close") PROVE SafeClient' /\ ExitAlone'
  <2>1. SafeClient'
        BY <1>5, BeginSafe, AppAssumption DEF Operations
  <2>2. ASSUME NEW t \in Workers, Midway(t)' PROVE overlapped'
    <3>1. Midway(t) /\ t \in Threads \ {Tk}
          BY <1>5, <2>2 DEF Workers, Begin, SafeClient, Typed, TypeOK, Midway
    <3>2. Changing(t) /\ Active(t)
          BY <3>1, MidwayIsChanging DEF SafeClient, Typed
    <3> QED BY <1>5, <3>1, <3>2 DEF Begin, Changers
  <2> QED BY <2>1, <2>2 DEF ExitAlone
<1>6. ASSUME stage[Tk] = "ended",
             operation' = [t \in Threads |-> "none"], stage' = [t \in Threads |-> "free"],
             mine' = [t \in Threads |-> None], result' = [t \in Threads |-> "none"],
             disturbed' = {}, UNCHANGED <<fields, connections, overlapped>>
      PROVE  SafeClient' /\ ExitAlone'
  <2>1. overlapped \/ \A t \in Threads : ~ Midway(t)
        BY <1>6 DEF ExitAlone, Workers, Midway, Closing, Connecting
  <2>2. disturbed' = disturbed \ Threads
        BY <1>6 DEF SafeClient, Typed, TypeOK
  <2>3. SafeClient'
        BY <1>6, <2>1, <2>2, FreedSafe
  <2>4. ExitAlone'
        BY <1>6, AppAssumption DEF ExitAlone
  <2> QED BY <2>3, <2>4
<1> QED BY ClientSteps, <1>1, <1>2, <1>3, <1>4, <1>5, <1>6

-------------------------------------------------------------------------------
\* What calls, steps and ends of operations do to the stages

LEMMA BeginMoves ==
    ASSUME TypeOK, NEW t \in Threads, NEW o, Begin(t, o)
    PROVE  /\ stage[t] \in {"free", "ended"} /\ stage'[t] \notin {"free", "ended"}
           /\ operation'[t] = o
           /\ \A u \in Threads \ {t} : /\ stage'[u] = stage[u] /\ operation'[u] = operation[u]
                                       /\ result'[u] = result[u]
           /\ UNCHANGED <<channel, stub, session_id>>
BY DEF Begin, TypeOK, Active, fields

LEMMA ReleaseMoves ==
    ASSUME TypeOK, NEW t \in Threads, Release(t)
    PROVE  /\ stage[t] = "ended" /\ stage'[t] = "free" /\ operation'[t] = "none"
           /\ \A u \in Threads \ {t} : /\ stage'[u] = stage[u] /\ operation'[u] = operation[u]
                                       /\ result'[u] = result[u]
           /\ UNCHANGED <<channel, stub, session_id>>
BY DEF Release, TypeOK, fields

LEMMA StepMoves ==
    ASSUME Typed, NEW t \in Threads, Step(t)
    PROVE  /\ stage[t] \notin {"free", "ended"} /\ stage'[t] # "free"
           /\ UNCHANGED operation
           /\ \A u \in Threads \ {t} : stage'[u] = stage[u] /\ result'[u] = result[u]
<1>1. stage[t] \notin {"free", "ended"}
      BY DEF Step, TestSession, ReadStub, CallClose, TestChannel, CloseChannel, Drop, DialFailed,
             DialAnswered, Set, TestConnected, ReadSession, Call, Scan, Goto
<1>2. stage'[t] # "free"
      BY StepLeads DEF Closing, Connecting, Reading
<1> QED BY <1>1, <1>2, StepLocal

LEMMA RunAsyncBegins ==
    ASSUME NEW o, RunAsync(o)
    PROVE  \E t \in Workers : Begin(t, o) /\ stage[t] = "free" /\ UNCHANGED events
BY DEF RunAsync

\* The queue follows the stages of the workers.
LEMMA QueueFollows ==
    ASSUME Queued, UNCHANGED events,
           \A t \in Workers : stage'[t] = "ended" <=> stage[t] = "ended"
    PROVE  Queued'
BY DEF Queued, Distinct, InQueue

LEMMA QueuedSafe ==
    ASSUME SafeClient, Queued, AppNext
    PROVE  Queued'
<1> USE DEF Workers
<1>1. TypeOK /\ Typed
      BY DEF SafeClient, Typed
<1>2. ASSUME NEW o \in Operations, RunAsync(o) PROVE Queued'
  <2>1. PICK t \in Workers : Begin(t, o) /\ stage[t] = "free" /\ UNCHANGED events
        BY <1>2, RunAsyncBegins
  <2> QED BY <1>1, <2>1, BeginMoves, QueueFollows
<1>3. CASE Press
  <2> USE DEF Operations
  <2>1. CASE ScanPressed \/ ConnectPressed \/ ClosePressed \/ RefreshPressed \/ InferPressed
        BY <2>1, <1>2 DEF ScanPressed, ConnectPressed, ClosePressed, RefreshPressed, InferPressed
  <2>2. CASE CloseScanDialog \/ ChooseImage \/ OpenVideoDialog \/ CloseVideoDialog
             \/ StartVideo \/ StopPressed
        BY <2>2, QueueFollows DEF CloseScanDialog, ChooseImage, OpenVideoDialog, CloseVideoDialog,
                                  StartVideo, StopPressed, vars, threads
  <2> QED BY <1>3, <2>1, <2>2 DEF Press
<1>4. ASSUME NEW t \in Workers, Work(t) PROVE Queued'
  <2>1. /\ stage[t] # "ended" /\ Step(t)
        /\ \A u \in Threads \ {t} : stage'[u] = stage[u]
        BY <1>1, <1>4, StepMoves DEF Work
  <2>2. CASE stage'[t] = "ended"
    <3>1. events' = Append(events, t) /\ ~ InQueue(t, events)
          BY <1>4, <2>1, <2>2 DEF Work, Queued
    <3>2. /\ events' \in Seq(Workers) /\ Distinct(events')
          /\ \A d : InQueue(d, events') <=> InQueue(d, events) \/ d = t
          BY <3>1, AppendQueue DEF Queued
    <3> QED BY <3>2, <2>1, <2>2 DEF Queued, Distinct, InQueue
  <2>3. CASE stage'[t] # "ended"
        BY <1>4, <2>1, <2>3, QueueFollows DEF Work
  <2> QED BY <2>2, <2>3
<1>5. CASE HandleEvent
  <2> DEFINE t == Head(events)
  <2>1. events # <<>> /\ events' = Tail(events)
        BY <1>5 DEF HandleEvent, GetEvent
  <2>2. /\ events' \in Seq(Workers) /\ Distinct(events') /\ t \in Workers
        /\ \A d : InQueue(d, events') <=> InQueue(d, events) /\ d # t
        BY <2>1, TailQueue DEF Queued
  <2>3. Release(t) \/ Begin(t, "performance")
        BY <1>5 DEF HandleEvent, PerformanceFailed, RowsCollide, Handled
  <2>4. stage'[t] # "ended" /\ \A u \in Threads \ {t} : stage'[u] = stage[u]
        BY <1>1, <2>2, <2>3, BeginMoves, ReleaseMoves
  <2> HIDE DEF t
  <2> QED BY <2>2, <2>4 DEF Queued, Distinct, InQueue
<1>6. CASE VideoEnds
      BY <1>6, QueueFollows DEF VideoEnds, vars, threads
<1>7. CASE Exit
      BY <1>1, <1>7, BeginMoves, QueueFollows, AppAssumption DEF Exit
<1>8. CASE ExitStep
      BY <1>1, <1>8, StepMoves, QueueFollows, AppAssumption DEF ExitStep
<1>9. CASE ExitEnd
  <2>1. CASE Release(Tk) /\ UNCHANGED events
        BY <1>1, <2>1, ReleaseMoves, QueueFollows, AppAssumption
  <2>2. CASE events' = <<>> /\ stage' = [t \in Threads |-> "free"]
        BY <2>2 DEF Queued, Distinct, InQueue
  <2> QED BY <1>9, <2>1, <2>2 DEF ExitEnd
<1> QED BY <1>3, <1>4, <1>5, <1>6, <1>7, <1>8, <1>9 DEF AppNext

LEMMA WidgetsSafe ==
    ASSUME WidgetsTyped, AppNext
    PROVE  WidgetsTyped'
<1> USE ControlsTyped DEF WidgetsTyped, AfterStop, VideoStopped
<1>1. CASE Press
  <2>1. CASE ScanPressed \/ CloseScanDialog \/ ConnectPressed \/ RefreshPressed \/ InferPressed
        BY <2>1 DEF ScanPressed, CloseScanDialog, ConnectPressed, RefreshPressed, InferPressed
  <2>2. CASE ClosePressed \/ StopPressed
        BY <2>2 DEF ClosePressed, StopPressed
  <2>3. CASE ChooseImage
        BY <2>3 DEF ChooseImage
  <2>4. CASE OpenVideoDialog \/ CloseVideoDialog \/ StartVideo
        BY <2>4 DEF OpenVideoDialog, CloseVideoDialog, StartVideo
  <2> QED BY <1>1, <2>1, <2>2, <2>3, <2>4 DEF Press
<1>2. CASE (\E t \in Workers : Work(t)) \/ ExitStep \/ ExitEnd
      BY <1>2 DEF Work, ExitStep, ExitEnd, widgets
<1>3. CASE HandleEvent
  <2>1. ASSUME NEW t, PerformanceFailed(t) \/ RowsCollide(t) \/ Handled(t)
        PROVE  /\ enabled' \subseteq Buttons /\ polling' \in BOOLEAN
               /\ scan_dialog' \in {"closed", "open", "filled", "stale"}
    <3>1. CASE PerformanceFailed(t)
          BY <3>1 DEF PerformanceFailed, Buttons
    <3>2. CASE RowsCollide(t)
          BY <3>2 DEF RowsCollide
    <3>3. CASE Handled(t)
          BY <3>3 DEF Handled, Updated
    <3> QED BY <2>1, <3>1, <3>2, <3>3
  <2> QED BY <1>3, <2>1 DEF HandleEvent
<1>4. CASE VideoEnds
      BY <1>4 DEF VideoEnds
<1>5. CASE Exit
      BY <1>5 DEF Exit
<1> QED BY <1>1, <1>2, <1>3, <1>4, <1>5 DEF AppNext

-------------------------------------------------------------------------------
\* The buttons

LEMMA TkClosesSafe ==
    ASSUME SafeClient, Queued, TkCloses, AppNext
    PROVE  TkCloses'
<1> USE AppAssumption DEF TkCloses, Workers
<1>1. TypeOK /\ Typed
      BY DEF SafeClient, Typed
<1>2. CASE UNCHANGED vars
      BY <1>2 DEF vars, threads
<1>3. ASSUME NEW t \in Workers, NEW o \in Operations, Begin(t, o) PROVE TkCloses'
      BY <1>1, <1>3, BeginMoves
<1>4. ASSUME NEW t \in Threads, Release(t) PROVE TkCloses'
      BY <1>1, <1>4, ReleaseMoves
<1>5. ASSUME NEW t \in Threads, Step(t) PROVE TkCloses'
      BY <1>1, <1>5, StepMoves
<1>6. CASE Begin(Tk, "close")
      BY <1>1, <1>6, BeginMoves
<1>7. CASE operation' = [t \in Threads |-> "none"]
      BY <1>7
<1> QED BY ClientSteps, <1>2, <1>3, <1>4, <1>5, <1>6, <1>7

\* The buttons Controls names depend on the three fields alone.
LEMMA ControlsKept ==
    ASSUME UNCHANGED <<channel, stub, session_id>>, NEW image, NEW running
    PROVE  Controls(image, running)' = Controls(image, running)
BY DEF Controls, Connected

LEMMA RightKept ==
    ASSUME UNCHANGED <<channel, stub, session_id>>
    PROVE  Right' = Controls(image_path', video' = "running")
BY ControlsKept DEF Right

LEMMA SettledUsable == Settled => Usable
<1> SUFFICES ASSUME Settled PROVE Usable
    OBVIOUS
<1>1. PICK b \in {"scan", "connect", "close"} : b \in Right
      BY ControlsTyped DEF Right
<1> QED BY <1>1 DEF Settled, Usable

\* An image or a video changes what Infer, Video and Stop do, nothing else.
LEMMA ControlsOfImage ==
    ASSUME NEW image \in BOOLEAN, NEW running \in BOOLEAN
    PROVE  /\ Controls(image, running) \subseteq Controls(TRUE, running)
           /\ Controls(TRUE, running) \ {"infer"} \subseteq Controls(image, running)
<1>1. CASE image
      BY <1>1
<1>2. CASE ~ image
      BY <1>2 DEF Controls, Buttons
<1> QED BY <1>1, <1>2

LEMMA UpdatedSettles ==
    ASSUME UNCHANGED <<channel, stub, session_id>>,
           enabled' = Controls(image_path', video' = "running")
    PROVE  Settled'
BY RightKept DEF Settled

\* An operation that is started from a button is awaited, or it is a refresh.
LEMMA PressSettles ==
    ASSUME TypeOK, WidgetsTyped, Settling, Press
    PROVE  Settling'
<1> USE DEF Settling, Workers
<1>1. window' = window /\ polling' = polling /\ stage[Tk] = "free"
      BY DEF Press, ScanPressed, CloseScanDialog, ConnectPressed, ClosePressed, RefreshPressed,
             InferPressed, ChooseImage, OpenVideoDialog, CloseVideoDialog, StartVideo,
             StopPressed, Pressed, Looping
<1>2. ~ ExitDropping
      BY <1>1 DEF ExitDropping
<1>3. ASSUME NEW o \in {"scan", "connect", "close", "infer"}, RunAsync(o) PROVE Awaited'
  <2>1. PICK t \in Workers : Begin(t, o)
        BY <1>3, RunAsyncBegins
  <2> QED BY <2>1, BeginMoves DEF Awaited
<1>4. CASE ScanPressed \/ ConnectPressed \/ ClosePressed \/ InferPressed
      BY <1>3, <1>4 DEF ScanPressed, ConnectPressed, ClosePressed, InferPressed
<1>5. CASE RefreshPressed
  <2>1. PICK t \in Workers : Begin(t, "performance") /\ stage[t] = "free"
        BY <1>5, RunAsyncBegins DEF RefreshPressed
  <2>2. /\ stage'[t] # "free" /\ operation'[t] = "performance"
        /\ \A u \in Threads \ {t} : stage'[u] = stage[u] /\ operation'[u] = operation[u]
        /\ UNCHANGED <<channel, stub, session_id>>
        BY <2>1, BeginMoves
  <2>3. Awaited => Awaited'
        BY <2>1, <2>2 DEF Awaited
  <2>4. RefreshAwaited'
        BY <2>2 DEF RefreshAwaited
  <2>5. Right' = Right /\ enabled' = enabled \ {"refresh"}
        BY <1>5, <2>2, RightKept DEF RefreshPressed, Right
  <2>6. Settled => Settled'
        BY <2>4, <2>5 DEF Settled
  <2> QED BY <1>1, <1>2, <2>3, <2>6
<1>6. ASSUME UNCHANGED vars PROVE UNCHANGED <<channel, stub, session_id>>
             /\ (Awaited' <=> Awaited) /\ (RefreshAwaited' <=> RefreshAwaited)
      BY <1>6 DEF vars, fields, threads, Awaited, RefreshAwaited
<1>7. CASE CloseScanDialog \/ OpenVideoDialog \/ CloseVideoDialog
  <2>1. UNCHANGED <<vars, enabled, image_path, video, polling, window>>
        BY <1>7 DEF CloseScanDialog, OpenVideoDialog, CloseVideoDialog
  <2>2. Right' = Right
        BY <1>6, <2>1, RightKept DEF Right
  <2>3. Settled' <=> Settled
        BY <1>6, <2>1, <2>2 DEF Settled
  <2> QED BY <1>1, <1>2, <1>6, <2>1, <2>3
<1>8. CASE StopPressed
  <2>1. CASE video = "running"
    <3>1. Settled'
          BY <1>6, <1>8, <2>1, UpdatedSettles DEF StopPressed, VideoStopped, AfterStop
    <3> QED BY <3>1
  <2>2. CASE video # "running"
    <3>1. Right' = Right /\ enabled' = enabled
          BY <1>6, <1>8, <2>2, RightKept DEF StopPressed, VideoStopped, AfterStop, Right
    <3>2. Settled' <=> Settled
          BY <1>6, <1>8, <3>1 DEF Settled, StopPressed
    <3> QED BY <1>1, <1>2, <1>6, <1>8, <3>2 DEF StopPressed
  <2> QED BY <2>1, <2>2
<1>9. CASE StartVideo
  <2>1. Settled'
        BY <1>6, <1>9, UpdatedSettles DEF StartVideo
  <2> QED BY <2>1
<1>10. CASE ChooseImage
  <2> USE <1>10 DEF ChooseImage, VideoStopped
  <2>1. image_path' = TRUE /\ video' # "running" /\ UNCHANGED <<channel, stub, session_id>>
        BY <1>6
  <2>2. Right' = Controls(TRUE, FALSE)
        BY <2>1, RightKept
  <2>3. CASE enabled' = Controls(TRUE, FALSE)
        BY <2>2, <2>3 DEF Settled
  <2>4. CASE enabled' = AfterStop /\ video = "running"
    <3>1. enabled' = Controls(image_path, FALSE)
          BY <2>4 DEF AfterStop
    <3>2. "refresh" \in Controls(image_path, FALSE) <=> "refresh" \in Controls(TRUE, FALSE)
          BY DEF Controls
    <3>3. Settled'
          BY <2>2, <3>1, <3>2, ControlsOfImage DEF Settled, WidgetsTyped
    <3> QED BY <3>3
  <2>5. CASE enabled' = AfterStop /\ video # "running"
    <3>1. enabled' = enabled /\ Right = Controls(image_path, FALSE)
          BY <2>5 DEF AfterStop, Right
    <3>2. "refresh" \in Controls(image_path, FALSE) <=> "refresh" \in Controls(TRUE, FALSE)
          BY DEF Controls
    <3>3. Settled => Settled'
          BY <1>6, <2>2, <3>1, <3>2, ControlsOfImage DEF Settled, WidgetsTyped
    <3> QED BY <1>1, <1>2, <1>6, <3>3
  <2> QED BY <2>3, <2>4, <2>5
<1> QED BY <1>4, <1>5, <1>7, <1>8, <1>9, <1>10 DEF Press

\* The fields change under a connect or close only, in the Tk thread only when the
\* exit cannot fail any more.
LEMMA StepDisconnects ==
    ASSUME TypeOK, NEW t \in Threads, Step(t),
           ~ UNCHANGED <<channel, stub, session_id>>
    PROVE  \/ stage[t] \in {"set channel", "set stub", "set session"}
           \/ /\ stage[t] \in {"drop channel", "drop stub", "drop session"}
              /\ \/ stage'[t] \in {"drop stub", "drop session", "dial"}
                 \/ stage'[t] = "ended" /\ result'[t] = "ok"
              /\ stage'[t] = "dial" => operation[t] = "connect"
<1> USE DEF Goto, End, TypeOK, fields
<1>1. CASE Drop(t)
      BY <1>1 DEF Drop
<1>2. CASE Set(t)
      BY <1>2 DEF Set
<1>3. ~ (TestSession(t) \/ ReadStub(t) \/ CallClose(t) \/ TestChannel(t) \/ CloseChannel(t) \/ DialFailed(t)
         \/ (\E c \in Connections : DialAnswered(t, c)) \/ TestConnected(t) \/ ReadSession(t)
         \/ Call(t) \/ Scan(t))
      BY DEF TestSession, ReadStub, CallClose, TestChannel, CloseChannel, DialFailed, DialAnswered,
             TestConnected, ReadSession, Call, Scan
<1> QED BY <1>1, <1>2, <1>3 DEF Step

\* Once the exit has come to drop the fields it goes on to its end without an error.
LEMMA DroppingGoesOn ==
    ASSUME TypeOK, TkCloses, ExitDropping, Step(Tk)
    PROVE  ExitDropping'
<1> USE AppAssumption DEF Goto, End, TypeOK
<1>1. stage[Tk] \in {"drop channel", "drop stub", "drop session"}
      BY DEF ExitDropping, Step, TestSession, ReadStub, CallClose, TestChannel, CloseChannel, Drop,
             DialFailed, DialAnswered, Set, TestConnected, ReadSession, Call, Scan
<1>2. Drop(Tk)
      BY <1>1 DEF Step, TestSession, ReadStub, CallClose, TestChannel, CloseChannel,
             DialFailed, DialAnswered, Set, TestConnected, ReadSession, Call, Scan
<1>3. operation[Tk] # "connect"
      BY DEF TkCloses
<1>4. stage'[Tk] \in {"drop stub", "drop session"}
      \/ (stage'[Tk] = "ended" /\ result'[Tk] = "ok")
      BY <1>2, <1>3 DEF Drop
<1> QED BY <1>4 DEF ExitDropping

LEMMA SettlingSafe ==
    ASSUME SafeClient, Queued, WidgetsTyped, TkCloses, Settling, AppNext
    PROVE  Settling'
<1> USE AppAssumption DEF Settling, Workers
<1>1. TypeOK /\ Typed /\ AllStaged
      BY DEF SafeClient, Typed
<1>2. CASE Press
      BY <1>1, <1>2, PressSettles
<1>3. ASSUME NEW t \in Workers, Work(t) PROVE Settling'
  <2>1. /\ stage[t] \notin {"free", "ended"} /\ stage'[t] # "free"
        /\ UNCHANGED operation
        /\ \A u \in Threads \ {t} : stage'[u] = stage[u] /\ result'[u] = result[u]
        /\ Step(t) /\ UNCHANGED widgets
        BY <1>1, <1>3, StepMoves DEF Work
  <2>2. /\ Awaited => Awaited'
        /\ ExitDropping => ExitDropping'
        /\ Usable' <=> Usable
        /\ RefreshAwaited' <=> RefreshAwaited
        BY <2>1 DEF Awaited, ExitDropping, Usable, RefreshAwaited, widgets
  <2>3. CASE UNCHANGED <<channel, stub, session_id>>
    <3>1. Right' = Right
          BY <2>1, <2>3, RightKept DEF Right, widgets
    <3>2. Settled => Settled'
          BY <2>1, <2>2, <3>1 DEF Settled, widgets
    <3> QED BY <2>1, <2>2, <3>2 DEF widgets
  <2>4. CASE ~ UNCHANGED <<channel, stub, session_id>>
    <3>1. stage[t] \in Closing \cup Connecting
          BY <1>1, <2>1, <2>4, StepDisconnects DEF Closing, Connecting
    <3>2. operation[t] \in {"connect", "close"}
          BY <1>1, <3>1 DEF AllStaged, Staged, Changers
    <3>3. Awaited'
          BY <2>1, <3>2 DEF Awaited
    <3> QED BY <3>3
  <2> QED BY <2>3, <2>4
<1>4. CASE HandleEvent
  <2> DEFINE t == Head(events)
  <2>1. t \in Workers
        BY <1>4, TailQueue DEF HandleEvent, GetEvent, Queued
  <2>2. stage[Tk] = "free" /\ UNCHANGED <<image_path, video, window>> /\ polling
        /\ (PerformanceFailed(t) \/ RowsCollide(t) \/ Handled(t))
        BY <1>4 DEF HandleEvent, Looping
  <2> HIDE DEF t
  <2>3. CASE PerformanceFailed(t)
    <3>1. /\ UNCHANGED <<channel, stub, session_id>>
          /\ \A u \in Threads \ {t} : stage'[u] = stage[u] /\ operation'[u] = operation[u]
          BY <1>1, <2>1, <2>3, ReleaseMoves DEF PerformanceFailed
    <3>2. Awaited => Awaited'
          BY <2>3, <3>1 DEF Awaited, PerformanceFailed
    <3>3. Right' = Right
          BY <2>2, <3>1, RightKept DEF Right
    <3>4. "refresh" \in Right <=> Connected
          BY DEF Right, Controls, Buttons
    <3>5. /\ enabled' \ {"refresh"} = enabled \ {"refresh"}
          /\ "refresh" \in enabled' <=> Connected
          BY <2>3 DEF PerformanceFailed
    <3>6. Settled => Settled'
          BY <3>3, <3>4, <3>5 DEF Settled
    <3>7. ~ ExitDropping
          BY <2>2 DEF ExitDropping
    <3> QED BY <2>2, <2>3, <3>2, <3>6, <3>7 DEF PerformanceFailed
  <2>4. CASE RowsCollide(t)
        BY <2>4 DEF RowsCollide
  <2>5. CASE Handled(t)
    <3>1. UNCHANGED <<channel, stub, session_id>>
          BY <1>1, <2>1, <2>5, ReleaseMoves, BeginMoves DEF Handled
    <3>2. Settled'
          BY <2>2, <2>5, <3>1, UpdatedSettles DEF Handled, Updated
    <3> QED BY <3>2
  <2> QED BY <2>2, <2>3, <2>4, <2>5
<1>5. CASE VideoEnds
  <2>1. UNCHANGED <<channel, stub, session_id>>
        BY <1>5 DEF VideoEnds, vars, fields
  <2>2. Settled'
        BY <1>5, <2>1, UpdatedSettles DEF VideoEnds
  <2> QED BY <2>2
<1>6. CASE Exit
  <2>1. /\ UNCHANGED <<channel, stub, session_id>>
        /\ \A u \in Threads \ {Tk} : stage'[u] = stage[u] /\ operation'[u] = operation[u]
        /\ stage[Tk] = "free" /\ UNCHANGED <<image_path, window, polling>>
        BY <1>1, <1>6, BeginMoves DEF Exit, Looping
  <2>2. /\ Awaited => Awaited'
        /\ RefreshAwaited' <=> RefreshAwaited
        BY <2>1 DEF Awaited, RefreshAwaited
  <2>3. CASE video = "running"
    <3>1. Settled'
          BY <1>6, <2>1, <2>3, UpdatedSettles DEF Exit, AfterStop, VideoStopped
    <3> QED BY <3>1
  <2>4. CASE video # "running"
    <3>1. enabled' = enabled /\ Right' = Right
          BY <1>6, <2>1, <2>4, RightKept DEF Exit, AfterStop, VideoStopped, Right
    <3>2. Settled => Settled'
          BY <2>2, <3>1 DEF Settled
    <3>3. ~ ExitDropping
          BY <2>1 DEF ExitDropping
    <3> QED BY <2>1, <2>2, <3>2, <3>3
  <2> QED BY <2>3, <2>4
<1>7. CASE ExitStep
  <2>1. /\ UNCHANGED operation
        /\ \A u \in Threads \ {Tk} : stage'[u] = stage[u]
        /\ Step(Tk) /\ UNCHANGED widgets
        BY <1>1, <1>7, StepMoves DEF ExitStep
  <2>2. /\ Awaited => Awaited'
        /\ Usable' <=> Usable
        /\ RefreshAwaited' <=> RefreshAwaited
        BY <2>1 DEF Awaited, Usable, RefreshAwaited, widgets
  <2>3. ExitDropping => ExitDropping'
        BY <1>1, <2>1, DroppingGoesOn
  <2>4. CASE UNCHANGED <<channel, stub, session_id>>
    <3>1. Right' = Right
          BY <2>1, <2>4, RightKept DEF Right, widgets
    <3>2. Settled => Settled'
          BY <2>1, <2>2, <3>1 DEF Settled, widgets
    <3> QED BY <2>1, <2>2, <2>3, <3>2 DEF widgets
  <2>5. CASE ~ UNCHANGED <<channel, stub, session_id>>
    <3>1. stage[Tk] \notin Connecting /\ operation[Tk] # "connect"
          BY <1>1 DEF AllStaged, Staged, TkCloses
    <3>2. ExitDropping'
          BY <1>1, <2>1, <2>5, <3>1, StepDisconnects DEF ExitDropping, Connecting
    <3> QED BY <2>1, <2>2, <3>2, SettledUsable DEF widgets
  <2> QED BY <2>4, <2>5
<1>8. CASE ExitEnd
  <2>1. CASE window' = FALSE
        BY <2>1
  <2>2. CASE result[Tk] = "exception" /\ Release(Tk) /\ UNCHANGED <<events, window>>
    <3>1. /\ UNCHANGED <<channel, stub, session_id>>
          /\ \A u \in Threads \ {Tk} : stage'[u] = stage[u] /\ operation'[u] = operation[u]
          /\ UNCHANGED <<enabled, image_path, video, polling>>
          BY <1>1, <1>8, <2>2, ReleaseMoves DEF ExitEnd
    <3>2. /\ Awaited => Awaited'
          /\ RefreshAwaited' <=> RefreshAwaited
          BY <3>1 DEF Awaited, RefreshAwaited
    <3>3. Right' = Right
          BY <3>1, RightKept DEF Right
    <3>4. Settled => Settled'
          BY <3>1, <3>2, <3>3 DEF Settled
    <3>5. ~ ExitDropping
          BY <1>8, <2>2 DEF ExitDropping, ExitEnd
    <3> QED BY <2>2, <3>1, <3>2, <3>4, <3>5
  <2> QED BY <1>8, <2>1, <2>2 DEF ExitEnd
<1> QED BY <1>2, <1>3, <1>4, <1>5, <1>6, <1>7, <1>8 DEF AppNext

-------------------------------------------------------------------------------

LEMMA AppInitSafe == AppInit => SafeApp
<1> SUFFICES ASSUME AppInit PROVE SafeApp
    OBVIOUS
<1>1. SafeClient
      BY InitSafe DEF AppInit
<1>2. \A t \in Threads : stage[t] = "free" /\ operation[t] = "none"
      BY DEF AppInit, Init
<1>3. Queued
      BY <1>2 DEF AppInit, Queued, Workers, Distinct, InQueue
<1>4. ExitAlone /\ TkCloses /\ WidgetsTyped
      BY <1>2, AppAssumption DEF ExitAlone, TkCloses, WidgetsTyped, AppInit, Buttons
<1>5. Right = {"scan", "connect"}
      BY DEF AppInit, Init, Right, Controls, Connected, Buttons
<1>6. Settled
      BY <1>5 DEF AppInit, Settled
<1> QED BY <1>1, <1>3, <1>4, <1>6 DEF SafeApp, Settling

LEMMA AppNextSafe == SafeApp /\ [AppNext]_appVars => SafeApp'
<1> SUFFICES ASSUME SafeApp, [AppNext]_appVars PROVE SafeApp'
    OBVIOUS
<1>1. CASE AppNext
      BY <1>1, AppClientSafe, QueuedSafe, WidgetsSafe, TkClosesSafe, SettlingSafe DEF SafeApp
<1>2. CASE UNCHANGED appVars
  <2> USE <1>2 DEF SafeApp, appVars, vars, widgets, fields, connections, threads
  <2>1. Orderly' <=> Orderly
    <3>1. \A t \in Threads : Found(t)' <=> Found(t)
          BY DEF Found, Whole
    <3> QED BY <3>1 DEF Orderly, OneMidway, AllFound, WholeBetween, Undisturbed, Midway, Reading, Whole
  <2>2. SafeClient'
        BY <2>1 DEF SafeClient, Typed, TypeOK, AllStaged, Staged, Reading, InternalErrorOnlyByOverlap
  <2>3. Queued' /\ ExitAlone' /\ WidgetsTyped' /\ TkCloses'
        BY DEF Queued, Distinct, InQueue, ExitAlone, Midway, WidgetsTyped, TkCloses
  <2>4. Settled' <=> Settled
        BY DEF Settled, Right, Controls, Connected, RefreshAwaited
  <2>5. Settling'
        BY <2>4 DEF Settling, Awaited, ExitDropping, Usable
  <2> QED BY <2>2, <2>3, <2>5
<1> QED BY <1>1, <1>2

\* What the invariant says of the widgets
LEMMA SafeAppGives == SafeApp => AppTypeOK /\ ControlsSettle /\ BusyForAReason
<1> SUFFICES ASSUME SafeApp PROVE AppTypeOK /\ ControlsSettle /\ BusyForAReason
    OBVIOUS
<1> USE DEF SafeApp, Workers
<1>1. AppTypeOK
  <2>1. \A i \in 1 .. Len(events) : events[i] \in Workers /\ InQueue(events[i], events)
        BY DEF Queued, InQueue
  <2>2. \A i \in 1 .. Len(events) : stage[events[i]] = "ended"
        BY <2>1 DEF Queued
  <2> QED BY <2>1, <2>2, SafeClientGives DEF AppTypeOK, WidgetsTyped
<1>2. ControlsSettle
  <2> SUFFICES ASSUME window, polling, \A t \in Threads : stage[t] = "free"
               PROVE  enabled \subseteq Right /\ Right \subseteq enabled \cup {"infer"}
      BY DEF ControlsSettle, Right
  <2>1. ~ Awaited /\ ~ RefreshAwaited /\ ~ ExitDropping
        BY AppAssumption DEF Awaited, RefreshAwaited, ExitDropping
  <2>2. Settled
        BY <2>1 DEF Settling
  <2> QED BY <2>1, <2>2 DEF Settled
<1>3. BusyForAReason
  <2> SUFFICES ASSUME window, polling, ~ Usable
               PROVE  \E t \in Workers :
                        /\ operation[t] \in {"scan", "connect", "close", "infer"}
                        /\ Active(t) \/ \E i \in 1 .. Len(events) : events[i] = t
      BY DEF BusyForAReason, Usable
  <2>1. Awaited
        BY SettledUsable DEF Settling
  <2> QED BY <2>1 DEF Awaited, Active, Queued, InQueue
<1> QED BY <1>1, <1>2, <1>3

\* The inductive invariant holds: of the client, the queue of events and the buttons.
THEOREM AppSafe == AppSpec => []SafeApp
<1> QED BY AppInitSafe, AppNextSafe, PTL DEF AppSpec

\* Widgets, events and client keep their types; the events are of ended workers.
THEOREM AppTyping == AppSpec => []AppTypeOK
<1>1. AppSpec => []SafeApp
      BY AppSafe
<1> QED BY <1>1, SafeAppGives, PTL

\* rknn_client.py: as long as no connect or close overlapped another, channel, stub and
\* session belong to one connection between operations, and no session was forgotten.
THEOREM AppConnectionWhole == AppSpec => []ConnectionWhole
<1>1. SafeApp => ConnectionWhole
      BY SafeClientGives DEF SafeApp
<1>2. AppSpec => []SafeApp
      BY AppSafe
<1> QED BY <1>1, <1>2, PTL

\* rknn_client.py: an operation fails on a field that is None or a closed channel only
\* if a connect or close overlapped it, or another before.
THEOREM AppErrorOnlyByOverlap == AppSpec => []InternalErrorOnlyByOverlap
<1>1. SafeApp => InternalErrorOnlyByOverlap
      BY SafeClientGives DEF SafeApp
<1>2. AppSpec => []SafeApp
      BY AppSafe
<1> QED BY <1>1, <1>2, PTL

\* tk_app.py: with nothing under way the right buttons work.
THEOREM AppControlsSettle == AppSpec => []ControlsSettle
<1>1. AppSpec => []SafeApp
      BY AppSafe
<1> QED BY <1>1, SafeAppGives, PTL

\* tk_app.py: a window that offers nothing waits for an operation or for its event.
THEOREM AppBusyForAReason == AppSpec => []BusyForAReason
<1>1. AppSpec => []SafeApp
      BY AppSafe
<1> QED BY <1>1, SafeAppGives, PTL
===============================================================================
