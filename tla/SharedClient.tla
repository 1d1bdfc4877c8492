----------------------------- MODULE SharedClient -----------------------------
(***************************************************************************)
(* client/rknn_client.py: one RknnClient object used by several threads,   *)
(* as the Tk program does, without a lock.  Between two steps of a thread  *)
(* lies one access to the fields of the object; the statements of connect  *)
(* and close that assign them are steps of their own.                      *)
(*                                                                         *)
(* A connection is a channel with its stub and the session opened through  *)
(* it; connections may lead to different boards, so each is granted its    *)
(* session or refused it for itself.                                       *)
(***************************************************************************)
EXTENDS FiniteSets

CONSTANTS Threads,      \* threads that use the object, one operation at a time
          Connections,  \* bound on the channels that get a session
          None

ASSUME SharedClientAssumption == None \notin Connections

VARIABLES channel, stub, session_id, \* self.channel, self.stub, self.session_id
          made,      \* the connections OpenSession has been answered for with a session
          open,      \* those whose channel is open
          asked,     \* those whose session CloseSession has been called for
          operation, \* what each thread does
          stage,     \* how far it is
          mine,      \* the connection it has made, or the stub or session id it has read
          result,    \* how the operation ended
          disturbed, \* the threads whose operation a connect or close was under way beside
          overlapped \* has ever a connect or close run beside another?

fields == <<channel, stub, session_id>>
connections == <<made, open, asked>>
threads == <<operation, stage, mine, result, disturbed, overlapped>>
vars == <<fields, connections, threads>>

Operations == {"connect", "close", "infer", "performance", "scan"}

\* A connect or close changes the fields; the others only read them.
Changers == {"connect", "close"}

\* The stages are named for what comes next: of close, of connect, which begins
\* with those of close, and of the others.
Closing == {"test session", "read stub", "call close", "test channel",
            "close channel", "drop channel", "drop stub", "drop session"}
Connecting == {"dial", "set channel", "set stub", "set session"}
Stages == Closing \cup Connecting
              \cup {"free", "test connected", "read session", "call", "scan", "ended"}

\* "error" is an AcceleratorError, "exception" any other: the methods of the
\* object raise none on purpose.
Results == {"none", "ok", "empty", "error", "exception"}

Init == /\ channel = None /\ stub = None /\ session_id = None
        /\ made = {} /\ open = {} /\ asked = {}
        /\ operation = [t \in Threads |-> "none"]
        /\ stage = [t \in Threads |-> "free"]
        /\ mine = [t \in Threads |-> None]
        /\ result = [t \in Threads |-> "none"]
        /\ disturbed = {}
        /\ overlapped = FALSE

\* connected is three reads, of fields that connect sets and close wipes in the
\* order in which they are read: beside one of them it answers what held at one moment.
Connected == channel # None /\ stub # None /\ session_id # None

-------------------------------------------------------------------------------

Goto(t, from, to) == /\ stage[t] = from
                     /\ stage' = [stage EXCEPT ![t] = to]
                     /\ UNCHANGED <<operation, result, disturbed, overlapped>>

\* The operation returns or raises.
End(t, outcome) == /\ stage' = [stage EXCEPT ![t] = "ended"]
                   /\ result' = [result EXCEPT ![t] = outcome]
                   /\ UNCHANGED <<operation, disturbed, overlapped>>

Active(t) == stage[t] \notin {"free", "ended"}

Changing(t) == Active(t) /\ operation[t] \in Changers

\* A thread calls one of the methods.
Begin(t, o) ==
    LET others == {u \in Threads \ {t} : Active(u)}
        changers == {u \in others : Changing(u)}
    IN  /\ ~ Active(t)
        /\ operation' = [operation EXCEPT ![t] = o]
        /\ stage' = [stage EXCEPT ![t] = CASE o \in Changers -> "test session"
                                           [] o = "scan" -> "scan"
                                           [] OTHER -> "test connected"]
        /\ result' = [result EXCEPT ![t] = "none"]
        /\ mine' = [mine EXCEPT ![t] = None]
        /\ disturbed' = (disturbed \ {t}) \cup (IF o \in Changers THEN others ELSE {})
                                         \cup (IF changers = {} THEN {} ELSE {t})
        /\ overlapped' = (overlapped \/ (o \in Changers /\ changers # {}))
        /\ UNCHANGED <<fields, connections>>

\* The thread is done with the result.
Release(t) == /\ stage[t] = "ended"
              /\ stage' = [stage EXCEPT ![t] = "free"]
              /\ operation' = [operation EXCEPT ![t] = "none"]
              /\ result' = [result EXCEPT ![t] = "none"]
              /\ mine' = [mine EXCEPT ![t] = None]
              /\ disturbed' = disturbed \ {t}
              /\ UNCHANGED <<fields, connections, overlapped>>

-------------------------------------------------------------------------------
\* close()

\* if self.stub is not None and self.session_id
TestSession(t) ==
    /\ Goto(t, "test session",
            IF stub # None /\ session_id # None THEN "read stub" ELSE "test channel")
    /\ UNCHANGED <<fields, connections, mine>>

\* self.stub.CloseSession: a stub that has become None meanwhile raises.
ReadStub(t) ==
    /\ stage[t] = "read stub"
    /\ \/ /\ stub # None
          /\ mine' = [mine EXCEPT ![t] = stub]
          /\ Goto(t, "read stub", "call close")
       \/ /\ stub = None
          /\ End(t, "exception")
          /\ UNCHANGED mine
    /\ UNCHANGED <<fields, connections>>

\* It is called with session_id=self.session_id: an RpcError is swallowed, but a
\* channel that has been closed meanwhile raises something else.
CallClose(t) ==
    /\ stage[t] = "call close"
    /\ \/ /\ mine[t] \in open
          /\ asked' = asked \cup ({session_id} \ {None})
          /\ mine' = [mine EXCEPT ![t] = None]
          /\ Goto(t, "call close", "test channel")
       \/ /\ mine[t] \notin open
          /\ End(t, "exception")
          /\ UNCHANGED <<asked, mine>>
    /\ UNCHANGED <<fields, made, open>>

\* if self.channel is not None
TestChannel(t) ==
    /\ Goto(t, "test channel", IF channel # None THEN "close channel" ELSE "drop channel")
    /\ UNCHANGED <<fields, connections, mine>>

\* self.channel.close(), which may be called again
CloseChannel(t) ==
    /\ stage[t] = "close channel"
    /\ \/ /\ channel # None
          /\ open' = open \ {channel}
          /\ Goto(t, "close channel", "drop channel")
       \/ /\ channel = None
          /\ End(t, "exception")
          /\ UNCHANGED open
    /\ UNCHANGED <<fields, made, asked, mine>>

\* Mutated: leaves the session id.
DropSessionNot(t) ==
    /\ \/ Goto(t, "drop channel", "drop stub") /\ channel' = None /\ UNCHANGED stub
       \/ Goto(t, "drop stub", "drop session") /\ stub' = None /\ UNCHANGED channel
       \/ /\ stage[t] = "drop session"
          /\ IF operation[t] = "connect" THEN Goto(t, "drop session", "dial") ELSE End(t, "ok")
          /\ UNCHANGED <<channel, stub>>
    /\ UNCHANGED <<session_id, connections, mine>>

\* The fields are wiped one by one; connect goes on to make its connection.
Drop(t) ==
    /\ \/ /\ Goto(t, "drop channel", "drop stub")
          /\ channel' = None /\ UNCHANGED <<stub, session_id>>
       \/ /\ Goto(t, "drop stub", "drop session")
          /\ stub' = None /\ UNCHANGED <<channel, session_id>>
       \/ /\ stage[t] = "drop session"
          /\ IF operation[t] = "connect" THEN Goto(t, "drop session", "dial") ELSE End(t, "ok")
          /\ session_id' = None /\ UNCHANGED <<channel, stub>>
    /\ UNCHANGED <<connections, mine>>

-------------------------------------------------------------------------------
\* The rest of connect(), after self.close()

\* A bad endpoint, a deadline, a server that is not ready or refuses: the channel
\* is closed again and the error raised.  An answer that was lost on its way is
\* among these; RknnClient has what becomes of its session.
DialFailed(t) ==
    /\ stage[t] = "dial"
    /\ End(t, "error")
    /\ UNCHANGED <<fields, connections, mine>>

\* A new channel, GetServerInfo, Health, and OpenSession answered with a session:
\* all of it is in local variables so far.
DialAnswered(t, c) ==
    /\ c \notin made
    /\ Goto(t, "dial", "set channel")
    /\ made' = made \cup {c}
    /\ open' = open \cup {c}
    /\ mine' = [mine EXCEPT ![t] = c]
    /\ UNCHANGED <<fields, asked>>

\* self.channel, self.stub and self.session_id are assigned one by one.
Set(t) ==
    /\ \/ /\ Goto(t, "set channel", "set stub")
          /\ channel' = mine[t] /\ UNCHANGED <<stub, session_id>>
       \/ /\ Goto(t, "set stub", "set session")
          /\ stub' = mine[t] /\ UNCHANGED <<channel, session_id>>
       \/ /\ stage[t] = "set session" /\ End(t, "ok")
          /\ session_id' = mine[t] /\ UNCHANGED <<channel, stub>>
    /\ UNCHANGED <<connections, mine>>

-------------------------------------------------------------------------------
\* infer(), infer_bytes(), performance(), discover()

\* Mutated: infer_bytes without its test.
TestConnectedNot(t) ==
    /\ Goto(t, "test connected",
            IF operation[t] = "infer" THEN "read session" ELSE "call")
    /\ UNCHANGED <<fields, connections, mine>>

\* The test of self.connected; an image that cannot be read or has a wrong suffix
\* is an error too.
TestConnected(t) ==
    /\ \/ /\ Connected
          /\ Goto(t, "test connected",
                  IF operation[t] = "infer" THEN "read session" ELSE "call")
       \/ /\ stage[t] = "test connected"
          /\ ~ Connected \/ operation[t] = "infer"
          /\ End(t, "error")
    /\ UNCHANGED <<fields, connections, mine>>

\* The request is made, with session_id=self.session_id.
ReadSession(t) ==
    /\ Goto(t, "read session", "call")
    /\ mine' = [mine EXCEPT ![t] = session_id]
    /\ UNCHANGED <<fields, connections>>

\* self.stub.Infer(...), self.stub.GetPerformance(...): the server answers an
\* Infer only for the session it opened, and an RpcError is possible always.
Call(t) ==
    /\ stage[t] = "call"
    /\ \/ stub \in open /\ (operation[t] = "infer" => mine[t] = stub) /\ End(t, "ok")
       \/ stub \in open /\ End(t, "error")
       \/ stub \notin open /\ End(t, "exception")
    /\ UNCHANGED <<fields, connections, mine>>

\* discover() uses nothing of the object.  Answers that are not an accelerator's
\* are skipped, and one that is not a JSON object, or a socket error, raises.
Scan(t) ==
    /\ stage[t] = "scan"
    /\ \E outcome \in {"ok", "empty", "exception"} : End(t, outcome)
    /\ UNCHANGED <<fields, connections, mine>>

-------------------------------------------------------------------------------

Step(t) == \/ TestSession(t) \/ ReadStub(t) \/ CallClose(t) \/ TestChannel(t)
           \/ CloseChannel(t) \/ Drop(t) \/ DialFailed(t) \/ (\E c \in Connections : DialAnswered(t, c))
           \/ Set(t) \/ TestConnected(t) \/ ReadSession(t) \/ Call(t) \/ Scan(t)

Next == \E t \in Threads : \/ Step(t)
                           \/ Release(t)
                           \/ \E o \in Operations : Begin(t, o)

Spec == Init /\ [][Next]_vars

-------------------------------------------------------------------------------

TypeOK == /\ {channel, stub, session_id} \subseteq Connections \cup {None}
          /\ made \subseteq Connections /\ open \subseteq made /\ asked \subseteq made
          /\ operation \in [Threads -> Operations \cup {"none"}]
          /\ stage \in [Threads -> Stages]
          /\ mine \in [Threads -> Connections \cup {None}]
          /\ result \in [Threads -> Results]
          /\ disturbed \subseteq Threads
          /\ overlapped \in BOOLEAN

Changed == \E t \in Threads : Changing(t)

\* As long as no connect or close overlaps another, the fields always agree when
\* none is under way: all three belong to one connection, its channel is open,
\* and CloseSession has been called for every other session ever granted.
Whole == /\ channel = stub /\ stub = session_id
         /\ channel # None => channel \in open
         /\ made \subseteq asked \cup {session_id}

ConnectionWhole == ~ overlapped /\ ~ Changed => Whole

\* Nobody is told of an error of the program itself (an attribute of None, a call
\* on a closed channel) unless a connect or close ran beside the operation, or ran
\* beside another before and left the fields at odds.
InternalErrorOnlyByOverlap ==
    \A t \in Threads : result[t] = "exception" /\ operation[t] # "scan"
                       => overlapped \/ t \in disturbed
===============================================================================
