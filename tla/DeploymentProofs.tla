--------------------------- MODULE DeploymentProofs ---------------------------
(***************************************************************************)
(* Proofs about Deployment, for any process ids and any number of scripts  *)
(* that fail or are cut off.                                               *)
(*                                                                         *)
(* Every script executes its commands in one order, which Later states; so *)
(* what is left of one is known by the set of its commands, Todo.          *)
(***************************************************************************)
EXTENDS Deployment, FiniteSetTheorems, TLAPS

Service == {"start", "write pid", "check"}

Later == [c \in Commands |->
             CASE c = "stop" -> Commands \ {"stop"}
               [] c = "wait" -> Commands \ {"stop", "wait"}
               [] c = "stage" -> Commands \ {"stop", "wait", "stage"}
               [] c = "copy from app" -> {"remove old", "back up", "copy from old", "promote",
                                          "rename"} \cup Service
               [] c = "remove old" -> {"back up", "copy from old", "promote", "rename"} \cup Service
               [] c = "back up" -> {"copy from old", "promote", "rename"} \cup Service
               [] c = "copy from old" -> {"promote", "rename"} \cup Service
               [] c = "promote" -> {"rename"} \cup Service
               [] c = "rename" -> Service
               [] c = "start" -> {"write pid", "check"}
               [] c = "write pid" -> {"check"}
               [] c = "check" -> {}]

Ordered(s) == /\ s \in Seq(Commands)
              /\ \A i, j \in 1 .. Len(s) : i < j => s[j] \in Later[s[i]]

Todo(s) == {s[i] : i \in 1 .. Len(s)}

-------------------------------------------------------------------------------

LEMMA LaterThan ==
    /\ Later["stop"] = Commands \ {"stop"}
    /\ Later["wait"] = Commands \ {"stop", "wait"}
    /\ Later["stage"] = Commands \ {"stop", "wait", "stage"}
    /\ Later["copy from app"] = {"remove old", "back up", "copy from old", "promote",
                                 "rename"} \cup Service
    /\ Later["remove old"] = {"back up", "copy from old", "promote", "rename"} \cup Service
    /\ Later["back up"] = {"copy from old", "promote", "rename"} \cup Service
    /\ Later["copy from old"] = {"promote", "rename"} \cup Service
    /\ Later["promote"] = {"rename"} \cup Service
    /\ Later["rename"] = Service
    /\ Later["start"] = {"write pid", "check"}
    /\ Later["write pid"] = {"check"}
    /\ Later["check"] = {}
BY DEF Later, Commands

LEMMA NotLaterThanItself == \A c \in Commands : c \notin Later[c]
BY LaterThan DEF Commands, Service

\* The first command is executed and gone; those left come after it.
LEMMA Advance ==
    ASSUME NEW s, Ordered(s), s # <<>>
    PROVE  /\ Head(s) \in Commands /\ Head(s) \in Todo(s)
           /\ Ordered(Tail(s))
           /\ Todo(Tail(s)) = Todo(s) \ {Head(s)}
           /\ \A c \in Todo(Tail(s)) : c \in Commands /\ c \in Later[Head(s)]
<1>1. /\ s \in Seq(Commands) /\ Len(s) \in Nat \ {0} /\ Head(s) = s[1]
      /\ Tail(s) \in Seq(Commands) /\ Len(Tail(s)) = Len(s) - 1
      /\ \A i \in 1 .. Len(s) - 1 : Tail(s)[i] = s[i + 1]
      BY DEF Ordered
<1>2. \A i \in 1 .. Len(s) : s[i] \in Commands
      BY <1>1
<1>3. Ordered(Tail(s))
  <2> SUFFICES ASSUME NEW i \in 1 .. Len(Tail(s)), NEW j \in 1 .. Len(Tail(s)), i < j
               PROVE  Tail(s)[j] \in Later[Tail(s)[i]]
      BY <1>1 DEF Ordered
  <2>1. Tail(s)[i] = s[i + 1] /\ Tail(s)[j] = s[j + 1]
        BY <1>1
  <2>2. i + 1 \in 1 .. Len(s) /\ j + 1 \in 1 .. Len(s) /\ i + 1 < j + 1
        BY <1>1
  <2> QED BY <2>1, <2>2 DEF Ordered
<1>4. \A i \in 1 .. Len(s) - 1 : s[i + 1] \in Later[s[1]]
  <2> SUFFICES ASSUME NEW i \in 1 .. Len(s) - 1 PROVE s[i + 1] \in Later[s[1]]
      OBVIOUS
  <2>1. 1 \in 1 .. Len(s) /\ i + 1 \in 1 .. Len(s) /\ 1 < i + 1
        BY <1>1
  <2> QED BY <2>1 DEF Ordered
<1>5. Todo(Tail(s)) = {s[i + 1] : i \in 1 .. Len(s) - 1}
      BY <1>1 DEF Todo
<1>6. ASSUME NEW c \in Todo(Tail(s)) PROVE c \in Commands /\ c \in Later[Head(s)]
  <2>1. PICK i \in 1 .. Len(s) - 1 : c = s[i + 1]
        BY <1>5
  <2>2. i + 1 \in 1 .. Len(s)
        BY <1>1
  <2> QED BY <1>1, <1>2, <1>4, <2>1, <2>2
<1>7. Head(s) \in Commands /\ Head(s) \in Todo(s)
  <2>1. 1 \in 1 .. Len(s)
        BY <1>1
  <2> QED BY <1>1, <1>2, <2>1 DEF Todo
<1>8. Todo(Tail(s)) = Todo(s) \ {Head(s)}
  <2>1. ASSUME NEW c \in Todo(Tail(s)) PROVE c \in Todo(s) \ {Head(s)}
    <3>1. PICK i \in 1 .. Len(s) - 1 : c = s[i + 1]
          BY <1>5
    <3>2. i + 1 \in 1 .. Len(s)
          BY <1>1
    <3>3. c # Head(s)
          BY <1>6, <1>7, NotLaterThanItself
    <3> QED BY <3>1, <3>2, <3>3 DEF Todo
  <2>2. ASSUME NEW c \in Todo(s) \ {Head(s)} PROVE c \in Todo(Tail(s))
    <3>1. PICK i \in 1 .. Len(s) : c = s[i]
          BY DEF Todo
    <3>2. i # 1 /\ i - 1 \in 1 .. Len(s) - 1 /\ (i - 1) + 1 = i
          BY <1>1, <2>2, <3>1
    <3> QED BY <1>5, <3>1, <3>2
  <2> QED BY <2>1, <2>2
<1> QED BY <1>3, <1>6, <1>7, <1>8

\* Another command takes the place of the first one.
LEMMA Replace ==
    ASSUME NEW s, Ordered(s), NEW c \in Commands,
           \A d \in Todo(s) : d \in Later[c]
    PROVE  /\ Ordered(<<c>> \o s)
           /\ Todo(<<c>> \o s) = {c} \cup Todo(s)
<1> DEFINE t == <<c>> \o s
<1>1. /\ s \in Seq(Commands) /\ Len(s) \in Nat
      /\ t \in Seq(Commands) /\ Len(t) = Len(s) + 1 /\ t[1] = c
      /\ \A i \in 1 .. Len(s) : t[i + 1] = s[i]
      BY DEF Ordered
<1>2. \A i \in 2 .. Len(s) + 1 : i - 1 \in 1 .. Len(s) /\ t[i] = s[i - 1]
  <2> SUFFICES ASSUME NEW i \in 2 .. Len(s) + 1 PROVE i - 1 \in 1 .. Len(s) /\ t[i] = s[i - 1]
      OBVIOUS
  <2>1. i - 1 \in 1 .. Len(s) /\ (i - 1) + 1 = i
        BY <1>1
  <2> QED BY <1>1, <2>1
<1> HIDE DEF t
<1>3. \A i \in 1 .. Len(s) : s[i] \in Todo(s)
      BY DEF Todo
<1>4. Ordered(t)
  <2> SUFFICES ASSUME NEW i \in 1 .. Len(s) + 1, NEW j \in 1 .. Len(s) + 1, i < j
               PROVE  t[j] \in Later[t[i]]
      BY <1>1 DEF Ordered
  <2>1. j \in 2 .. Len(s) + 1 /\ j - 1 \in 1 .. Len(s) /\ t[j] = s[j - 1]
        BY <1>1, <1>2
  <2>2. CASE i = 1
        BY <1>1, <1>3, <2>1, <2>2
  <2>3. CASE i # 1
    <3>1. i - 1 \in 1 .. Len(s) /\ t[i] = s[i - 1] /\ i - 1 < j - 1
          BY <1>1, <1>2, <2>1, <2>3
    <3> QED BY <2>1, <3>1 DEF Ordered
  <2> QED BY <2>2, <2>3
<1>5. Todo(t) = {c} \cup Todo(s)
  <2>1. ASSUME NEW d \in Todo(t) PROVE d \in {c} \cup Todo(s)
    <3>1. PICK i \in 1 .. Len(s) + 1 : d = t[i]
          BY <1>1, <2>1 DEF Todo
    <3>2. i = 1 \/ i \in 2 .. Len(s) + 1
          BY <1>1
    <3> QED BY <1>1, <1>2, <1>3, <3>1, <3>2
  <2>2. ASSUME NEW d \in Todo(s) PROVE d \in Todo(t)
    <3>1. PICK i \in 1 .. Len(s) : d = s[i]
          BY DEF Todo
    <3>2. i + 1 \in 1 .. Len(s) + 1 /\ d = t[i + 1]
          BY <1>1, <3>1
    <3> QED BY <1>1, <3>2 DEF Todo
  <2>3. c \in Todo(t)
    <3>1. 1 \in 1 .. Len(s) + 1
          BY <1>1
    <3> QED BY <1>1, <3>1 DEF Todo
  <2> QED BY <2>1, <2>2, <2>3
<1> QED BY <1>4, <1>5 DEF t

\* A script is in order when each of its commands comes before the rest.
LEMMA PairsTwo ==
    ASSUME NEW later, NEW s, Len(s) = 2,
           {s[2]} \subseteq later[s[1]]
    PROVE  \A i, j \in 1 .. Len(s) : i < j => s[j] \in later[s[i]]
OBVIOUS

LEMMA OrderedTwo ==
    ASSUME NEW s, s \in Seq(Commands), Len(s) = 2,
           {s[2]} \subseteq Later[s[1]]
    PROVE  Ordered(s) /\ Todo(s) = {s[1], s[2]}
<1>1. Ordered(s)
      BY PairsTwo DEF Ordered
<1>2. 1 .. 2 = {1, 2}
      OBVIOUS
<1> QED BY <1>1, <1>2 DEF Todo

LEMMA PairsSix ==
    ASSUME NEW later, NEW s, Len(s) = 6,
           {s[2], s[3], s[4], s[5], s[6]} \subseteq later[s[1]],
           {s[3], s[4], s[5], s[6]} \subseteq later[s[2]],
           {s[4], s[5], s[6]} \subseteq later[s[3]],
           {s[5], s[6]} \subseteq later[s[4]],
           {s[6]} \subseteq later[s[5]]
    PROVE  \A i, j \in 1 .. Len(s) : i < j => s[j] \in later[s[i]]
OBVIOUS

LEMMA OrderedSix ==
    ASSUME NEW s, s \in Seq(Commands), Len(s) = 6,
           {s[2], s[3], s[4], s[5], s[6]} \subseteq Later[s[1]],
           {s[3], s[4], s[5], s[6]} \subseteq Later[s[2]],
           {s[4], s[5], s[6]} \subseteq Later[s[3]],
           {s[5], s[6]} \subseteq Later[s[4]],
           {s[6]} \subseteq Later[s[5]]
    PROVE  Ordered(s) /\ Todo(s) = {s[1], s[2], s[3], s[4], s[5], s[6]}
<1>1. Ordered(s)
      BY PairsSix DEF Ordered
<1>2. 1 .. 6 = {1, 2, 3, 4, 5, 6}
      OBVIOUS
<1> QED BY <1>1, <1>2 DEF Todo

LEMMA PairsSeven ==
    ASSUME NEW later, NEW s, Len(s) = 7,
           {s[2], s[3], s[4], s[5], s[6], s[7]} \subseteq later[s[1]],
           {s[3], s[4], s[5], s[6], s[7]} \subseteq later[s[2]],
           {s[4], s[5], s[6], s[7]} \subseteq later[s[3]],
           {s[5], s[6], s[7]} \subseteq later[s[4]],
           {s[6], s[7]} \subseteq later[s[5]],
           {s[7]} \subseteq later[s[6]]
    PROVE  \A i, j \in 1 .. Len(s) : i < j => s[j] \in later[s[i]]
OBVIOUS

LEMMA OrderedSeven ==
    ASSUME NEW s, s \in Seq(Commands), Len(s) = 7,
           {s[2], s[3], s[4], s[5], s[6], s[7]} \subseteq Later[s[1]],
           {s[3], s[4], s[5], s[6], s[7]} \subseteq Later[s[2]],
           {s[4], s[5], s[6], s[7]} \subseteq Later[s[3]],
           {s[5], s[6], s[7]} \subseteq Later[s[4]],
           {s[6], s[7]} \subseteq Later[s[5]],
           {s[7]} \subseteq Later[s[6]]
    PROVE  Ordered(s) /\ Todo(s) = {s[1], s[2], s[3], s[4], s[5], s[6], s[7]}
<1>1. Ordered(s)
      BY PairsSeven DEF Ordered
<1>2. 1 .. 7 = {1, 2, 3, 4, 5, 6, 7}
      OBVIOUS
<1> QED BY <1>1, <1>2 DEF Todo

\* The scripts keep to the order.
LEMMA Scripts ==
    /\ Ordered(<<>>) /\ Todo(<<>>) = {}
    /\ Ordered(Start) /\ Todo(Start) = {"start"}
    /\ Ordered(Stop) /\ Todo(Stop) = {"stop"}
    /\ Ordered(Restart) /\ Todo(Restart) = {"stop", "start"}
    /\ Ordered(UpdateLocal)
    /\ Todo(UpdateLocal) = {"stop", "remove old", "back up", "copy from old", "promote",
                            "start"}
    /\ Ordered(UpdateRemote)
    /\ Todo(UpdateRemote) = {"stop", "stage", "copy from app", "remove old", "back up",
                             "rename", "start"}
<1>1. Ordered(<<>>) /\ Todo(<<>>) = {}
      BY DEF Ordered, Todo
<1>2. Ordered(Start) /\ Todo(Start) = {"start"}
      BY DEF Ordered, Todo, Start, Commands
<1>3. Ordered(Stop) /\ Todo(Stop) = {"stop"}
      BY DEF Ordered, Todo, Stop, Commands
<1>4. Ordered(Restart) /\ Todo(Restart) = {"stop", "start"}
  <2>1. Restart \in Seq(Commands) /\ Len(Restart) = 2
        BY DEF Restart, Commands
  <2>2. /\ Restart[1] = "stop" /\ Restart[2] = "start"
        BY DEF Restart
  <2>3. /\ {"start"} \subseteq Later["stop"]
        BY LaterThan DEF Commands, Service
  <2>4. /\ {Restart[2]} \subseteq Later[Restart[1]]
        BY <2>2, <2>3, Zenon
  <2>5. /\ Ordered(Restart)
        /\ Todo(Restart) = {Restart[1], Restart[2]}
        BY <2>1, <2>4, OrderedTwo
  <2> QED BY <2>2, <2>5
<1>5. /\ Ordered(UpdateLocal)
      /\ Todo(UpdateLocal) = {"stop", "remove old", "back up", "copy from old", "promote",
                              "start"}
  <2>1. UpdateLocal \in Seq(Commands) /\ Len(UpdateLocal) = 6
        BY DEF UpdateLocal, Commands
  <2>2. /\ UpdateLocal[1] = "stop" /\ UpdateLocal[2] = "remove old"
        /\ UpdateLocal[3] = "back up" /\ UpdateLocal[4] = "copy from old"
        /\ UpdateLocal[5] = "promote" /\ UpdateLocal[6] = "start"
        BY DEF UpdateLocal
  <2>3. /\ {"remove old", "back up", "copy from old", "promote", "start"} \subseteq Later["stop"]
        /\ {"back up", "copy from old", "promote", "start"} \subseteq Later["remove old"]
        /\ {"copy from old", "promote", "start"} \subseteq Later["back up"]
        /\ {"promote", "start"} \subseteq Later["copy from old"]
        /\ {"start"} \subseteq Later["promote"]
        BY LaterThan DEF Commands, Service
  <2>4. /\ {UpdateLocal[2], UpdateLocal[3], UpdateLocal[4], UpdateLocal[5], UpdateLocal[6]} \subseteq Later[UpdateLocal[1]]
        /\ {UpdateLocal[3], UpdateLocal[4], UpdateLocal[5], UpdateLocal[6]} \subseteq Later[UpdateLocal[2]]
        /\ {UpdateLocal[4], UpdateLocal[5], UpdateLocal[6]} \subseteq Later[UpdateLocal[3]]
        /\ {UpdateLocal[5], UpdateLocal[6]} \subseteq Later[UpdateLocal[4]]
        /\ {UpdateLocal[6]} \subseteq Later[UpdateLocal[5]]
        BY <2>2, <2>3, Zenon
  <2>5. /\ Ordered(UpdateLocal)
        /\ Todo(UpdateLocal) = {UpdateLocal[1], UpdateLocal[2], UpdateLocal[3], UpdateLocal[4], UpdateLocal[5], UpdateLocal[6]}
        BY <2>1, <2>4, OrderedSix
  <2> QED BY <2>2, <2>5
<1>6. /\ Ordered(UpdateRemote)
      /\ Todo(UpdateRemote) = {"stop", "stage", "copy from app", "remove old", "back up",
                               "rename", "start"}
  <2>1. UpdateRemote \in Seq(Commands) /\ Len(UpdateRemote) = 7
        BY DEF UpdateRemote, Commands
  <2>2. /\ UpdateRemote[1] = "stop" /\ UpdateRemote[2] = "stage"
        /\ UpdateRemote[3] = "copy from app" /\ UpdateRemote[4] = "remove old"
        /\ UpdateRemote[5] = "back up" /\ UpdateRemote[6] = "rename"
        /\ UpdateRemote[7] = "start"
        BY DEF UpdateRemote
  <2>3. /\ {"stage", "copy from app", "remove old", "back up", "rename", "start"} \subseteq Later["stop"]
        /\ {"copy from app", "remove old", "back up", "rename", "start"} \subseteq Later["stage"]
        /\ {"remove old", "back up", "rename", "start"} \subseteq Later["copy from app"]
        /\ {"back up", "rename", "start"} \subseteq Later["remove old"]
        /\ {"rename", "start"} \subseteq Later["back up"]
        /\ {"start"} \subseteq Later["rename"]
        BY LaterThan DEF Commands, Service
  <2>4. /\ {UpdateRemote[2], UpdateRemote[3], UpdateRemote[4], UpdateRemote[5], UpdateRemote[6], UpdateRemote[7]} \subseteq Later[UpdateRemote[1]]
        /\ {UpdateRemote[3], UpdateRemote[4], UpdateRemote[5], UpdateRemote[6], UpdateRemote[7]} \subseteq Later[UpdateRemote[2]]
        /\ {UpdateRemote[4], UpdateRemote[5], UpdateRemote[6], UpdateRemote[7]} \subseteq Later[UpdateRemote[3]]
        /\ {UpdateRemote[5], UpdateRemote[6], UpdateRemote[7]} \subseteq Later[UpdateRemote[4]]
        /\ {UpdateRemote[6], UpdateRemote[7]} \subseteq Later[UpdateRemote[5]]
        /\ {UpdateRemote[7]} \subseteq Later[UpdateRemote[6]]
        BY <2>2, <2>3, Zenon
  <2>5. /\ Ordered(UpdateRemote)
        /\ Todo(UpdateRemote) = {UpdateRemote[1], UpdateRemote[2], UpdateRemote[3], UpdateRemote[4], UpdateRemote[5], UpdateRemote[6], UpdateRemote[7]}
        BY <2>1, <2>4, OrderedSeven
  <2> QED BY <2>2, <2>5
<1> QED BY <1>1, <1>2, <1>3, <1>4, <1>5, <1>6

-------------------------------------------------------------------------------

\* What is left of a script is what is left of one of the five.
Shape(s) == /\ Ordered(s)
            /\ ~ ({"stop", "wait"} \subseteq Todo(s))
            /\ ~ ({"promote", "rename"} \subseteq Todo(s))
            /\ "start" \in Todo(s) => Todo(s) \cap {"write pid", "check"} = {}
            /\ "write pid" \in Todo(s) => Todo(s) \subseteq {"write pid", "check"}
            /\ "copy from app" \in Todo(s) \/ "remove old" \in Todo(s) => "back up" \in Todo(s)
            /\ "stop" \in Todo(s) \/ "wait" \in Todo(s)
                => "back up" \in Todo(s) \/ Todo(s) \cap {"promote", "rename"} = {}

LEMMA Shapes ==
    Shape(<<>>) /\ Shape(Start) /\ Shape(Stop) /\ Shape(Restart)
        /\ Shape(UpdateLocal) /\ Shape(UpdateRemote)
<1>1. Shape(<<>>) BY Scripts DEF Shape
<1>2. Shape(Start) BY Scripts DEF Shape
<1>3. Shape(Stop) BY Scripts DEF Shape
<1>4. Shape(Restart) BY Scripts DEF Shape
<1>5. Shape(UpdateLocal) BY Scripts DEF Shape
<1>6. Shape(UpdateRemote) BY Scripts DEF Shape
<1> QED BY <1>1, <1>2, <1>3, <1>4, <1>5, <1>6

\* What the next command says of those to come.
LEMMA ToCome ==
    ASSUME NEW s, Shape(s), s # <<>>
    PROVE  LET c == Head(s)
               todo == Todo(s)
               rest == Todo(Tail(s))
           IN  /\ c \in Commands /\ c \in todo /\ rest = todo \ {c}
               /\ Shape(Tail(s))
               /\ c # "stop" => "stop" \notin todo
               /\ c \notin {"stop", "wait"} => "wait" \notin todo
               /\ c \notin {"stop", "wait", "stage"} => "stage" \notin todo
               /\ c \in {"back up", "copy from old", "promote", "rename"}
                      => "copy from app" \notin todo /\ "remove old" \notin todo
               /\ c \in {"copy from old", "promote", "rename"} => "back up" \notin todo
               /\ c \in {"promote", "rename"} => "copy from old" \notin todo
               /\ c \in {"start", "check"} => rest = {}
               /\ c # "write pid" => "write pid" \notin todo
               /\ c = "write pid" => rest \subseteq {"check"}
<1> DEFINE c == Head(s)
           todo == Todo(s)
           rest == Todo(Tail(s))
<1>1. /\ c \in Commands /\ c \in todo /\ rest = todo \ {c} /\ Ordered(Tail(s))
      /\ \A d \in rest : d \in Commands /\ d \in Later[c]
      BY Advance DEF Shape
<1> HIDE DEF c, todo, rest
<1>2. /\ c = "stop" \/ "stop" \notin rest
      /\ c \in {"stop", "wait"} \/ "wait" \notin rest
      /\ c \in {"stop", "wait", "stage"} \/ "stage" \notin rest
  <2>1. \A d \in Commands : "stop" \notin Later[d]
        BY LaterThan DEF Commands, Service
  <2>2. \A d \in Commands : "wait" \in Later[d] => d = "stop"
        BY LaterThan DEF Commands, Service
  <2>3. \A d \in Commands : "stage" \in Later[d] => d = "stop" \/ d = "wait"
        BY LaterThan DEF Commands, Service
  <2> QED BY <1>1, <2>1, <2>2, <2>3
<1>3. c \in {"back up", "copy from old", "promote", "rename"}
          => "copy from app" \notin rest /\ "remove old" \notin rest
      BY <1>1, LaterThan DEF Service
<1>4. c \in {"copy from old", "promote", "rename"} => "back up" \notin rest
      BY <1>1, LaterThan DEF Service
<1>5. c \in {"promote", "rename"} => "copy from old" \notin rest
      BY <1>1, LaterThan DEF Service
<1>6. c \in {"start", "check"} => rest = {}
  <2> SUFFICES ASSUME c \in {"start", "check"}, NEW d \in rest PROVE FALSE
      OBVIOUS
  <2>1. d \in {"write pid", "check"} /\ c = "start"
        BY <1>1, LaterThan DEF Commands
  <2> QED BY <1>1, <2>1 DEF Shape, todo
<1>7. Shape(Tail(s))
  <2>1. "stop" \in rest \/ "wait" \in rest => c = "stop" /\ "wait" \in rest
        BY <1>1, <1>2
  <2>2. "stop" \in rest \/ "wait" \in rest
            => "back up" \in rest \/ rest \cap {"promote", "rename"} = {}
        BY <1>1, <2>1 DEF Shape, todo
  <2> QED BY <1>1, <1>3, <2>2 DEF Shape, todo, rest
<1>8. /\ c # "write pid" => "write pid" \notin todo
      /\ c = "write pid" => rest \subseteq {"check"}
  <2>1. "write pid" \in rest => c = "check"
        BY <1>1 DEF Shape, todo
  <2> QED BY <1>1, <2>1, LaterThan
<1> QED BY <1>1, <1>2, <1>3, <1>4, <1>5, <1>6, <1>7, <1>8 DEF c, todo, rest

-------------------------------------------------------------------------------

Typed == /\ {app, old, new} \subseteq Tree \cup {None}
         /\ pid_file \in Pids \cup {None}
         /\ launched \in Pids \cup {None}
         /\ process \in [Pids -> {"free", "server", "stopping", "other"}]
         /\ failures \in 0 .. MaxFailures
         /\ password_set \in BOOLEAN

\* The commands that exchange the trees
Exchange == {"stage", "copy from app", "remove old", "back up", "copy from old", "promote",
             "rename"}

\* Where the trees are, by the commands to come
TreesPlaced ==
    LET todo == Todo(script)
    IN  /\ "back up" \in todo /\ "stop" \notin todo => app # None
        /\ /\ todo \cap {"copy from app", "copy from old", "promote", "rename"} # {}
           /\ "stage" \notin todo
           => new # None
        /\ "copy from old" \in todo /\ "back up" \notin todo => old # None
        /\ todo \cap {"promote", "rename"} # {} /\ "back up" \notin todo => app = None

\* What is known of the servers' PIDs: once a script has stopped the server the file is
\* gone, and with the tree only stale ones could be moved away; and a server is launched
\* when the file names none.
PidPlaced ==
    LET todo == Todo(script)
    IN  /\ todo \cap Exchange # {} /\ todo \cap {"stop", "wait"} = {} => pid_file = None
        /\ "write pid" \in todo <=> launched # None
        /\ launched # None /\ pid_file \in Servers => pid_file = launched

\* Each server out of reach has its failure.
Tracked == IsFiniteSet(Untracked) /\ Cardinality(Untracked) <= failures

SafeDeployment == Typed /\ Shape(script) /\ TreesPlaced /\ PidPlaced /\ Tracked

LEMMA Trees == /\ EmptyTree \in Tree /\ FreshTree \in Tree
               /\ [FreshTree EXCEPT !.password = TRUE] \in Tree
               /\ [FreshTree EXCEPT !.package = "part"] \in Tree
               /\ None \notin Tree /\ None \notin Pids
BY DeploymentAssumption DEF EmptyTree, FreshTree, Tree

\* Another failure keeps to the bound.
LEMMA FailuresTyped ==
    ASSUME Typed, failures' = failures \/ MayFail
    PROVE  /\ failures \in Nat /\ failures' \in Nat /\ failures' \in 0 .. MaxFailures
           /\ failures' = failures \/ failures' = failures + 1
<1>1. MaxFailures \in Nat /\ failures \in 0 .. MaxFailures
      BY DeploymentAssumption DEF Typed
<1>2. \/ failures' = failures
      \/ failures < MaxFailures /\ failures' = failures + 1
      BY DEF MayFail
<1> QED BY <1>1, <1>2

LEMMA InitSafe == Init => SafeDeployment
<1> SUFFICES ASSUME Init PROVE SafeDeployment
    OBVIOUS
<1>1. Typed
  <2>1. app \in Tree /\ app.password \in BOOLEAN
        BY Trees DEF Init, Tree
  <2> QED BY <2>1, DeploymentAssumption DEF Init, Typed
<1>2. Shape(script)
      BY Shapes DEF Init
<1>3. TreesPlaced /\ PidPlaced
      BY Scripts DEF Init, TreesPlaced, PidPlaced
<1>4. Tracked
  <2>1. Untracked = {}
        BY DEF Init, Untracked, Servers
  <2> QED BY <2>1, FS_EmptySet DEF Init, Tracked
<1> QED BY <1>1, <1>2, <1>3, <1>4 DEF SafeDeployment

\* A step that puts no server out of reach, or one at the price of a failure
LEMMA Charged ==
    ASSUME Typed, Tracked, failures' \in Nat,
           \/ Untracked' \subseteq Untracked /\ failures' >= failures
           \/ /\ failures' = failures + 1
              /\ \E x : Untracked' \subseteq Untracked \cup {x}
    PROVE  Tracked'
<1> USE DEF Tracked
<1>1. failures \in Nat /\ Cardinality(Untracked) \in Nat
      BY FS_CardinalityType, DeploymentAssumption DEF Typed
<1>2. CASE Untracked' \subseteq Untracked /\ failures' >= failures
  <2>1. IsFiniteSet(Untracked') /\ Cardinality(Untracked') <= Cardinality(Untracked)
        BY <1>2, FS_Subset
  <2>2. Cardinality(Untracked') \in Nat
        BY <2>1, FS_CardinalityType
  <2> QED BY <1>1, <1>2, <2>1, <2>2
<1>3. ASSUME NEW x, failures' = failures + 1, Untracked' \subseteq Untracked \cup {x}
      PROVE  Tracked'
  <2>1. /\ IsFiniteSet(Untracked \cup {x})
        /\ Cardinality(Untracked \cup {x}) <= Cardinality(Untracked) + 1
        /\ Cardinality(Untracked \cup {x}) \in Nat
    <3>1. /\ IsFiniteSet(Untracked \cup {x})
          /\ Cardinality(Untracked \cup {x}) =
                 IF x \in Untracked THEN Cardinality(Untracked) ELSE Cardinality(Untracked) + 1
          BY FS_AddElement
    <3> QED BY <1>1, <3>1
  <2>2. IsFiniteSet(Untracked') /\ Cardinality(Untracked') <= Cardinality(Untracked \cup {x})
        BY <1>3, <2>1, FS_Subset
  <2>3. Cardinality(Untracked') \in Nat
        BY <2>2, FS_CardinalityType
  <2> QED BY <1>1, <1>3, <2>1, <2>2, <2>3
<1> QED BY <1>2, <1>3

\* A step that has nothing to do with processes, PID file or commands for either
LEMMA Untouched ==
    ASSUME SafeDeployment, Typed', UNCHANGED <<pid_file, launched, process>>,
           failures' = failures \/ failures' = failures + 1
    PROVE  Tracked'
<1>1. Untracked' = Untracked
      BY DEF Untracked, Servers
<1>2. failures \in Nat /\ failures' \in Nat /\ failures' >= failures
      BY DeploymentAssumption DEF SafeDeployment, Typed
<1> QED BY <1>1, <1>2, Charged DEF SafeDeployment

\* The script advances: what was said of the next command holds of the rest.
LEMMA Goes ==
    ASSUME Shape(script), NEW c, Do(c), script' = Tail(script)
    PROVE  /\ Shape(script)' /\ c \in Todo(script) /\ Todo(script)' = Todo(script) \ {c}
<1>1. script # <<>> /\ Head(script) = c
      BY DEF Do
<1>2. Shape(Tail(script)) /\ c \in Todo(script) /\ Todo(Tail(script)) = Todo(script) \ {c}
      BY <1>1, ToCome
<1>3. Shape(script)' <=> Shape(script')
      BY DEF Shape, Ordered, Todo
<1>4. Todo(script)' = Todo(script')
      BY DEF Todo
<1> QED BY <1>2, <1>3, <1>4

\* MakeApp leaves a tree.
LEMMA AppMade == ASSUME Typed, MakeApp PROVE app' \in Tree /\ (app # None => app' = app)
BY Trees DEF Typed, MakeApp

\* A launched server has its PID written and is checked, and a stopped one is waited
\* for, before the rest.
LEMMA WriteAndCheck == /\ Shape(<<"write pid", "check">>)
                       /\ Todo(<<"write pid", "check">>) = {"write pid", "check"}
<1>1. ASSUME NEW s \in Seq(Commands), Len(s) = 2, s[1] = "write pid", s[2] = "check"
      PROVE  Shape(s) /\ Todo(s) = {"write pid", "check"}
  <2>1. {s[2]} \subseteq Later[s[1]]
        BY <1>1, LaterThan, Zenon
  <2>2. Ordered(s) /\ Todo(s) = {"write pid", "check"}
        BY <1>1, <2>1, OrderedTwo
  <2> QED BY <2>2 DEF Shape
<1> DEFINE next == <<"write pid", "check">>
<1>2. next \in Seq(Commands) /\ Len(next) = 2 /\ next[1] = "write pid" /\ next[2] = "check"
      BY DEF Commands
<1> HIDE DEF next
<1>3. Shape(next) /\ Todo(next) = {"write pid", "check"}
      BY <1>1, <1>2
<1> QED BY <1>3 DEF next

LEMMA EmptyAppended == \A a, b : <<a, b>> \o <<>> = <<a, b>>
OBVIOUS

LEMMA NothingTodo ==
    ASSUME NEW s, Shape(s), Todo(s) = {}
    PROVE  s = <<>>
<1>1. s \in Seq(Commands)
      BY DEF Shape, Ordered
<1>2. Len(s) = 0
  <2> SUFFICES ASSUME Len(s) # 0 PROVE FALSE
      OBVIOUS
  <2>1. 1 \in 1 .. Len(s)
        BY <1>1
  <2> QED BY <2>1 DEF Todo
<1> QED BY <1>1, <1>2

LEMMA GoesToWrite ==
    ASSUME Shape(script), Do("start"), script' = <<"write pid", "check">> \o Tail(script)
    PROVE  Shape(script)' /\ Todo(script)' = {"write pid", "check"}
<1>1. Tail(script) = <<>>
  <2>1. script # <<>> /\ Head(script) = "start"
        BY DEF Do
  <2>2. Shape(Tail(script)) /\ Todo(Tail(script)) = {}
        BY <2>1, ToCome
  <2> QED BY <2>2, NothingTodo
<1>2. script' = <<"write pid", "check">>
      BY <1>1, EmptyAppended, Zenon
<1>3. Shape(script') /\ Todo(script') = {"write pid", "check"}
      BY <1>2, WriteAndCheck, Zenon
<1>4. (Shape(script)' <=> Shape(script')) /\ Todo(script)' = Todo(script')
      BY DEF Shape, Ordered, Todo
<1> QED BY <1>3, <1>4

LEMMA GoesToWait ==
    ASSUME Shape(script), Do("stop"), script' = <<"wait">> \o Tail(script)
    PROVE  Shape(script)' /\ Todo(script)' = {"wait"} \cup (Todo(script) \ {"stop"})
<1> DEFINE rest == Tail(script)
           next == <<"wait">> \o rest
<1>1. script # <<>> /\ Head(script) = "stop" /\ "wait" \in Commands
      BY DEF Do, Commands
<1>2. /\ Shape(rest) /\ Todo(rest) = Todo(script) \ {"stop"} /\ "stop" \in Todo(script)
      /\ \A d \in Todo(rest) : d \in Commands
  <2>1. Shape(rest) /\ Todo(rest) = Todo(script) \ {"stop"} /\ "stop" \in Todo(script)
        BY <1>1, ToCome
  <2>2. Ordered(script)
        BY DEF Shape
  <2> QED BY <1>1, <2>1, <2>2, Advance
<1>3. \A d \in Todo(rest) : d \in Later["wait"]
  <2>1. "wait" \notin Todo(rest) /\ "stop" \notin Todo(rest)
        BY <1>2 DEF Shape
  <2> QED BY <1>2, <2>1, LaterThan
<1>4. Ordered(next) /\ Todo(next) = {"wait"} \cup Todo(rest)
      BY <1>1, <1>2, <1>3, Replace DEF Shape
<1>5. Shape(next)
      BY <1>2, <1>4 DEF Shape
<1>6. (Shape(script)' <=> Shape(script')) /\ Todo(script)' = Todo(script')
      BY DEF Shape, Ordered, Todo
<1> QED BY <1>2, <1>4, <1>5, <1>6

LEMMA StartSafe == SafeDeployment /\ StartServer => SafeDeployment'
<1> SUFFICES ASSUME SafeDeployment, StartServer PROVE SafeDeployment'
    OBVIOUS
<1> USE DEF SafeDeployment
<1>1. Do("start") /\ app' \in Tree
      BY AppMade DEF StartServer
<1>2. /\ Todo(Tail(script)) = {} /\ Shape(Tail(script)) /\ "write pid" \notin Todo(script)
      /\ launched = None
  <2>1. Todo(Tail(script)) = {} /\ Shape(Tail(script)) /\ "write pid" \notin Todo(script)
        BY <1>1, ToCome DEF Do
  <2> QED BY <2>1 DEF PidPlaced
<1>3. Typed'
  <2>1. {app, old, new}' \subseteq Tree \cup {None}
        BY <1>1 DEF StartServer, Typed
  <2>2. /\ launched' \in Pids \cup {None}
        /\ process' \in [Pids -> {"free", "server", "stopping", "other"}]
        BY DEF StartServer, Typed
  <2> QED BY <2>1, <2>2 DEF StartServer, Typed
<1>4. CASE script' = Tail(script) /\ UNCHANGED <<process, launched>>
  <2>1. Shape(script)' /\ Todo(script)' = {}
    <3>1. Shape(script)'
          BY <1>1, <1>4, Goes
    <3>2. Todo(script)' = Todo(Tail(script))
          BY <1>4 DEF Todo
    <3> QED BY <1>2, <3>1, <3>2
  <2>2. TreesPlaced' /\ PidPlaced'
        BY <1>2, <1>4, <2>1 DEF TreesPlaced, PidPlaced
  <2>3. Tracked'
        BY <1>3, <1>4, Untouched DEF StartServer
  <2> QED BY <1>3, <2>1, <2>2, <2>3
<1>5. ASSUME NEW p \in Pids, ~ is_running, process[p] = "free", launched' = p,
             process' = [process EXCEPT ![p] = "server"],
             script' = <<"write pid", "check">> \o Tail(script)
      PROVE  SafeDeployment'
  <2>1. Shape(script)' /\ Todo(script)' = {"write pid", "check"}
        BY <1>1, <1>5, GoesToWrite
  <2>2. pid_file' = pid_file /\ pid_file \notin Servers /\ None \notin Pids
        BY <1>5, Trees DEF StartServer, is_running, Servers
  <2>3. Servers' = Servers \cup {p} /\ p \notin Servers
        BY <1>5 DEF Servers, Typed
  <2>4. Untracked' \subseteq Untracked
        BY <1>2, <1>5, <2>2, <2>3, Trees DEF Untracked, Servers
  <2>5. Tracked'
    <3>1. failures' = failures
          BY DEF StartServer
    <3>2. failures \in Nat
          BY <3>1, FailuresTyped
    <3> QED BY <2>4, <3>1, <3>2, Charged
  <2>6. TreesPlaced' /\ PidPlaced'
        BY <1>5, <2>1, <2>2, <2>3 DEF TreesPlaced, PidPlaced, Exchange
  <2> QED BY <1>3, <2>1, <2>5, <2>6
<1> QED BY <1>4, <1>5 DEF StartServer

LEMMA WritePidSafe == SafeDeployment /\ WritePid => SafeDeployment'
<1> SUFFICES ASSUME SafeDeployment, WritePid PROVE SafeDeployment'
    OBVIOUS
<1> USE DEF SafeDeployment
<1>1. /\ Do("write pid") /\ script' = Tail(script) /\ launched' = None
      /\ UNCHANGED <<trees, process, password_set>>
      BY DEF WritePid
<1>2. Shape(script)' /\ Todo(script)' \subseteq {"check"} /\ "write pid" \in Todo(script)
  <2>1. Todo(Tail(script)) \subseteq {"check"}
        BY <1>1, ToCome DEF Do
  <2> QED BY <1>1, <2>1, Goes DEF Todo
<1>3. /\ launched # None /\ launched \in Pids
      /\ pid_file \in Servers => pid_file = launched
      BY <1>2 DEF PidPlaced, Typed
<1>4. /\ failures \in Nat /\ failures' \in 0 .. MaxFailures
      /\ pid_file' \in Pids \cup {None}
  <2>1. pid_file' \in {launched, pid_file, None} /\ (failures' = failures \/ MayFail)
        BY DEF WritePid
  <2> QED BY <2>1, FailuresTyped DEF Typed
<1>5. Typed'
      BY <1>1, <1>4 DEF Typed, trees
<1>6. Servers' = Servers /\ None \notin Servers
      BY <1>1, Trees DEF Servers
<1>7. Tracked'
  <2>1. CASE pid_file' = launched /\ UNCHANGED failures
    <3>1. Untracked' \subseteq Untracked
          BY <1>1, <1>3, <1>6, <2>1 DEF Untracked
    <3> QED BY <1>4, <2>1, <3>1, Charged
  <2>2. CASE pid_file' \in {pid_file, None} /\ MayFail
    <3>1. Untracked' \subseteq Untracked \cup {launched}
          BY <1>1, <1>3, <1>6, <2>2 DEF Untracked
    <3>2. failures' = failures + 1 /\ failures' \in Nat
          BY <1>4, <2>2 DEF MayFail
    <3> QED BY <3>1, <3>2, Charged
  <2> QED BY <2>1, <2>2 DEF WritePid
<1>8. TreesPlaced' /\ PidPlaced'
      BY <1>1, <1>2 DEF TreesPlaced, PidPlaced, Exchange
<1> QED BY <1>2, <1>5, <1>7, <1>8

LEMMA CheckSafe == SafeDeployment /\ CheckServer => SafeDeployment'
<1> SUFFICES ASSUME SafeDeployment, CheckServer PROVE SafeDeployment'
    OBVIOUS
<1> USE DEF SafeDeployment
<1>1. Shape(script)' /\ Todo(script)' = {} /\ "write pid" \notin Todo(script)
  <2>1. script # <<>> /\ Head(script) = "check" /\ script' = Tail(script)
        BY DEF CheckServer, Do
  <2>2. Todo(Tail(script)) = {} /\ "write pid" \notin Todo(script)
        BY <2>1, ToCome
  <2> QED BY <2>1, <2>2, Goes DEF CheckServer, Todo
<1>2. Typed'
      BY DEF CheckServer, Typed, trees
<1>3. TreesPlaced' /\ PidPlaced'
      BY <1>1 DEF CheckServer, TreesPlaced, PidPlaced
<1>4. Tracked'
  <2>1. Servers' = Servers /\ None \notin Servers
        BY Trees DEF CheckServer, Servers
  <2>2. ~ is_running => pid_file \notin Servers
        BY Trees DEF is_running, Servers
  <2>3. Untracked' \subseteq Untracked
        BY <2>1, <2>2 DEF CheckServer, Untracked
  <2>4. failures' = failures /\ failures \in Nat
        BY DeploymentAssumption DEF CheckServer, Typed
  <2> QED BY <2>3, <2>4, Charged
<1> QED BY <1>1, <1>2, <1>3, <1>4

LEMMA StopSafe == SafeDeployment /\ StopServer => SafeDeployment'
<1> SUFFICES ASSUME SafeDeployment, StopServer PROVE SafeDeployment'
    OBVIOUS
<1> USE DEF SafeDeployment
<1>1. /\ Do("stop") /\ app' \in Tree /\ app' # None
      /\ UNCHANGED <<old, new, launched, failures>>
      BY AppMade, Trees DEF StopServer
<1>2. "stop" \in Todo(script) /\ "write pid" \notin Todo(script) /\ launched = None
  <2>1. "stop" \in Todo(script) /\ "write pid" \notin Todo(script)
        BY <1>1, ToCome DEF Do
  <2> QED BY <2>1 DEF PidPlaced
<1>3. Typed'
  <2>1. process' \in [Pids -> {"free", "server", "stopping", "other"}]
        BY DEF StopServer, Typed
  <2>2. pid_file' \in Pids \cup {None}
        BY DEF StopServer, Typed
  <2> QED BY <1>1, <2>1, <2>2 DEF StopServer, Typed
<1>4. failures' = failures /\ failures \in Nat
      BY <1>1, DeploymentAssumption DEF Typed
<1>5. CASE ~ is_running
  <2>1. UNCHANGED process /\ pid_file' = None /\ script' = Tail(script)
        BY <1>5 DEF StopServer
  <2>2. Shape(script)' /\ Todo(script)' = Todo(script) \ {"stop"}
        BY <1>1, <2>1, Goes
  <2>3. pid_file \notin Servers /\ Servers' = Servers
        BY <1>5, <2>1, Trees DEF is_running, Servers
  <2>4. Tracked'
    <3>1. Untracked' \subseteq Untracked
          BY <1>1, <2>3 DEF Untracked
    <3> QED BY <1>4, <3>1, Charged
  <2>5. TreesPlaced' /\ PidPlaced'
        BY <1>1, <1>2, <2>1, <2>2 DEF TreesPlaced, PidPlaced, Shape
  <2> QED BY <1>3, <2>2, <2>4, <2>5
<1>6. CASE is_running
  <2>1. script' = <<"wait">> \o Tail(script) /\ pid_file' = pid_file
        BY <1>6 DEF StopServer
  <2>2. Shape(script)' /\ Todo(script)' = {"wait"} \cup (Todo(script) \ {"stop"})
        BY <1>1, <2>1, GoesToWait
  <2>3. Servers' = Servers
        BY <1>6 DEF StopServer, Servers, Typed
  <2>4. Tracked'
    <3>1. Untracked' \subseteq Untracked
          BY <1>1, <2>1, <2>3 DEF Untracked
    <3> QED BY <1>4, <3>1, Charged
  <2>5. TreesPlaced' /\ PidPlaced'
        BY <1>1, <1>2, <2>1, <2>2 DEF TreesPlaced, PidPlaced, Shape
  <2> QED BY <1>3, <2>2, <2>4, <2>5
<1> QED BY <1>5, <1>6

LEMMA WaitSafe == SafeDeployment /\ WaitForServer => SafeDeployment'
<1> SUFFICES ASSUME SafeDeployment, WaitForServer PROVE SafeDeployment'
    OBVIOUS
<1> USE DEF SafeDeployment
<1>1. /\ Do("wait") /\ script' = Tail(script) /\ pid_file' = None
      /\ UNCHANGED <<trees, launched, failures>>
      BY DEF WaitForServer
<1>2. Shape(script)' /\ "wait" \in Todo(script) /\ Todo(script)' = Todo(script) \ {"wait"}
      BY <1>1, Goes
<1>3. "stop" \notin Todo(script) /\ "write pid" \notin Todo(script) /\ launched = None
  <2>1. "stop" \notin Todo(script) /\ "write pid" \notin Todo(script)
        BY <1>1, ToCome DEF Do
  <2> QED BY <2>1 DEF PidPlaced
<1>4. Typed'
  <2>1. process' \in [Pids -> {"free", "server", "stopping", "other"}]
        BY DEF WaitForServer, Typed
  <2> QED BY <1>1, <2>1 DEF WaitForServer, Typed, trees
<1>5. Tracked'
  <2>1. Servers' \subseteq Servers \ {pid_file}
    <3>1. CASE is_running
          BY <3>1 DEF WaitForServer, is_running, Servers, Typed
    <3>2. CASE ~ is_running
          BY <3>2, Trees DEF WaitForServer, is_running, Servers
    <3> QED BY <3>1, <3>2
  <2>2. Untracked' \subseteq Untracked
        BY <1>1, <2>1 DEF Untracked
  <2>3. failures' = failures /\ failures \in Nat
        BY <1>1, DeploymentAssumption DEF Typed
  <2> QED BY <2>2, <2>3, Charged
<1>6. TreesPlaced' /\ PidPlaced'
      BY <1>1, <1>2, <1>3 DEF TreesPlaced, PidPlaced, Shape, trees
<1> QED BY <1>2, <1>4, <1>5, <1>6

\* The commands that exchange the trees run when the PID file is gone.
LEMMA ExchangeQuiet ==
    ASSUME SafeDeployment, NEW c \in Exchange, Do(c)
    PROVE  /\ c \in Todo(script) /\ "stop" \notin Todo(script)
           /\ c # "stage" => "stage" \notin Todo(script)
           /\ pid_file = None /\ launched = None /\ "write pid" \notin Todo(script)
<1>1. /\ c \in Todo(script) /\ "stop" \notin Todo(script) /\ "wait" \notin Todo(script)
      /\ c # "stage" => "stage" \notin Todo(script)
      /\ "write pid" \notin Todo(script)
  <2>1. c # "stop" /\ c # "wait" /\ c # "write pid"
        BY DEF Exchange
  <2> QED BY <2>1, ToCome DEF SafeDeployment, Do
<1> QED BY <1>1 DEF SafeDeployment, PidPlaced

\* They leave the file and the processes alone.
LEMMA ExchangePids ==
    ASSUME SafeDeployment, Typed', NEW c \in Exchange, Do(c), pid_file' = None,
           UNCHANGED <<launched, process>>, failures' = failures \/ failures' = failures + 1,
           Todo(script)' \subseteq Todo(script)
    PROVE  PidPlaced' /\ Tracked'
<1>1. pid_file = None /\ launched = None /\ "write pid" \notin Todo(script)
      BY ExchangeQuiet
<1>2. PidPlaced'
      BY <1>1 DEF PidPlaced
<1> QED BY <1>1, <1>2, Untouched

LEMMA StageSafe == SafeDeployment /\ Stage => SafeDeployment'
<1> SUFFICES ASSUME SafeDeployment, Stage PROVE SafeDeployment'
    OBVIOUS
<1> USE DEF SafeDeployment
<1>1. /\ Do("stage") /\ script' = Tail(script)
      /\ UNCHANGED <<app, old, pid_file, launched, process>>
      /\ new' \in Tree /\ new' # None /\ (failures' = failures \/ MayFail)
      BY Trees DEF Stage
<1>2. pid_file = None /\ "stop" \notin Todo(script)
      BY <1>1, ExchangeQuiet DEF Exchange
<1>3. Shape(script)' /\ Todo(script)' = Todo(script) \ {"stage"}
      BY <1>1, Goes
<1>4. Typed'
      BY <1>1, DeploymentAssumption DEF Stage, MayFail, Typed
<1>5. PidPlaced' /\ Tracked'
      BY <1>1, <1>2, <1>3, <1>4, ExchangePids DEF Exchange, MayFail
<1>6. TreesPlaced'
      BY <1>1, <1>2, <1>3 DEF TreesPlaced
<1> QED BY <1>3, <1>4, <1>5, <1>6

\* What a tree is after a removal or a copy that was cut off
LEMMA PartTrees ==
    ASSUME NEW tree \in Tree
    PROVE  [package : {"part"}, password : {FALSE, tree.password}] \subseteq Tree
BY DEF Tree

\* A script that is cut off has nothing left to do.
LEMMA CutOff == script' = <<>> => Shape(script)' /\ Todo(script)' = {}
<1>1. (Shape(script)' <=> Shape(script')) /\ Todo(script)' = Todo(script')
      BY DEF Shape, Ordered, Todo
<1> QED BY <1>1, Shapes, Scripts

LEMMA RemoveOldSafe == SafeDeployment /\ RemoveOld => SafeDeployment'
<1> SUFFICES ASSUME SafeDeployment, RemoveOld PROVE SafeDeployment'
    OBVIOUS
<1> USE DEF SafeDeployment
<1>1. /\ Do("remove old")
      /\ UNCHANGED <<app, new, pid_file, launched, process, password_set>>
      BY DEF RemoveOld
<1>2. /\ pid_file = None /\ "remove old" \in Todo(script) /\ "stop" \notin Todo(script)
      /\ "stage" \notin Todo(script)
      BY <1>1, ExchangeQuiet DEF Exchange
<1>3. CASE old' = None /\ script' = Tail(script) /\ UNCHANGED failures
  <2>1. Shape(script)' /\ Todo(script)' = Todo(script) \ {"remove old"}
        BY <1>1, <1>3, Goes
  <2>2. "back up" \in Todo(script)'
        BY <1>2, <2>1 DEF Shape
  <2>3. Typed'
        BY <1>1, <1>3 DEF Typed
  <2>4. PidPlaced' /\ Tracked'
        BY <1>1, <1>2, <1>3, <2>1, <2>3, ExchangePids DEF Exchange
  <2>5. TreesPlaced'
        BY <1>1, <1>2, <2>1, <2>2 DEF TreesPlaced
  <2> QED BY <2>1, <2>3, <2>4, <2>5
<1>4. CASE /\ old # None
           /\ old' \in [package : {"part"}, password : {FALSE, old.password}]
           /\ script' = <<>>
           /\ MayFail
  <2>1. Shape(script)' /\ Todo(script)' = {}
        BY <1>4, CutOff
  <2>2. old' \in Tree
        BY <1>4, PartTrees DEF Typed
  <2>3. Typed'
        BY <1>1, <1>4, <2>2, FailuresTyped DEF Typed
  <2>4. PidPlaced' /\ Tracked'
        BY <1>1, <1>2, <1>4, <2>1, <2>3, ExchangePids DEF Exchange, MayFail
  <2>5. TreesPlaced'
        BY <2>1 DEF TreesPlaced
  <2> QED BY <2>1, <2>3, <2>4, <2>5
<1> QED BY <1>3, <1>4 DEF RemoveOld

LEMMA BackUpSafe == SafeDeployment /\ BackUp => SafeDeployment'
<1> SUFFICES ASSUME SafeDeployment, BackUp PROVE SafeDeployment'
    OBVIOUS
<1> USE DEF SafeDeployment
<1>1. /\ Do("back up") /\ script' = Tail(script)
      /\ UNCHANGED <<new, launched, process, failures, password_set>>
      /\ old' = app /\ app' = None /\ pid_file' = None
      BY DEF BackUp
<1>2. /\ "back up" \in Todo(script) /\ "stop" \notin Todo(script)
      /\ "stage" \notin Todo(script)
      BY <1>1, ExchangeQuiet DEF Exchange
<1>3. Shape(script)' /\ Todo(script)' = Todo(script) \ {"back up"}
      BY <1>1, Goes
<1>4. app # None
      BY <1>2 DEF TreesPlaced
<1>5. Typed'
      BY <1>1 DEF Typed
<1>6. PidPlaced' /\ Tracked'
      BY <1>1, <1>3, <1>5, ExchangePids DEF Exchange
<1>7. TreesPlaced'
      BY <1>1, <1>2, <1>3, <1>4 DEF TreesPlaced
<1> QED BY <1>3, <1>5, <1>6, <1>7

LEMMA CopyPasswordSafe == SafeDeployment /\ CopyPassword => SafeDeployment'
<1> SUFFICES ASSUME SafeDeployment, CopyPassword PROVE SafeDeployment'
    OBVIOUS
<1> USE DEF SafeDeployment
<1>1. PICK c \in {"copy from old", "copy from app"} : Do(c)
      BY DEF CopyPassword
<1>2. /\ script' = Tail(script) /\ (failures' = failures \/ MayFail)
      /\ UNCHANGED <<app, old, pid_file, launched, process, password_set>>
      BY DEF CopyPassword
<1>3. /\ pid_file = None /\ c \in Todo(script) /\ "stop" \notin Todo(script)
      /\ "stage" \notin Todo(script)
      BY <1>1, ExchangeQuiet DEF Exchange
<1>4. Shape(script)' /\ Todo(script)' = Todo(script) \ {c}
      BY <1>1, <1>2, Goes
<1>5. new \in Tree
      BY <1>3 DEF TreesPlaced, Typed
<1>6. new' \in Tree
  <2>1. CASE Do("copy from old") /\ new' = [new EXCEPT !.password = @ \/ old.password]
    <3>1. old \in Tree
      <4>1. "copy from old" \in Todo(script) /\ "back up" \notin Todo(script)
            BY <2>1, ToCome DEF Do
      <4> QED BY <4>1 DEF TreesPlaced, Typed
    <3> QED BY <1>5, <2>1, <3>1 DEF Tree
  <2>2. CASE Do("copy from app") /\ new' = [new EXCEPT !.password = @ \/ app.password]
    <3>1. app \in Tree
      <4>1. "copy from app" \in Todo(script)
            BY <2>2, ToCome DEF Do
      <4> QED BY <1>3, <4>1 DEF TreesPlaced, Typed, Shape
    <3> QED BY <1>5, <2>2, <3>1 DEF Tree
  <2>3. CASE new' \in {new, [new EXCEPT !.password = FALSE]}
        BY <1>5, <2>3 DEF Tree
  <2> QED BY <2>1, <2>2, <2>3 DEF CopyPassword
<1>7. Typed'
      BY <1>2, <1>6, FailuresTyped DEF Typed
<1>8. PidPlaced' /\ Tracked'
      BY <1>1, <1>2, <1>3, <1>4, <1>7, ExchangePids DEF Exchange, MayFail
<1>9. TreesPlaced'
      BY <1>2, <1>3, <1>4, <1>6, Trees DEF TreesPlaced
<1> QED BY <1>4, <1>7, <1>8, <1>9

LEMMA PromoteSafe == SafeDeployment /\ Promote => SafeDeployment'
<1> SUFFICES ASSUME SafeDeployment, Promote PROVE SafeDeployment'
    OBVIOUS
<1> USE DEF SafeDeployment
<1>1. PICK c \in {"promote", "rename"} : Do(c)
      BY DEF Promote
<1>2. /\ pid_file = None /\ c \in Todo(script) /\ "stop" \notin Todo(script)
      /\ "stage" \notin Todo(script)
      BY <1>1, ExchangeQuiet DEF Exchange
<1>3. /\ "copy from app" \notin Todo(script) /\ "remove old" \notin Todo(script)
      /\ "back up" \notin Todo(script) /\ "copy from old" \notin Todo(script)
      /\ "wait" \notin Todo(script)
      BY <1>1, ToCome DEF Do
<1>4. new \in Tree
      BY <1>2 DEF TreesPlaced, Typed
<1>5. /\ UNCHANGED <<old, pid_file, launched, process, password_set>>
      /\ app' \in Tree /\ new' \in Tree \cup {None}
      /\ failures' = failures \/ MayFail
      /\ script' = Tail(script) \/ script' = <<>>
      BY <1>4, PartTrees DEF Promote
<1>6. /\ Shape(script)' /\ Todo(script)' \cap Exchange = {}
      /\ Todo(script)' \subseteq Todo(script)
  <2>1. CASE script' = Tail(script)
    <3>1. Shape(script)' /\ Todo(script)' = Todo(script) \ {c}
          BY <1>1, <2>1, Goes
    <3> QED BY <1>1, <1>2, <1>3, <3>1 DEF Shape, Exchange
  <2>2. CASE script' = <<>>
        BY <2>2, CutOff
  <2> QED BY <1>5, <2>1, <2>2
<1>7. Typed'
      BY <1>5, DeploymentAssumption DEF Typed, MayFail
<1>8. PidPlaced' /\ Tracked'
      BY <1>1, <1>2, <1>5, <1>6, <1>7, ExchangePids DEF Exchange, MayFail
<1>9. TreesPlaced'
      BY <1>6 DEF TreesPlaced, Exchange
<1> QED BY <1>6, <1>7, <1>8, <1>9

\* What the administrator does while no script runs
LEMMA AtRestSafe ==
    SafeDeployment /\ (RunService \/ RunUpdate \/ Upload \/ SetPassword) => SafeDeployment'
<1> SUFFICES ASSUME SafeDeployment, RunService \/ RunUpdate \/ Upload \/ SetPassword
             PROVE  SafeDeployment'
    OBVIOUS
<1> USE DEF SafeDeployment
<1>0. (Shape(script)' <=> Shape(script')) /\ Todo(script)' = Todo(script')
      BY DEF Shape, Ordered, Todo
<1>1. /\ script = <<>> /\ Todo(script) = {} /\ launched = None
      /\ UNCHANGED <<pid_file, launched, process>>
  <2>1. script = <<>> /\ UNCHANGED <<pid_file, launched, process>>
        BY DEF RunService, RunUpdate, Upload, SetPassword
  <2> QED BY <2>1, Scripts DEF PidPlaced
<1>2. Typed' /\ (failures' = failures \/ failures' = failures + 1)
  <2>1. CASE RunService \/ RunUpdate
        BY <2>1 DEF RunService, RunUpdate, Typed, trees
  <2>2. CASE Upload
        BY <2>2, Trees, DeploymentAssumption DEF Upload, Typed, MayFail
  <2>3. CASE SetPassword
    <3>1. app' \in Tree
          BY <2>3 DEF SetPassword, Typed, Tree
    <3> QED BY <2>3, <3>1 DEF SetPassword, Typed
  <2> QED BY <2>1, <2>2, <2>3
<1>3. Tracked'
      BY <1>1, <1>2, Untouched
<1>4. CASE RunService
  <2>1. Shape(script)' /\ Todo(script)' \subseteq {"start", "stop"}
        BY <1>0, <1>4, Shapes, Scripts DEF RunService
  <2>2. TreesPlaced' /\ PidPlaced'
        BY <1>1, <2>1 DEF TreesPlaced, PidPlaced, Exchange
  <2> QED BY <1>2, <1>3, <2>1, <2>2
<1>5. CASE RunUpdate /\ script' = UpdateRemote
  <2>1. Shape(script)' /\ Todo(script)' = Todo(UpdateRemote)
        BY <1>0, <1>5, Shapes
  <2>2. TreesPlaced' /\ PidPlaced'
    <3>1. /\ {"stop", "stage", "back up"} \subseteq Todo(script)'
          /\ {"write pid", "copy from old"} \cap Todo(script)' = {}
          BY <2>1, Scripts
    <3> QED BY <1>1, <3>1 DEF TreesPlaced, PidPlaced
  <2> QED BY <1>2, <1>3, <2>1, <2>2
<1>6. CASE RunUpdate /\ script' = UpdateLocal /\ new # None
  <2>1. Shape(script)' /\ Todo(script)' = Todo(UpdateLocal)
        BY <1>0, <1>6, Shapes
  <2>2. UNCHANGED <<app, old, new>>
        BY <1>6 DEF RunUpdate, trees
  <2>3. TreesPlaced' /\ PidPlaced'
        BY <1>1, <1>6, <2>1, <2>2, Scripts DEF TreesPlaced, PidPlaced
  <2> QED BY <1>2, <1>3, <2>1, <2>3
<1>7. CASE Upload \/ SetPassword
  <2>1. Shape(script)' /\ Todo(script)' = {}
        BY <1>0, <1>1, <1>7 DEF Upload, SetPassword
  <2>2. TreesPlaced' /\ PidPlaced'
        BY <1>1, <2>1 DEF TreesPlaced, PidPlaced
  <2> QED BY <1>2, <1>3, <2>1, <2>2
<1> QED BY <1>4, <1>5, <1>6, <1>7 DEF RunUpdate

\* An interrupt may leave the server behind that was being started; a reboot leaves none.
LEMMA CutSafe == SafeDeployment /\ (Interrupt \/ Reboot) => SafeDeployment'
<1> SUFFICES ASSUME SafeDeployment, Interrupt \/ Reboot PROVE SafeDeployment'
    OBVIOUS
<1> USE DEF SafeDeployment
<1>0. (Shape(script)' <=> Shape(script')) /\ Todo(script)' = Todo(script')
      BY DEF Shape, Ordered, Todo
<1>1. failures \in Nat /\ failures' \in 0 .. MaxFailures /\ failures' \in Nat
      BY DeploymentAssumption DEF Interrupt, Reboot, MayFail, Typed
<1>2. launched' = None /\ pid_file' = pid_file
      BY DEF Interrupt, Reboot
<1>3. CASE Interrupt
  <2>1. /\ script' = <<>> /\ UNCHANGED <<trees, process, password_set>>
        /\ failures' = failures + 1
        BY <1>3 DEF Interrupt, MayFail
  <2>2. Shape(script)' /\ Todo(script)' = {}
        BY <2>1, CutOff
  <2>3. Typed'
        BY <1>1, <1>2, <2>1 DEF Typed, trees
  <2>4. Tracked'
    <3>1. Untracked' \subseteq Untracked \cup {launched}
          BY <1>2, <2>1 DEF Untracked, Servers
    <3> QED BY <1>1, <2>1, <3>1, Charged
  <2>5. TreesPlaced' /\ PidPlaced'
        BY <1>2, <2>2 DEF TreesPlaced, PidPlaced
  <2> QED BY <2>2, <2>3, <2>4, <2>5
<1>4. CASE Reboot
  <2>1. /\ script' = Start /\ process' = [p \in Pids |-> "free"]
        /\ new' \in {new, None} /\ UNCHANGED <<app, old, password_set>>
        BY <1>4 DEF Reboot
  <2>2. Shape(script)' /\ Todo(script)' = {"start"}
        BY <1>0, <2>1, Shapes, Scripts
  <2>3. Typed'
        BY <1>1, <1>2, <2>1 DEF Typed
  <2>4. Tracked'
    <3>1. Untracked' = {}
          BY <2>1 DEF Untracked, Servers
    <3> QED BY <1>1, <3>1, FS_EmptySet DEF Tracked
  <2>5. TreesPlaced' /\ PidPlaced'
        BY <1>2, <2>2 DEF TreesPlaced, PidPlaced, Exchange
  <2> QED BY <2>2, <2>3, <2>4, <2>5
<1> QED BY <1>3, <1>4

LEMMA ProcessSafe == SafeDeployment /\ (\E p \in Pids : Process(p)) => SafeDeployment'
<1> SUFFICES ASSUME SafeDeployment, NEW p \in Pids, Process(p) PROVE SafeDeployment'
    OBVIOUS
<1> USE DEF SafeDeployment
<1>1. /\ UNCHANGED <<trees, pid_file, launched, script, failures, password_set>>
      /\ \/ process' = [process EXCEPT ![p] = "free"]
         \/ process' = [process EXCEPT ![p] = "other"]
      BY DEF Process
<1>2. Typed'
      BY <1>1 DEF Typed, trees
<1>3. Servers' \subseteq Servers
      BY <1>1 DEF Typed, Servers
<1>4. (Shape(script)' <=> Shape(script)) /\ Todo(script)' = Todo(script)
      BY <1>1 DEF Shape, Ordered, Todo
<1>5. TreesPlaced' /\ PidPlaced'
      BY <1>1, <1>3, <1>4 DEF TreesPlaced, PidPlaced, trees
<1>6. Tracked'
  <2>1. Untracked' \subseteq Untracked
        BY <1>1, <1>3 DEF Untracked
  <2>2. failures' = failures /\ failures \in Nat
        BY <1>1, DeploymentAssumption DEF Typed
  <2> QED BY <2>1, <2>2, Charged
<1> QED BY <1>2, <1>4, <1>5, <1>6

-------------------------------------------------------------------------------

\* The commands still to come say where the trees are and what the PID file may name;
\* between the launch of a server and the writing of its PID the file names no other
\* one, and each server that got out of its reach there has its failure.
THEOREM DeploymentSafe == Spec => []SafeDeployment
<1>1. SafeDeployment /\ UNCHANGED vars => SafeDeployment'
  <2> SUFFICES ASSUME SafeDeployment, UNCHANGED vars PROVE SafeDeployment'
      OBVIOUS
  <2>1. Shape(script)' <=> Shape(script)
        BY DEF vars, Shape, Ordered, Todo
  <2>2. TreesPlaced' /\ PidPlaced'
        BY DEF vars, trees, SafeDeployment, TreesPlaced, PidPlaced, Todo, Servers
  <2>3. Tracked'
    <3>1. Untracked' = Untracked
          BY DEF vars, Untracked, Servers
    <3> QED BY <3>1 DEF vars, SafeDeployment, Tracked
  <2> QED BY <2>1, <2>2, <2>3 DEF vars, trees, SafeDeployment, Typed
<1>2. SafeDeployment /\ Next => SafeDeployment'
      BY StartSafe, WritePidSafe, CheckSafe, StopSafe, WaitSafe, StageSafe, RemoveOldSafe,
         BackUpSafe, CopyPasswordSafe, PromoteSafe, AtRestSafe, CutSafe, ProcessSafe DEF Next
<1> QED BY InitSafe, <1>1, <1>2, PTL DEF Spec

\* However often scripts are cut off and trees exchanged, stop finds every server, but
\* for one at most for each failure; and but for those no two servers run at once.
THEOREM DeploymentTracked == Spec => []ServerTracked
<1>1. SafeDeployment => ServerTracked
  <2> SUFFICES ASSUME SafeDeployment PROVE ServerTracked
      OBVIOUS
  <2> USE DEF SafeDeployment, Tracked
  <2>1. \E x : Servers \subseteq Untracked \cup {x}
    <3>1. CASE pid_file \in Servers /\ launched # None
          BY <3>1 DEF Untracked, PidPlaced
    <3>2. CASE pid_file \in Servers /\ launched = None
          BY <3>2, Trees DEF Untracked, Servers
    <3>3. CASE pid_file \notin Servers
          BY <3>3 DEF Untracked
    <3> QED BY <3>1, <3>2, <3>3
  <2>2. PICK x : Servers \subseteq Untracked \cup {x}
        BY <2>1
  <2>3. failures \in Nat /\ Cardinality(Untracked) \in Nat
        BY FS_CardinalityType, DeploymentAssumption DEF Typed
  <2>4. /\ IsFiniteSet(Untracked \cup {x})
        /\ Cardinality(Untracked \cup {x}) \in Nat
        /\ Cardinality(Untracked \cup {x}) <= failures + 1
    <3>1. /\ IsFiniteSet(Untracked \cup {x})
          /\ Cardinality(Untracked \cup {x}) =
                 IF x \in Untracked THEN Cardinality(Untracked) ELSE Cardinality(Untracked) + 1
          BY FS_AddElement
    <3> QED BY <2>3, <3>1
  <2>5. /\ Cardinality(Servers) <= Cardinality(Untracked \cup {x})
        /\ Cardinality(Servers) \in Nat
    <3>1. IsFiniteSet(Servers) /\ Cardinality(Servers) <= Cardinality(Untracked \cup {x})
          BY <2>2, <2>4, FS_Subset
    <3> QED BY <3>1, FS_CardinalityType
  <2> QED BY <2>3, <2>4, <2>5 DEF ServerTracked
<1> QED BY <1>1, DeploymentSafe, PTL

\* The trees are where the next command expects them: the new tree is moved to the
\* place of the old one and never into it.
THEOREM DeploymentTyping == Spec => []TypeOK
<1>1. SafeDeployment => TypeOK
  <2> SUFFICES ASSUME SafeDeployment PROVE TypeOK
      OBVIOUS
  <2>1. \A i \in 1 .. Len(script) : script[i] \in Commands
    <3>1. script \in Seq(Commands)
          BY DEF SafeDeployment, Shape, Ordered
    <3> QED BY <3>1
  <2>2. ASSUME NEW c \in {"promote", "rename"}, Do(c) PROVE app = None /\ new # None
    <3>1. c \in Todo(script) /\ "back up" \notin Todo(script) /\ "stage" \notin Todo(script)
          BY <2>2, ToCome DEF SafeDeployment, Do
    <3> QED BY <3>1 DEF SafeDeployment, TreesPlaced
  <2> QED BY <2>1, <2>2 DEF SafeDeployment, Typed, TypeOK
<1> QED BY <1>1, DeploymentSafe, PTL

-------------------------------------------------------------------------------
\* What an update leaves on the board

\* A script that stages a package goes on with it, and one that moves the old tree away
\* or completes the new one goes on to move that in.
Continued ==
    LET todo == Todo(script)
    IN  /\ "stage" \in todo => {"copy from app", "remove old"} \subseteq todo
        /\ todo \cap {"copy from app", "back up", "copy from old"} # {}
               => todo \cap {"promote", "rename"} # {}

\* The old tree has been moved away, the new one is not in its place yet.
Exchanging == "back up" \notin Todo(script) /\ Todo(script) \cap {"promote", "rename"} # {}

HasPassword(tree) == tree # None /\ tree.password

IsWhole(tree) == tree # None /\ tree.package = "whole"

\* Where the password is while no script has failed
PasswordPlaced ==
    LET todo == Todo(script)
    IN  password_set /\ failures = 0 =>
            /\ ~ Exchanging => HasPassword(app)
            /\ Exchanging /\ "copy from old" \in todo => HasPassword(old)
            /\ /\ todo \cap {"promote", "rename"} # {}
               /\ todo \cap {"copy from old", "copy from app"} = {}
               => HasPassword(new)

\* Where whole packages are: the installed one, or the one moved away, while no script
\* has failed; after one that has, the next one has a new package before it removes the
\* old tree.
PackagePlaced ==
    LET todo == Todo(script)
    IN  /\ failures = 0 =>
              /\ IsWhole(IF Exchanging THEN old ELSE app)
              /\ new # None => IsWhole(new)
              /\ todo \cap {"promote", "rename"} # {} /\ "stage" \notin todo => IsWhole(new)
        /\ failures <= 1 =>
              /\ new # None /\ todo \cap Exchange = {} => IsWhole(new) \/ IsWhole(app)
              /\ "back up" \in todo /\ "stage" \notin todo => IsWhole(new) \/ IsWhole(app)
              /\ "remove old" \in todo \/ todo \cap {"back up", "promote", "rename"} = {}
                     => IsWhole(app) \/ IsWhole(old)
              /\ Exchanging => IsWhole(new) \/ IsWhole(old)

Placed == Continued /\ PasswordPlaced /\ PackagePlaced

\* A step that leaves the trees and the commands for them alone, but may fill in what
\* is missing of the installed one
LEMMA PlacedStill ==
    ASSUME Placed, UNCHANGED <<old, new, failures, password_set>>,
           IsWhole(app) => IsWhole(app'), HasPassword(app) => HasPassword(app'),
           \A c \in Exchange : c \in Todo(script)' <=> c \in Todo(script)
    PROVE  Placed'
<1> USE DEF Exchange
<1>1. Exchanging' <=> Exchanging
      BY DEF Exchanging
<1>2. Continued'
      BY DEF Placed, Continued
<1>3. PasswordPlaced'
      BY <1>1 DEF Placed, PasswordPlaced, HasPassword
<1>4. PackagePlaced'
      BY <1>1 DEF Placed, PackagePlaced, IsWhole
<1> QED BY <1>2, <1>3, <1>4 DEF Placed

LEMMA InitPlaced == Init => Placed
<1> SUFFICES ASSUME Init PROVE Placed
    OBVIOUS
<1>1. app # None /\ app.package = "whole" /\ password_set = app.password
  <2>1. FreshTree.package = "whole"
        BY DEF FreshTree
  <2>2. [FreshTree EXCEPT !.password = TRUE].package = FreshTree.package
        BY Trees DEF Tree
  <2> QED BY <2>1, <2>2, Trees DEF Init
<1>2. Todo(script) = {} /\ new = None
      BY Scripts DEF Init
<1>3. Continued /\ PasswordPlaced
      BY <1>1, <1>2 DEF Continued, PasswordPlaced, Exchanging, HasPassword
<1>4. PackagePlaced
      BY <1>1, <1>2 DEF PackagePlaced, Exchanging, IsWhole
<1> QED BY <1>3, <1>4 DEF Placed

LEMMA Counted ==
    ASSUME SafeDeployment
    PROVE  /\ failures = 0 => failures <= 1
           /\ failures' = failures + 1 => failures' # 0 /\ (failures' <= 1 => failures = 0)
<1>1. failures \in Nat
      BY DeploymentAssumption DEF SafeDeployment, Typed
<1> QED BY <1>1

\* A step after which nothing is left of an exchange, and before which nothing was, or
\* else a failure: the installed tree or the one moved away will do.
LEMMA OutsidePlaced ==
    ASSUME SafeDeployment, Placed, UNCHANGED app, Todo(script)' \cap Exchange = {},
           \/ /\ Todo(script) \cap Exchange = {}
              /\ UNCHANGED <<old, failures, password_set>>
              /\ new' \in {new, None} \/ IsWhole(new')
           \/ /\ failures' = failures + 1
              /\ Exchanging => old' = old /\ new' \in {new, None}
    PROVE  Placed'
<1>1. Continued' /\ ~ Exchanging'
      BY DEF Continued, Exchanging, Exchange
<1>2. CASE /\ Todo(script) \cap Exchange = {}
           /\ UNCHANGED <<old, failures, password_set>>
           /\ new' \in {new, None} \/ IsWhole(new')
  <2>1. ~ Exchanging
        BY <1>2 DEF Exchanging, Exchange
  <2>2. PasswordPlaced'
        BY <1>1, <1>2, <2>1 DEF Placed, PasswordPlaced, HasPassword, Exchange
  <2>3. PackagePlaced'
        BY <1>1, <1>2, <2>1 DEF Placed, PackagePlaced, IsWhole, Exchange
  <2> QED BY <1>1, <2>2, <2>3 DEF Placed
<1>3. CASE /\ failures' = failures + 1
           /\ Exchanging => old' = old /\ new' \in {new, None}
  <2>1. failures' # 0 /\ (failures' <= 1 => failures = 0)
        BY <1>3, Counted
  <2>2. failures = 0 => IF Exchanging THEN IsWhole(old) /\ (new # None => IsWhole(new))
                                      ELSE IsWhole(app)
        BY DEF Placed, PackagePlaced
  <2>3. PasswordPlaced'
        BY <2>1 DEF PasswordPlaced
  <2>4. PackagePlaced'
        BY <1>1, <1>3, <2>1, <2>2 DEF PackagePlaced, IsWhole, Exchange
  <2> QED BY <1>1, <2>3, <2>4 DEF Placed
<1> QED BY <1>2, <1>3

\* The init script
LEMMA ServicePlaced ==
    SafeDeployment /\ Placed /\ (StartServer \/ CheckServer \/ StopServer \/ WaitForServer)
        => Placed'
<1> SUFFICES ASSUME SafeDeployment, Placed,
                    StartServer \/ CheckServer \/ StopServer \/ WaitForServer
             PROVE  Placed'
    OBVIOUS
<1> USE DEF SafeDeployment
<1>1. UNCHANGED <<old, new, failures, password_set>>
      BY DEF StartServer, CheckServer, StopServer, WaitForServer, trees
<1>2. app # None => app' = app
      BY AppMade DEF StartServer, CheckServer, StopServer, WaitForServer, trees
<1>3. \A c \in Exchange : c \in Todo(script)' <=> c \in Todo(script)
  <2>1. ASSUME NEW c, Do(c), c \notin Exchange, script' = Tail(script)
        PROVE  \A d \in Exchange : d \in Todo(script)' <=> d \in Todo(script)
        BY <2>1, Goes
  <2>2. CASE StartServer /\ script' = <<"write pid", "check">> \o Tail(script)
    <3>1. Do("start") /\ Todo(script)' = {"write pid", "check"}
      <4>1. Do("start")
            BY <2>2 DEF StartServer
      <4> QED BY <2>2, <4>1, GoesToWrite
    <3>2. Todo(script) = {"start"}
          BY <3>1, ToCome DEF Do
    <3> QED BY <3>1, <3>2 DEF Exchange
  <2>3. CASE StopServer /\ script' = <<"wait">> \o Tail(script)
    <3>1. Do("stop") /\ Todo(script)' = {"wait"} \cup (Todo(script) \ {"stop"})
          BY <2>3, GoesToWait DEF StopServer
    <3> QED BY <3>1 DEF Exchange
  <2>4. {"start", "check", "stop", "wait"} \cap Exchange = {}
        BY DEF Exchange
  <2> QED BY <2>1, <2>2, <2>3, <2>4 DEF StartServer, CheckServer, StopServer, WaitForServer
<1> QED BY <1>1, <1>2, <1>3, PlacedStill DEF IsWhole, HasPassword

LEMMA WritePidPlaced == SafeDeployment /\ Placed /\ WritePid => Placed'
<1> SUFFICES ASSUME SafeDeployment, Placed, WritePid PROVE Placed'
    OBVIOUS
<1> USE DEF SafeDeployment
<1>1. /\ Do("write pid") /\ script' = Tail(script)
      /\ UNCHANGED <<app, old, new, password_set>>
      /\ failures' = failures \/ failures' = failures + 1
      BY DEF WritePid, MayFail, trees
<1>2. /\ "write pid" \in Todo(script) /\ Todo(script)' = Todo(script) \ {"write pid"}
      BY <1>1, Goes
<1>3. Todo(script) \cap Exchange = {} /\ Todo(script)' \cap Exchange = {}
      BY <1>2 DEF Shape, Exchange
<1>4. ~ Exchanging
      BY <1>3 DEF Exchanging, Exchange
<1> QED BY <1>1, <1>3, <1>4, OutsidePlaced

LEMMA StagePlaced == SafeDeployment /\ Placed /\ Stage => Placed'
<1> SUFFICES ASSUME SafeDeployment, Placed, Stage PROVE Placed'
    OBVIOUS
<1> USE DEF SafeDeployment
<1>1. /\ Do("stage") /\ script' = Tail(script) /\ UNCHANGED <<app, old, password_set>>
      /\ \/ IsWhole(new') /\ failures' = failures
         \/ failures' = failures + 1
  <2>1. IsWhole(FreshTree)
        BY Trees DEF FreshTree, IsWhole
  <2> QED BY <2>1 DEF Stage, MayFail
<1>2. "stage" \in Todo(script) /\ Todo(script)' = Todo(script) \ {"stage"}
      BY <1>1, Goes
<1>3. {"copy from app", "remove old", "back up"} \subseteq Todo(script)
      BY <1>2 DEF Placed, Continued, Shape
<1>4. Continued' /\ ~ Exchanging /\ ~ Exchanging'
      BY <1>2, <1>3 DEF Placed, Continued, Exchanging
<1>5. /\ failures' = 0 => failures = 0 /\ IsWhole(new')
      /\ failures' <= 1 => failures <= 1 /\ (failures = 0 \/ IsWhole(new'))
      BY <1>1, Counted
<1>6. PasswordPlaced'
      BY <1>1, <1>2, <1>3, <1>4, <1>5 DEF Placed, PasswordPlaced, HasPassword
<1>7. PackagePlaced'
      BY <1>1, <1>2, <1>3, <1>4, <1>5 DEF Placed, PackagePlaced, IsWhole
<1> QED BY <1>4, <1>6, <1>7 DEF Placed

LEMMA RemoveOldPlaced == SafeDeployment /\ Placed /\ RemoveOld => Placed'
<1> SUFFICES ASSUME SafeDeployment, Placed, RemoveOld PROVE Placed'
    OBVIOUS
<1> USE DEF SafeDeployment
<1>1. Do("remove old") /\ UNCHANGED <<app, new, password_set>>
      BY DEF RemoveOld
<1>2. "remove old" \in Todo(script) /\ "stage" \notin Todo(script)
      BY <1>1, ToCome DEF Do
<1>3. "back up" \in Todo(script) /\ ~ Exchanging
      BY <1>2 DEF Shape, Exchanging
<1>4. CASE script' = Tail(script) /\ UNCHANGED failures
  <2>1. Todo(script)' = Todo(script) \ {"remove old"}
        BY <1>1, <1>4, Goes
  <2>2. Continued' /\ ~ Exchanging'
        BY <1>2, <1>3, <2>1 DEF Placed, Continued, Exchanging
  <2>3. PasswordPlaced'
        BY <1>1, <1>2, <1>3, <1>4, <2>1, <2>2 DEF Placed, PasswordPlaced, HasPassword
  <2>4. PackagePlaced'
        BY <1>1, <1>2, <1>3, <1>4, <2>1, <2>2 DEF Placed, PackagePlaced, IsWhole, Exchange
  <2> QED BY <2>2, <2>3, <2>4 DEF Placed
<1>5. CASE script' = <<>> /\ failures' = failures + 1
  <2>1. Todo(script)' = Todo(<<>>)
        BY <1>5 DEF Todo
  <2>2. Todo(script)' \cap Exchange = {}
        BY <2>1, Scripts
  <2> QED BY <1>1, <1>3, <1>5, <2>2, OutsidePlaced
<1> QED BY <1>4, <1>5 DEF RemoveOld, MayFail

LEMMA BackUpPlaced == SafeDeployment /\ Placed /\ BackUp => Placed'
<1> SUFFICES ASSUME SafeDeployment, Placed, BackUp PROVE Placed'
    OBVIOUS
<1> USE DEF SafeDeployment
<1>1. /\ Do("back up") /\ script' = Tail(script) /\ old' = app
      /\ UNCHANGED <<new, failures, password_set>>
      BY DEF BackUp
<1>2. /\ "back up" \in Todo(script) /\ Todo(script)' = Todo(script) \ {"back up"}
      /\ {"stage", "copy from app", "remove old"} \cap Todo(script) = {}
  <2>1. "back up" \in Todo(script) /\ Todo(script)' = Todo(script) \ {"back up"}
        BY <1>1, Goes
  <2>2. script # <<>> /\ Head(script) = "back up"
        BY <1>1 DEF Do
  <2>3. /\ "stage" \notin Todo(script) /\ "copy from app" \notin Todo(script)
        /\ "remove old" \notin Todo(script)
        BY <2>2, ToCome
  <2> QED BY <2>1, <2>3
<1>3. Continued' /\ ~ Exchanging /\ Exchanging'
      BY <1>2 DEF Placed, Continued, Exchanging
<1>4. Todo(script) \cap {"promote", "rename"} # {}
      BY <1>2 DEF Placed, Continued
<1>5. PasswordPlaced'
      BY <1>1, <1>2, <1>3, <1>4 DEF Placed, PasswordPlaced, HasPassword
<1>6. PackagePlaced'
  <2>1. "back up" \notin Todo(script)' /\ "remove old" \notin Todo(script)'
        BY <1>2
  <2>2. /\ Todo(script)' \cap {"promote", "rename"} # {}
        /\ Todo(script)' \cap {"back up", "promote", "rename"} # {}
        /\ Todo(script)' \cap Exchange # {}
        BY <1>2, <1>4 DEF Exchange
  <2>3. /\ failures = 0 => IsWhole(app) /\ IsWhole(new)
        /\ failures <= 1 => IsWhole(new) \/ IsWhole(app)
        BY <1>2, <1>3, <1>4 DEF Placed, PackagePlaced
  <2> QED BY <1>1, <1>3, <2>1, <2>2, <2>3 DEF PackagePlaced, IsWhole
<1> QED BY <1>3, <1>5, <1>6 DEF Placed

LEMMA CopyPasswordPlaced == SafeDeployment /\ Placed /\ CopyPassword => Placed'
<1> SUFFICES ASSUME SafeDeployment, Placed, CopyPassword PROVE Placed'
    OBVIOUS
<1> USE DEF SafeDeployment
<1>1. PICK c \in {"copy from old", "copy from app"} : Do(c)
      BY DEF CopyPassword
<1>2. /\ script' = Tail(script) /\ UNCHANGED <<app, old, password_set>>
      /\ failures' = failures \/ failures' = failures + 1
      BY DEF CopyPassword, MayFail
<1>3. /\ c \in Todo(script) /\ Todo(script)' = Todo(script) \ {c}
      /\ "stage" \notin Todo(script)
      /\ c = "copy from old" => {"copy from app", "remove old", "back up"} \cap Todo(script) = {}
  <2>1. c \in Todo(script) /\ Todo(script)' = Todo(script) \ {c}
        BY <1>1, <1>2, Goes
  <2>2. script # <<>> /\ Head(script) = c
        BY <1>1 DEF Do
  <2>3. /\ "stage" \notin Todo(script)
        /\ c = "copy from old" => /\ "copy from app" \notin Todo(script)
                                  /\ "remove old" \notin Todo(script)
                                  /\ "back up" \notin Todo(script)
        BY <2>2, ToCome
  <2> QED BY <2>1, <2>3
<1>4. /\ new \in Tree
      /\ c = "copy from app" => "back up" \in Todo(script) /\ app \in Tree
      /\ c = "copy from old" => old \in Tree
  <2>1. "stop" \notin Todo(script)
        BY <1>1, ToCome DEF Do
  <2>2. c = "copy from app" => "back up" \in Todo(script)
        BY <1>3 DEF Shape
  <2> QED BY <1>3, <2>1, <2>2 DEF TreesPlaced, Typed
<1>5. /\ new' # None
      /\ IsWhole(new) => IsWhole(new')
      /\ failures' = failures + 1 \/
            /\ HasPassword(new) => HasPassword(new')
            /\ c = "copy from app" /\ HasPassword(app) => HasPassword(new')
            /\ c = "copy from old" /\ HasPassword(old) => HasPassword(new')
  <2>1. \/ \E tree \in Tree : /\ new' = [new EXCEPT !.password = @ \/ tree.password]
                              /\ c = "copy from app" => tree = app
                              /\ c = "copy from old" => tree = old
        \/ failures' = failures + 1 /\ new' \in {new, [new EXCEPT !.password = FALSE]}
        BY <1>1, <1>4 DEF CopyPassword, MayFail, Do
  <2>2. CASE failures' = failures + 1 /\ new' \in {new, [new EXCEPT !.password = FALSE]}
    <3>1. new' \in Tree /\ new'.package = new.package
          BY <1>4, <2>2 DEF Tree
    <3> QED BY <1>4, <2>2, <3>1, Trees DEF IsWhole
  <2>3. ASSUME NEW tree \in Tree, new' = [new EXCEPT !.password = @ \/ tree.password],
               c = "copy from app" => tree = app, c = "copy from old" => tree = old
        PROVE  /\ new' # None
               /\ IsWhole(new) => IsWhole(new')
               /\ HasPassword(new) => HasPassword(new')
               /\ c = "copy from app" /\ HasPassword(app) => HasPassword(new')
               /\ c = "copy from old" /\ HasPassword(old) => HasPassword(new')
    <3>1. /\ new'.package = new.package /\ new'.password = (new.password \/ tree.password)
          /\ new' \in Tree
          BY <1>4, <2>3 DEF Tree
    <3> QED BY <2>3, <3>1, Trees DEF IsWhole, HasPassword
  <2> QED BY <2>1, <2>2, <2>3
<1>6. Continued' /\ (Exchanging' <=> Exchanging)
      BY <1>3 DEF Placed, Continued, Exchanging
<1>7. c = "copy from app" => ~ Exchanging
      BY <1>4 DEF Exchanging
<1>8. Todo(script)' \cap {"promote", "rename"} = Todo(script) \cap {"promote", "rename"}
      BY <1>3
<1>9. PasswordPlaced'
  <2>1. c = "copy from old" =>
            (Todo(script) \cap {"promote", "rename"} # {} => Exchanging)
        BY <1>3 DEF Exchanging
  <2>2. failures' = failures + 1 => failures' # 0
        BY Counted
  <2> QED BY <1>2, <1>3, <1>5, <1>6, <1>7, <2>1, <2>2 DEF Placed, PasswordPlaced, HasPassword
<1>10. PackagePlaced'
  <2>1. Todo(script) \cap {"promote", "rename"} # {}
        BY <1>1, <1>3 DEF Placed, Continued
  <2>2. Todo(script)' \cap Exchange # {}
        BY <1>8, <2>1 DEF Exchange
  <2>3. CASE failures' = failures
    <3>1. /\ "back up" \in Todo(script)' <=> "back up" \in Todo(script)
          /\ "remove old" \in Todo(script)' <=> "remove old" \in Todo(script)
          /\ "stage" \notin Todo(script)
          BY <1>1, <1>3
    <3>2. /\ failures = 0 => /\ IsWhole(IF Exchanging THEN old ELSE app)
                             /\ IsWhole(new)
          /\ failures <= 1 => /\ "back up" \in Todo(script) => IsWhole(new) \/ IsWhole(app)
                              /\ "remove old" \in Todo(script) => IsWhole(app) \/ IsWhole(old)
                              /\ Exchanging => IsWhole(new) \/ IsWhole(old)
          BY <1>3, <2>1 DEF Placed, PackagePlaced
    <3>3. Todo(script)' \cap {"back up", "promote", "rename"} # {}
          BY <1>8, <2>1
    <3> QED BY <1>2, <1>5, <1>6, <2>2, <2>3, <3>1, <3>2, <3>3 DEF PackagePlaced, IsWhole
  <2>4. CASE failures' = failures + 1
    <3>1. failures' # 0 /\ (failures' <= 1 => failures = 0)
          BY <2>4, Counted
    <3>2. failures = 0 => IsWhole(new') /\ (Exchanging \/ IsWhole(app))
          BY <1>3, <1>5, <2>1 DEF Placed, PackagePlaced
    <3>3. "remove old" \in Todo(script)' => ~ Exchanging
          BY <1>1, <1>3, <1>7
    <3>4. Todo(script)' \cap {"back up", "promote", "rename"} # {}
          BY <1>8, <2>1
    <3> QED BY <1>2, <1>6, <2>2, <3>1, <3>2, <3>3, <3>4 DEF PackagePlaced, IsWhole
  <2> QED BY <1>2, <2>3, <2>4
<1> QED BY <1>6, <1>9, <1>10 DEF Placed

LEMMA PromotePlaced == SafeDeployment /\ Placed /\ Promote => Placed'
<1> SUFFICES ASSUME SafeDeployment, Placed, Promote PROVE Placed'
    OBVIOUS
<1> USE DEF SafeDeployment
<1>1. PICK c \in {"promote", "rename"} : Do(c)
      BY DEF Promote
<1>2. /\ c \in Todo(script)
      /\ {"stage", "copy from app", "remove old", "back up", "copy from old"} \cap Todo(script) = {}
      BY <1>1, ToCome DEF Do
<1>3. Exchanging
      BY <1>2 DEF Exchanging
<1>4. Todo(script)' \cap Exchange = {}
  <2>1. CASE script' = Tail(script)
    <3>1. Todo(script)' = Todo(script) \ {c}
          BY <1>1, <2>1, Goes
    <3> QED BY <1>1, <1>2, <3>1 DEF Shape, Exchange
  <2>2. CASE script' = <<>>
    <3>1. Todo(script)' = Todo(<<>>)
          BY <2>2 DEF Todo
    <3> QED BY <3>1, Scripts
  <2> QED BY <2>1, <2>2 DEF Promote
<1>5. Continued' /\ ~ Exchanging'
      BY <1>4 DEF Continued, Exchanging, Exchange
<1>6. /\ old' = old /\ password_set' = password_set
      /\ \/ app' = new /\ new' = None /\ failures' = failures
         \/ failures' = failures + 1 /\ (app' = new \/ new' = new)
      BY DEF Promote, MayFail
<1>7. PasswordPlaced'
  <2>1. ASSUME password_set, failures = 0 PROVE HasPassword(new)
        BY <1>1, <1>2, <2>1 DEF Placed, PasswordPlaced
  <2> QED BY <1>4, <1>5, <1>6, <2>1, Counted DEF PasswordPlaced, HasPassword, Exchange
<1>8. PackagePlaced'
  <2>1. /\ failures = 0 => IsWhole(new) /\ IsWhole(old)
        /\ failures <= 1 => IsWhole(new) \/ IsWhole(old)
        BY <1>1, <1>2, <1>3 DEF Placed, PackagePlaced
  <2> QED BY <1>4, <1>5, <1>6, <2>1, Counted DEF PackagePlaced, IsWhole, Exchange
<1> QED BY <1>5, <1>7, <1>8 DEF Placed

\* What does not execute a command
LEMMA OthersPlaced ==
    /\ SafeDeployment /\ Placed
    /\ RunService \/ Upload \/ SetPassword \/ Interrupt \/ Reboot \/ (\E p \in Pids : Process(p))
    => Placed'
<1> SUFFICES ASSUME SafeDeployment, Placed,
                    RunService \/ Upload \/ SetPassword \/ Interrupt \/ Reboot
                        \/ (\E p \in Pids : Process(p))
             PROVE  Placed'
    OBVIOUS
<1> USE DEF SafeDeployment
<1>1. Todo(script)' = Todo(script')
      BY DEF Todo
<1>2. script = <<>> => Todo(script) = {} /\ Todo(script) \cap Exchange = {} /\ ~ Exchanging
      BY Scripts DEF Exchanging
<1>3. CASE RunService
  <2>1. Todo(script)' \cap Exchange = {}
        BY <1>1, <1>3, Scripts DEF RunService, Exchange
  <2> QED BY <1>2, <1>3, <2>1, OutsidePlaced DEF RunService, trees
<1>4. CASE Upload
  <2>1. /\ script = <<>> /\ script' = <<>> /\ UNCHANGED <<app, old, password_set>>
        /\ \/ IsWhole(new') /\ failures' = failures
           \/ failures' = failures + 1
    <3>1. IsWhole(FreshTree)
          BY Trees DEF FreshTree, IsWhole
    <3> QED BY <1>4, <3>1 DEF Upload, MayFail
  <2> QED BY <1>1, <1>2, <2>1, OutsidePlaced
<1>5. CASE SetPassword
  <2>1. /\ script = <<>> /\ script' = <<>> /\ UNCHANGED <<old, new, failures>>
        /\ app' = [app EXCEPT !.password = TRUE] /\ app \in Tree
        BY <1>5 DEF SetPassword, Typed
  <2>2. app' # None /\ app'.password /\ app'.package = app.package
        BY <2>1, Trees DEF Tree
  <2>3. Todo(script)' = {}
        BY <1>1, <1>2, <2>1
  <2>4. Continued' /\ PasswordPlaced'
        BY <1>2, <2>1, <2>2, <2>3 DEF Continued, PasswordPlaced, Exchanging, HasPassword
  <2>5. PackagePlaced'
        BY <1>2, <2>1, <2>2, <2>3 DEF Placed, PackagePlaced, Exchanging, IsWhole
  <2> QED BY <2>4, <2>5 DEF Placed
<1>6. CASE Interrupt
  <2>1. script' = <<>> /\ UNCHANGED <<app, old, new>> /\ failures' = failures + 1
        BY <1>6 DEF Interrupt, MayFail, trees
  <2>2. Todo(script)' \cap Exchange = {}
        BY <1>1, <2>1, Scripts
  <2> QED BY <2>1, <2>2, OutsidePlaced
<1>7. CASE Reboot
  <2>1. /\ script' = Start /\ UNCHANGED <<app, old, password_set>> /\ new' \in {new, None}
        /\ \/ script = <<>> /\ failures' = failures
           \/ failures' = failures + 1
        BY <1>7 DEF Reboot, MayFail
  <2>2. Todo(script)' \cap Exchange = {}
        BY <1>1, <2>1, Scripts DEF Exchange
  <2> QED BY <1>2, <2>1, <2>2, OutsidePlaced
<1>8. CASE \E p \in Pids : Process(p)
  <2>1. UNCHANGED <<app, old, new, failures, password_set, script>>
        BY <1>8 DEF Process, trees
  <2> QED BY <1>1, <2>1, PlacedStill
<1> QED BY <1>3, <1>4, <1>5, <1>6, <1>7, <1>8

LEMMA RunUpdatePlaced == SafeDeployment /\ Placed /\ RunUpdate => Placed'
<1> SUFFICES ASSUME SafeDeployment, Placed, RunUpdate PROVE Placed'
    OBVIOUS
<1>1. Todo(script)' = Todo(script')
      BY DEF Todo
<1>2. Todo(script) = {} /\ UNCHANGED <<app, old, new, failures, password_set>>
      BY Scripts DEF RunUpdate, trees
<1>3. /\ failures = 0 => IsWhole(app)
      /\ failures <= 1 => IsWhole(app) \/ IsWhole(old)
      /\ failures = 0 /\ new # None => IsWhole(new)
      /\ failures <= 1 /\ new # None => IsWhole(new) \/ IsWhole(app)
      /\ password_set /\ failures = 0 => HasPassword(app)
      BY <1>2 DEF Placed, PasswordPlaced, PackagePlaced, Exchanging
<1>4. CASE script' = UpdateRemote
  <2>1. /\ {"stage", "copy from app", "remove old", "back up", "rename"} \subseteq Todo(script)'
        /\ "copy from old" \notin Todo(script)'
        BY <1>1, <1>4, Scripts
  <2>2. "rename" \in Todo(script)' \cap {"promote", "rename"}
        BY <2>1
  <2>3. Continued' /\ ~ Exchanging'
        BY <2>1, <2>2 DEF Continued, Exchanging
  <2>4. PasswordPlaced'
        BY <1>2, <1>3, <2>1, <2>3 DEF PasswordPlaced, HasPassword
  <2>5. "stage" \in Todo(script)' \cap Exchange
        BY <2>1 DEF Exchange
  <2>6. PackagePlaced'
        BY <1>2, <1>3, <2>1, <2>3, <2>5 DEF PackagePlaced, IsWhole
  <2> QED BY <2>3, <2>4, <2>6 DEF Placed
<1>5. CASE script' = UpdateLocal /\ new # None
  <2>1. /\ {"remove old", "back up", "copy from old", "promote"} \subseteq Todo(script)'
        /\ "stage" \notin Todo(script)' /\ "copy from app" \notin Todo(script)'
    <3>1. Todo(script)' = {"stop", "remove old", "back up", "copy from old", "promote",
                           "start"}
          BY <1>1, <1>5, Scripts, Zenon
    <3> QED BY <3>1
  <2>2. "promote" \in Todo(script)' \cap {"promote", "rename"}
        BY <2>1
  <2>3. Continued' /\ ~ Exchanging'
        BY <2>1, <2>2 DEF Continued, Exchanging
  <2>4. PasswordPlaced'
        BY <1>2, <1>3, <2>1, <2>3 DEF PasswordPlaced, HasPassword
  <2>5. PackagePlaced'
        BY <1>2, <1>3, <1>5, <2>1, <2>3 DEF PackagePlaced, IsWhole
  <2> QED BY <2>3, <2>4, <2>5 DEF Placed
<1> QED BY <1>4, <1>5 DEF RunUpdate

\* Where password and packages are follows from the commands still to come.
THEOREM DeploymentPlaced == Spec => []Placed
<1>1. SafeDeployment /\ Placed /\ UNCHANGED vars => Placed'
  <2> SUFFICES ASSUME SafeDeployment, Placed, UNCHANGED vars PROVE Placed'
      OBVIOUS
  <2>1. Todo(script)' = Todo(script)
        BY DEF vars, Todo
  <2> QED BY <2>1, PlacedStill DEF vars, trees
<1>2. SafeDeployment /\ Placed /\ Next => Placed'
      BY ServicePlaced, WritePidPlaced, StagePlaced, RemoveOldPlaced, BackUpPlaced,
         CopyPasswordPlaced, PromotePlaced, RunUpdatePlaced, OthersPlaced DEF Next
<1> QED BY InitPlaced, DeploymentSafe, <1>1, <1>2, PTL DEF Spec

\* An update that nothing cuts off keeps the administrator's password, at every step.
THEOREM DeploymentPasswordKept == Spec => []PasswordKept
<1>1. SafeDeployment /\ Placed => PasswordKept
  <2> SUFFICES ASSUME SafeDeployment, Placed, password_set, failures = 0
               PROVE  /\ \E tree \in {app, old, new} \ {None} : tree.password
                      /\ script = <<>> => app.password
      BY DEF PasswordKept
  <2>1. HasPassword(app) \/ HasPassword(old) \/ HasPassword(new)
        BY DEF SafeDeployment, Placed, PasswordPlaced, Exchanging, Shape
  <2>2. script = <<>> => HasPassword(app)
        BY Scripts DEF Placed, PasswordPlaced, Exchanging
  <2> QED BY <2>1, <2>2 DEF HasPassword
<1> QED BY <1>1, DeploymentSafe, DeploymentPlaced, PTL

\* One failure that Deployment has - a script cut off between any two of its commands or
\* in the middle of the removal or of the last move, a transfer, a copy or the write of
\* the PID file gone wrong - leaves a whole package, and so do the scripts run after it,
\* unless one fails as well.
THEOREM DeploymentPackageSurvives == Spec => []PackageSurvives
<1>1. SafeDeployment /\ Placed => PackageSurvives
  <2> SUFFICES ASSUME SafeDeployment, Placed, failures <= 1
               PROVE  \E tree \in {app, old, new} \ {None} : tree.package = "whole"
      BY DEF PackageSurvives
  <2>1. IsWhole(app) \/ IsWhole(old) \/ IsWhole(new)
        BY DEF Placed, Continued, PackagePlaced, Exchanging
  <2> QED BY <2>1 DEF IsWhole
<1> QED BY <1>1, DeploymentSafe, DeploymentPlaced, PTL
===============================================================================
