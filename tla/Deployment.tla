------------------------------ MODULE Deployment ------------------------------
(***************************************************************************)
(* deploy/: the init script that starts and stops the server through its   *)
(* PID file, and update_server.sh, which stops it, exchanges the installed *)
(* tree for a new one and starts it again.  The board may lose its power   *)
(* at any moment, a script its connection, a command may fail half done.   *)
(*                                                                         *)
(* A script is the sequence of the commands it still has to execute; one   *)
(* runs at a time.  The PID file is in the installed tree, and what is     *)
(* told of a tree besides is its package and whether it has a password     *)
(* file of the administrator's own.                                        *)
(***************************************************************************)
EXTENDS Naturals, Sequences, FiniteSets

CONSTANTS Pids,         \* process ids
          MaxFailures,  \* bound on the scripts that fail or are cut off
          None

VARIABLES app, old, new, \* the trees $APP_DIR, $APP_DIR.old and the new package
          pid_file,      \* what $APP_DIR/server.pid holds
          launched,      \* a server started whose PID is still to be written
          process,       \* what each process is
          script,        \* the commands to come
          failures,      \* scripts failed or cut off so far
          password_set   \* has the administrator set a password?

trees == <<app, old, new>>
vars == <<trees, pid_file, launched, process, script, failures, password_set>>

Tree == [package : {"none", "part", "whole"}, password : BOOLEAN]

EmptyTree == [package |-> "none", password |-> FALSE]
FreshTree == [package |-> "whole", password |-> FALSE]

ASSUME DeploymentAssumption == None \notin Pids \cup Tree /\ MaxFailures \in Nat

Start == <<"start">>
Stop == <<"stop">>
Restart == <<"stop", "start">>
UpdateLocal == <<"stop", "remove old", "back up", "copy from old", "promote", "start">>
UpdateRemote == <<"stop", "stage", "copy from app", "remove old", "back up", "rename", "start">>

Commands == {"start", "write pid", "check", "stop", "wait", "stage", "remove old", "back up",
             "copy from old", "copy from app", "promote", "rename"}

MayFail == failures < MaxFailures /\ failures' = failures + 1

Init == /\ app \in {FreshTree, [FreshTree EXCEPT !.password = TRUE]}
        /\ old = None /\ new = None
        /\ pid_file = None
        /\ launched = None
        /\ process = [p \in Pids |-> "free"]
        /\ script = <<>>
        /\ failures = 0
        /\ password_set = app.password

Do(command) == script # <<>> /\ Head(script) = command

-------------------------------------------------------------------------------
\* The init script; $PID_FILE is empty or names a process, be it the server or not.

is_running == pid_file # None /\ process[pid_file] # "free"

\* mkdir -p "$APP_DIR", whatever the script is called for
MakeApp == app' = IF app = None THEN EmptyTree ELSE app

\* start(): nothing if is_running; without a binary or a model it fails, and they may
\* be what a partial package lacks; otherwise the server is launched, ...
StartServer ==
    /\ Do("start")
    /\ MakeApp
    /\ \/ /\ is_running \/ app'.package # "whole"
          /\ script' = Tail(script)
          /\ UNCHANGED <<process, launched>>
       \/ \E p \in Pids : /\ ~ is_running /\ app'.package # "none"
                          /\ process[p] = "free"
                          /\ process' = [process EXCEPT ![p] = "server"]
                          /\ launched' = p
                          /\ script' = <<"write pid", "check">> \o Tail(script)
    /\ UNCHANGED <<old, new, pid_file, failures, password_set>>

\* ... and, in a step of its own, its PID written: an echo that fails leaves the file
\* as it was, or empty, and start() goes on.
WritePid ==
    /\ Do("write pid")
    /\ \/ pid_file' = launched /\ UNCHANGED failures
       \/ pid_file' \in {pid_file, None} /\ MayFail
    /\ launched' = None
    /\ script' = Tail(script)
    /\ UNCHANGED <<trees, process, password_set>>

\* A second later: the PID file of a server that has not come up is removed.
CheckServer ==
    /\ Do("check")
    /\ pid_file' = IF is_running THEN pid_file ELSE None
    /\ script' = Tail(script)
    /\ UNCHANGED <<trees, launched, process, failures, password_set>>

\* stop(): without a running process it removes the PID file, else it sends SIGTERM.
StopServer ==
    /\ Do("stop")
    /\ MakeApp
    /\ \/ /\ ~ is_running
          /\ pid_file' = None
          /\ script' = Tail(script)
          /\ UNCHANGED process
       \/ /\ is_running
          /\ process' = [process EXCEPT ![pid_file] = IF @ = "server" THEN "stopping" ELSE @]
          /\ script' = <<"wait">> \o Tail(script)
          /\ UNCHANGED pid_file
    /\ UNCHANGED <<old, new, launched, failures, password_set>>

\* Mutated: gives up after 30 s.
WaitGivingUp ==
    /\ Do("wait")
    /\ pid_file' = None
    /\ script' = Tail(script)
    /\ UNCHANGED <<trees, launched, process, failures, password_set>>

\* It waits for the process to end, and kills it after 30 s, be it in the middle
\* of its teardown; then it removes the PID file.
WaitForServer ==
    /\ Do("wait")
    /\ \/ ~ is_running /\ UNCHANGED process
       \/ is_running /\ process' = [process EXCEPT ![pid_file] = "free"]
    /\ pid_file' = None
    /\ script' = Tail(script)
    /\ UNCHANGED <<trees, launched, failures, password_set>>

-------------------------------------------------------------------------------
\* update_server.sh.  The local update goes on whatever its commands return, the
\* remote one does so until it backs up.

\* The package is sent to $APP_DIR.new; a transfer that fails goes unnoticed.
Stage ==
    /\ Do("stage")
    /\ \/ new' = FreshTree /\ UNCHANGED failures
       \/ new' = [FreshTree EXCEPT !.package = "part"] /\ MayFail
    /\ script' = Tail(script)
    /\ UNCHANGED <<app, old, pid_file, launched, process, password_set>>

\* rm -rf of the back-up of the last update, which an interrupt cuts off half done
RemoveOld ==
    /\ Do("remove old")
    /\ \/ old' = None /\ script' = Tail(script) /\ UNCHANGED failures
       \/ /\ old # None
          /\ old' \in [package : {"part"}, password : {FALSE, old.password}]
          /\ script' = <<>>
          /\ MayFail
    /\ UNCHANGED <<app, new, pid_file, launched, process, password_set>>

\* Mutated: copies the tree and leaves it in its place.
BackUpCopying ==
    /\ Do("back up")
    /\ old' = app
    /\ pid_file' = None
    /\ script' = Tail(script)
    /\ UNCHANGED <<app, new, launched, process, failures, password_set>>

\* Mutated: keeps the settings of the tree and not its package.
BackUpSettings ==
    /\ Do("back up")
    /\ old' = [EmptyTree EXCEPT !.password = app.password]
    /\ app' = None
    /\ pid_file' = None
    /\ script' = Tail(script)
    /\ UNCHANGED <<new, launched, process, failures, password_set>>

\* mv "$APP_DIR" "$APP_DIR.old", and the PID file goes with it.
BackUp ==
    /\ Do("back up")
    /\ old' = app
    /\ app' = None
    /\ pid_file' = None
    /\ script' = Tail(script)
    /\ UNCHANGED <<new, launched, process, failures, password_set>>

\* Mutated: looks for the password where the tree has been moved from.
CopyPasswordMoved ==
    /\ Do("copy from old") \/ Do("copy from app")
    /\ new' = [new EXCEPT !.password = @ \/ (app # None /\ app.password)]
    /\ script' = Tail(script)
    /\ UNCHANGED <<app, old, pid_file, launched, process, failures, password_set>>

\* The password file, if there is one, is copied to the new tree; a copy that fails,
\* and may spoil the one that is there, goes unnoticed.
CopyPassword ==
    /\ \/ Do("copy from old") /\ new' = [new EXCEPT !.password = @ \/ old.password]
          /\ UNCHANGED failures
       \/ Do("copy from app") /\ new' = [new EXCEPT !.password = @ \/ app.password]
          /\ UNCHANGED failures
       \/ /\ Do("copy from old") \/ Do("copy from app")
          /\ new' \in {new, [new EXCEPT !.password = FALSE]}
          /\ MayFail
    /\ script' = Tail(script)
    /\ UNCHANGED <<app, old, pid_file, launched, process, password_set>>

\* mv of the new tree to $APP_DIR: on the board's own disk a rename; a package in
\* /tmp is copied and then removed, and either may fail or be cut off half done.
Promote ==
    /\ \/ /\ Do("promote") \/ Do("rename")
          /\ app' = new /\ new' = None
          /\ script' = Tail(script)
          /\ UNCHANGED failures
       \/ /\ Do("promote")
          /\ \/ app' \in [package : {"part"}, password : {FALSE, new.password}] /\ UNCHANGED new
             \/ app' = new /\ new' \in [package : {"part"}, password : {FALSE, new.password}]
          /\ script' \in {<<>>, Tail(script)}
          /\ MayFail
    /\ UNCHANGED <<old, pid_file, launched, process, password_set>>

-------------------------------------------------------------------------------
\* Administrator and board

\* /etc/init.d/luckfox-rknn-grpc start, stop or restart
RunService == /\ script = <<>>
              /\ script' \in {Start, Stop, Restart}
              /\ UNCHANGED <<trees, pid_file, launched, process, failures, password_set>>

\* update_server.sh: a local update looks for the directory of the package and two
\* helper files in it, which a package that is not whole may have.
RunUpdate == /\ script = <<>>
             /\ \/ script' = UpdateRemote
                \/ script' = UpdateLocal /\ new # None
             /\ UNCHANGED <<trees, pid_file, launched, process, failures, password_set>>

\* A package is sent to the board for a local update.
Upload == /\ script = <<>>
          /\ \/ new' = FreshTree /\ UNCHANGED failures
             \/ new' = [FreshTree EXCEPT !.package = "part"] /\ MayFail
          /\ UNCHANGED <<app, old, pid_file, launched, process, script, password_set>>

SetPassword == /\ script = <<>> /\ app # None
               /\ app' = [app EXCEPT !.password = TRUE]
               /\ password_set' = TRUE
               /\ UNCHANGED <<old, new, pid_file, launched, process, script, failures>>

\* A script is interrupted, or loses the connection it was started over.
Interrupt == /\ script # <<>>
             /\ MayFail
             /\ script' = <<>>
             /\ launched' = None
             /\ UNCHANGED <<trees, pid_file, process, password_set>>

\* The power fails; the board boots and starts the server.  /tmp may be lost.
Reboot == /\ IF script = <<>> THEN UNCHANGED failures ELSE MayFail
          /\ process' = [p \in Pids |-> "free"]
          /\ new' \in {new, None}
          /\ launched' = None
          /\ script' = Start
          /\ UNCHANGED <<app, old, pid_file, password_set>>

\* A server crashes, or ends as it was told; other processes come and go.
Process(p) == /\ \/ process' = [process EXCEPT ![p] = "free"]
                 \/ process[p] = "free" /\ process' = [process EXCEPT ![p] = "other"]
              /\ UNCHANGED <<trees, pid_file, launched, script, failures, password_set>>

Next == \/ StartServer \/ WritePid \/ CheckServer \/ StopServer \/ WaitForServer
        \/ Stage \/ RemoveOld \/ BackUp \/ CopyPassword \/ Promote
        \/ RunService \/ RunUpdate \/ Upload \/ SetPassword \/ Interrupt \/ Reboot
        \/ \E p \in Pids : Process(p)

Spec == Init /\ [][Next]_vars

-------------------------------------------------------------------------------

\* A script puts the new tree in place of the old one and not into it.
TypeOK == /\ {app, old, new} \subseteq Tree \cup {None}
          /\ {pid_file, launched} \subseteq Pids \cup {None}
          /\ process \in [Pids -> {"free", "server", "stopping", "other"}]
          /\ \A i \in 1 .. Len(script) : script[i] \in Commands
          /\ failures \in 0 .. MaxFailures
          /\ password_set \in BOOLEAN
          /\ Do("promote") \/ Do("rename") => app = None /\ new # None

Servers == {p \in Pids : process[p] \in {"server", "stopping"}}

\* Those that stop, which goes by the PID file, would not find
Untracked == Servers \ {pid_file, launched}

\* Whatever the PID file named before, and however often scripts were cut off and trees
\* exchanged with the file in them: a server that runs is the one the file names, or a
\* failure struck between its launch and the writing of its PID
\* (deploy/initd/luckfox-rknn-grpc:79-89).  A failure costs one server at most, and
\* without any no second server is ever started beside the first.
ServerTracked == /\ Cardinality(Untracked) <= failures
                 /\ Cardinality(Servers) <= failures + 1

\* deploy/update_server.sh:63: as long as no script has failed, the administrator's
\* password is in the installed tree after every update, and in some tree during it.
PasswordKept ==
    password_set /\ failures = 0 =>
        /\ \E tree \in {app, old, new} \ {None} : tree.password
        /\ script = <<>> => app.password

\* A single failure, wherever it strikes, leaves a whole package on the board to
\* go back to.
PackageSurvives ==
    failures <= 1 => \E tree \in {app, old, new} \ {None} : tree.package = "whole"
===============================================================================
