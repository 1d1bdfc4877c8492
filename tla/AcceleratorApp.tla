---------------------------- MODULE AcceleratorApp ----------------------------
(***************************************************************************)
(* client/tk_app.py: the operations of the window and the buttons that     *)
(* start them.  The Tk thread runs the handlers of the buttons and, every  *)
(* 16 ms, those of the events; each operation on the client runs in a      *)
(* worker thread of its own (_run_async), which puts an event when it ends.*)
(*                                                                         *)
(* The client is SharedClient, statement by statement; a handler of the Tk *)
(* thread is one step.  The threads of a video are VideoPipeline: here a   *)
(* video runs until it is stopped or its end is announced.                 *)
(***************************************************************************)
EXTENDS SharedClient, Naturals, Sequences

CONSTANTS Tk,         \* the thread of the main loop; the others are workers
          MaxActive   \* bound on the operations under way at once

ASSUME AppAssumption == Tk \in Threads /\ MaxActive \in Nat \ {0}

VARIABLES enabled,       \* the buttons that are not tk.DISABLED
          image_path,    \* is it not None?
          video,         \* "over": its end was announced, and video_generation still is its own
          video_dialog,  \* is a dialog open that asks for the source of a video?
          scan_dialog,   \* its rows, if any: "stale" when scan_results has become empty
          events,        \* the workers whose events wait in queue.Queue()
          polling,       \* is _poll_events going to be called again?
          window         \* has it not been destroyed?

widgets == <<enabled, image_path, video, video_dialog, scan_dialog, polling, window>>
appVars == <<vars, widgets, events>>

Workers == Threads \ {Tk}

Buttons == {"scan", "connect", "close", "refresh", "infer", "video", "stop"}

\* _set_busy(True) disables these.
Busy == {"scan", "connect", "close", "infer"}

AppInit == /\ Init
           /\ enabled = {"scan", "connect"}
           /\ image_path = FALSE
           /\ video = "none"
           /\ video_dialog = FALSE
           /\ scan_dialog = "closed"
           /\ events = <<>>
           /\ polling = TRUE
           /\ window = TRUE

\* _update_controls
Controls(image, running) ==
    {b \in Buttons : CASE b \in {"scan", "connect"}  -> ~ Connected
                       [] b \in {"close", "refresh"} -> Connected
                       [] b = "video"                -> Connected /\ ~ running
                       [] b = "infer"                -> Connected /\ image /\ ~ running
                       [] b = "stop"                 -> running}

\* _stop_video does nothing unless video_running.
AfterStop == IF video = "running" THEN Controls(image_path, FALSE) ELSE enabled

VideoStopped == video' = IF video = "running" THEN "none" ELSE video

-------------------------------------------------------------------------------
\* The handlers of the buttons.  They run while the main loop is not in a handler.

Looping == window /\ stage[Tk] = "free"

Pressed(b) == Looping /\ b \in enabled

\* Bounds: an operation is started only if there is a worker for it, and fewer than
\* MaxActive are under way.  Which worker it is makes no difference.
MayBegin == Cardinality({t \in Threads : Active(t)}) < MaxActive

RunAsync(o) == LET idle == {t \in Workers : stage[t] = "free"}
               IN  /\ MayBegin /\ idle # {}
                   /\ Begin(CHOOSE t \in idle : TRUE, o)
                   /\ UNCHANGED events

\* _scan opens its dialog anew.
ScanPressed == /\ Pressed("scan")
               /\ scan_dialog' = "open"
               /\ enabled' = enabled \ Busy
               /\ RunAsync("scan")
               /\ UNCHANGED <<image_path, video, video_dialog, polling, window>>

CloseScanDialog == /\ Looping /\ scan_dialog # "closed"
                   /\ scan_dialog' = "closed"
                   /\ UNCHANGED <<vars, events, enabled, image_path, video, video_dialog,
                                  polling, window>>

\* The Connect button, or the row of an accelerator in the dialog, which no busy
\* state disables.
ConnectPressed == /\ \/ Pressed("connect") /\ UNCHANGED scan_dialog
                     \/ Looping /\ scan_dialog = "filled" /\ scan_dialog' = "closed"
                  /\ enabled' = enabled \ Busy
                  /\ RunAsync("connect")
                  /\ UNCHANGED <<image_path, video, video_dialog, polling, window>>

ClosePressed == /\ Pressed("close")
                /\ VideoStopped
                /\ enabled' = AfterStop \ Busy
                /\ RunAsync("close")
                /\ UNCHANGED <<image_path, video_dialog, scan_dialog, polling, window>>

RefreshPressed == /\ Pressed("refresh")
                  /\ Connected
                  /\ enabled' = enabled \ {"refresh"}
                  /\ RunAsync("performance")
                  /\ UNCHANGED <<image_path, video, video_dialog, scan_dialog, polling,
                                 window>>

InferPressed == /\ Pressed("infer")
                /\ image_path
                /\ enabled' = enabled \ Busy
                /\ RunAsync("infer")
                /\ UNCHANGED <<image_path, video, video_dialog, scan_dialog, polling,
                               window>>

\* _choose_image, whose button is never disabled.  A file that is no image raises
\* before the controls are updated.
ChooseImage == /\ Looping
               /\ VideoStopped
               /\ image_path' = TRUE
               /\ enabled' \in {Controls(TRUE, FALSE), AfterStop}
               /\ UNCHANGED <<vars, events, video_dialog, scan_dialog, polling, window>>

\* "video" are three buttons, enabled alike: for a file and for a stream a dialog opens.
OpenVideoDialog == /\ Pressed("video")
                   /\ video_dialog' = TRUE
                   /\ UNCHANGED <<vars, events, enabled, image_path, video, scan_dialog,
                                  polling, window>>

\* Cancelled, or confirmed when the connection is gone
CloseVideoDialog == /\ Looping /\ video_dialog
                    /\ video_dialog' = FALSE
                    /\ UNCHANGED <<vars, events, enabled, image_path, video, scan_dialog,
                                   polling, window>>

\* _start_video, for the camera or from a dialog that has been left open, whatever the
\* button's state by now: then in the place of the video that runs.
StartVideo == /\ \/ Pressed("video") /\ UNCHANGED video_dialog
                 \/ Looping /\ video_dialog /\ video_dialog' = FALSE
              /\ Connected
              /\ video' = "running"
              /\ image_path' = FALSE
              /\ enabled' = Controls(FALSE, TRUE)
              /\ UNCHANGED <<vars, events, scan_dialog, polling, window>>

StopPressed == /\ Pressed("stop")
               /\ VideoStopped
               /\ enabled' = AfterStop
               /\ UNCHANGED <<vars, events, image_path, video_dialog, scan_dialog, polling,
                              window>>

-------------------------------------------------------------------------------
\* The workers, and _poll_events with _handle_event

\* Mutated: without its except clause.
WorkUncaught(t) ==
    /\ Step(t)
    /\ events' = IF stage'[t] = "ended" /\ result'[t] # "exception"
                   THEN Append(events, t) ELSE events
    /\ UNCHANGED widgets

\* worker() puts an event whether the operation returns or raises.
Work(t) == /\ Step(t)
           /\ events' = IF stage'[t] = "ended" THEN Append(events, t) ELSE events
           /\ UNCHANGED widgets

\* A failed performance leaves the other buttons alone.
PerformanceFailed(t) ==
    /\ operation[t] = "performance" /\ result[t] # "ok"
    /\ enabled' = IF Connected THEN enabled \cup {"refresh"} ELSE enabled \ {"refresh"}
    /\ Release(t)
    /\ UNCHANGED <<scan_dialog, polling>>

\* The rows of a second scan collide with those of the first: a TclError, after
\* which nobody calls _poll_events again.
RowsCollide(t) ==
    /\ operation[t] = "scan" /\ result[t] = "ok" /\ scan_dialog \in {"filled", "stale"}
    /\ scan_dialog' = "filled"
    /\ polling' = FALSE
    /\ Release(t)
    /\ UNCHANGED enabled

\* Mutated: only if the operation succeeded.
UpdatedOnSuccess(t) ==
    enabled' = IF result[t] = "ok" THEN Controls(image_path, video = "running") ELSE enabled

Updated(t) == enabled' = Controls(image_path, video = "running")

\* The other events all end with _update_controls; connect goes on to performance.
Handled(t) ==
    /\ operation[t] = "performance" => result[t] = "ok"
    /\ scan_dialog' = CASE operation[t] = "scan" /\ result[t] = "ok" /\ scan_dialog = "open" -> "filled"
                        [] operation[t] = "scan" /\ result[t] = "empty" /\ scan_dialog = "filled" -> "stale"
                        [] OTHER -> scan_dialog
    /\ operation[t] = "scan" /\ result[t] = "ok" => scan_dialog \in {"closed", "open"}
    /\ IF operation[t] = "connect" /\ result[t] = "ok" THEN Begin(t, "performance") ELSE Release(t)
    /\ Updated(t)
    /\ UNCHANGED polling

\* Mutated: the event stays in the queue.
PeekEvent == events # <<>> /\ UNCHANGED events

\* events.get_nowait()
GetEvent == events # <<>> /\ events' = Tail(events)

HandleEvent == /\ Looping /\ polling
               /\ GetEvent
               /\ LET t == Head(events)
                  IN  PerformanceFailed(t) \/ RowsCollide(t) \/ Handled(t)
               /\ UNCHANGED <<image_path, video, video_dialog, window>>

\* video_end or video_error; both threads of a video may announce its end.
VideoEnds == /\ Looping /\ polling
             /\ video # "none"
             /\ video' = "over"
             /\ enabled' = Controls(image_path, FALSE)
             /\ UNCHANGED <<vars, events, image_path, video_dialog, scan_dialog, polling,
                            window>>

-------------------------------------------------------------------------------
\* _on_exit closes the connection in the Tk thread.

Exit == /\ Looping /\ MayBegin
        /\ VideoStopped
        /\ enabled' = AfterStop
        /\ Begin(Tk, "close")
        /\ UNCHANGED <<events, image_path, video_dialog, scan_dialog, polling, window>>

ExitStep == Step(Tk) /\ UNCHANGED <<widgets, events>>

\* An exception keeps the window; otherwise the process ends, and its workers are
\* daemon threads.
ExitEnd ==
    /\ stage[Tk] = "ended"
    /\ \/ result[Tk] = "exception" /\ Release(Tk) /\ UNCHANGED <<events, window>>
       \/ /\ result[Tk] # "exception"
          /\ window' = FALSE
          /\ events' = <<>>
          /\ operation' = [t \in Threads |-> "none"]
          /\ stage' = [t \in Threads |-> "free"]
          /\ mine' = [t \in Threads |-> None]
          /\ result' = [t \in Threads |-> "none"]
          /\ disturbed' = {}
          /\ UNCHANGED <<fields, connections, overlapped>>
    /\ UNCHANGED <<enabled, image_path, video, video_dialog, scan_dialog, polling>>

-------------------------------------------------------------------------------

Press == \/ ScanPressed \/ CloseScanDialog \/ ConnectPressed \/ ClosePressed
         \/ RefreshPressed \/ InferPressed \/ ChooseImage \/ OpenVideoDialog
         \/ CloseVideoDialog \/ StartVideo \/ StopPressed

AppNext == Press \/ (\E t \in Workers : Work(t)) \/ HandleEvent \/ VideoEnds
               \/ Exit \/ ExitStep \/ ExitEnd

AppSpec == AppInit /\ [][AppNext]_appVars

-------------------------------------------------------------------------------

AppTypeOK == /\ TypeOK
             /\ enabled \subseteq Buttons
             /\ {image_path, video_dialog, polling, window} \subseteq BOOLEAN
             /\ video \in {"none", "running", "over"}
             /\ scan_dialog \in {"closed", "open", "filled", "stale"}
             /\ \A i \in 1 .. Len(events) : events[i] \in Workers /\ stage[events[i]] = "ended"

\* When nothing is under way the buttons show what can be done: however operations,
\* videos and updates made meanwhile have crossed, exactly the right ones work.
\* (Infer may be missing after a file that was no image.)
ControlsSettle ==
    window /\ polling /\ (\A t \in Threads : stage[t] = "free") =>
        LET right == Controls(image_path, video = "running")
        IN  enabled \subseteq right /\ right \subseteq enabled \cup {"infer"}

\* A window with all of Scan, Connect and Close disabled is waiting for something:
\* an operation that is under way or whose event is to be handled, after which they
\* are updated.  (Unless polling has died, as it may: see RowsCollide.)
BusyForAReason ==
    window /\ polling /\ enabled \cap {"scan", "connect", "close"} = {} =>
        \E t \in Workers :
            /\ operation[t] \in {"scan", "connect", "close", "infer"}
            /\ Active(t) \/ \E i \in 1 .. Len(events) : events[i] = t
===============================================================================
