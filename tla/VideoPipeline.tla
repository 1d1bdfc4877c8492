----------------------------- MODULE VideoPipeline -----------------------------
(***************************************************************************)
(* client/tk_app.py: video playback with inference.  Each video has a      *)
(* capture thread and an inference thread of its own; all of them share    *)
(* two queues of one slot and the events queue that the Tk thread polls.   *)
(* Nothing joins a thread: a new video starts while the threads of the one *)
(* before may still be in capture.read() or in an inference.               *)
(*                                                                         *)
(* A video is identified with video_generation at its start; its           *)
(* stop_event is stop_event[g].  Of a frame, an event or what is shown the  *)
(* generation is all that matters here.                                    *)
(***************************************************************************)
EXTENDS Integers, Sequences, FiniteSets, SequencesExt

CONSTANTS MaxVideos,     \* bound on the videos started
          MaxEvents      \* bound on the events waiting when a response is put

ASSUME VideoAssumption == /\ MaxVideos \in Nat \ {0}
                          /\ MaxEvents \in Nat \ {0}

VARIABLES video_generation, video_running, \* of the Tk thread
          started,                         \* the generation of the last video started
          stop_event,                      \* set, for each video
          video_frames, inference_frames,  \* queue.Queue(maxsize=1)
          events,                          \* queue.Queue()
          capture, inference,              \* where each capture and inference thread is
          shown, last_response             \* the frame and the response displayed

tk == <<video_generation, video_running, started, shown, last_response>>
vars == <<tk, stop_event, video_frames, inference_frames, events,
          capture, inference>>

\* Starting a video and stopping it add one each to video_generation: these are
\* the generations a video can have.
Generations == 1 .. 2 * MaxVideos - 1

Started(g) == capture[g] # "none"

Nothing == 0  \* no frame, no response: _start_video adds one before it uses a generation

\* _put_latest is a put, and if the queue is full a get and another put.
CaptureStages == {"none", "loop", "video_put", "video_get", "video_reput",
                  "inference_put", "inference_get", "inference_reput",
                  "ending", "announce", "set_stop", "exited"}

InferenceStages == {"none", "loop", "get", "infer", "announce", "exited"}

\* video_end and video_error are handled alike: they are "end" here.

Event(kind, g) == [kind |-> kind, generation |-> g]

-------------------------------------------------------------------------------

Init == /\ video_generation = 0
        /\ video_running = FALSE
        /\ started = 0
        /\ stop_event = [g \in Generations |-> FALSE]
        /\ video_frames = <<>>
        /\ inference_frames = <<>>
        /\ events = <<>>
        /\ capture = [g \in Generations |-> "none"]
        /\ inference = [g \in Generations |-> "none"]
        /\ shown = Nothing
        /\ last_response = Nothing

-------------------------------------------------------------------------------

\* _start_video first stops the video that is running: the stream dialog may be
\* left open and used then.
StartVideo ==
    LET g == video_generation + (IF video_running THEN 2 ELSE 1)
    IN  /\ Cardinality({v \in Generations : Started(v)}) < MaxVideos
        /\ video_generation' = g
        /\ started' = g
        /\ video_running' = TRUE
        /\ stop_event' = IF video_running THEN [stop_event EXCEPT ![started] = TRUE]
                                          ELSE stop_event
        /\ video_frames' = <<>>
        /\ inference_frames' = <<>>
        /\ shown' = Nothing
        /\ last_response' = Nothing
        /\ capture' = [capture EXCEPT ![g] = "loop"]
        /\ inference' = [inference EXCEPT ![g] = "loop"]
        /\ UNCHANGED events

\* _stop_video: from the Stop button, closing the session, choosing an image or
\* exit; it does nothing unless video_running.
StopVideo ==
    /\ video_running
    /\ stop_event' = [stop_event EXCEPT ![started] = TRUE]
    /\ video_generation' = video_generation + 1
    /\ video_running' = FALSE
    /\ UNCHANGED <<started, shown, last_response, video_frames, inference_frames, events,
                   capture, inference>>

\* Mutated: shows whatever frame is in the queue.
PollFrameUnchecked ==
    /\ video_frames # <<>>
    /\ video_frames' = Tail(video_frames)
    /\ shown' = Head(video_frames)
    /\ UNCHANGED <<video_generation, video_running, started, last_response, stop_event,
                   inference_frames, events, capture, inference>>

\* _poll_events takes the frame in video_frames, if any: _handle_video_frame.
PollFrame ==
    /\ video_frames # <<>>
    /\ video_frames' = Tail(video_frames)
    /\ shown' = IF Head(video_frames) = video_generation /\ video_running
                  THEN Head(video_frames) ELSE shown
    /\ UNCHANGED <<video_generation, video_running, started, last_response, stop_event,
                   inference_frames, events, capture, inference>>

\* _poll_events takes an event: _handle_event, for the three video events.  A
\* response is rendered only over a frame that has been shown.
PollEvent ==
    /\ events # <<>>
    /\ events' = Tail(events)
    /\ LET e == Head(events)
           mine == e.generation = video_generation
       IN  /\ video_running' = (video_running /\ ~ (mine /\ e.kind = "end"))
           /\ last_response' = IF /\ mine /\ video_running /\ e.kind = "inference"
                                  /\ shown # Nothing
                                 THEN e.generation ELSE last_response
    /\ UNCHANGED <<video_generation, started, shown, stop_event, video_frames,
                   inference_frames, capture, inference>>

-------------------------------------------------------------------------------

CaptureGoto(g, from, to) == /\ capture[g] = from
                            /\ capture' = [capture EXCEPT ![g] = to]

\* while not stop_event.is_set(), and capture.read(): a frame, the end of the
\* source, or an exception (the source cannot be opened, the frame cannot be
\* converted).  The thread that ends looks at the stop event once more, and the
\* one that waits for the time of its frame may notice the stop then.
CaptureRead(g) ==
    /\ IF stop_event[g] THEN CaptureGoto(g, "loop", "exited")
                        ELSE \E to \in {"video_put", "announce"} : CaptureGoto(g, "loop", to)
    /\ UNCHANGED <<tk, stop_event, video_frames, inference_frames, events, inference>>

\* Mutated: a queue made without its maxsize.
PutNowaitUnbounded(slot, slot_, g) == slot_ = Append(slot, g)

\* put_nowait(item), which raises queue.Full unless the slot is free
PutNowait(slot, slot_, g) == slot = <<>> /\ slot_ = <<g>>

\* _put_latest(self.video_frames, ...)
PutVideo(g) ==
    /\ \/ /\ CaptureGoto(g, "video_put", "inference_put")
          /\ PutNowait(video_frames, video_frames', g)
       \/ /\ CaptureGoto(g, "video_put", "video_get")
          /\ video_frames # <<>> /\ UNCHANGED video_frames
       \/ /\ CaptureGoto(g, "video_get", "video_reput")
          /\ video_frames' = <<>>
       \/ /\ CaptureGoto(g, "video_reput", "inference_put")
          /\ PutNowait(video_frames, video_frames', g)
       \/ /\ CaptureGoto(g, "video_reput", "ending")
          /\ video_frames # <<>> /\ UNCHANGED video_frames
    /\ UNCHANGED <<tk, stop_event, inference_frames, events, inference>>

\* _put_latest(self.inference_frames, ...)
PutInference(g) ==
    /\ \/ /\ CaptureGoto(g, "inference_put", "loop")
          /\ PutNowait(inference_frames, inference_frames', g)
       \/ /\ CaptureGoto(g, "inference_put", "inference_get")
          /\ inference_frames # <<>> /\ UNCHANGED inference_frames
       \/ /\ CaptureGoto(g, "inference_get", "inference_reput")
          /\ inference_frames' = <<>>
       \/ /\ CaptureGoto(g, "inference_reput", "loop")
          /\ PutNowait(inference_frames, inference_frames', g)
       \/ /\ CaptureGoto(g, "inference_reput", "ending")
          /\ inference_frames # <<>> /\ UNCHANGED inference_frames
    /\ UNCHANGED <<tk, stop_event, video_frames, events, inference>>

\* Mutated: an announced end does not set the stop event.
CaptureEndSilent(g) ==
    /\ \/ /\ CaptureGoto(g, "ending", IF stop_event[g] THEN "exited" ELSE "announce")
          /\ UNCHANGED events
       \/ /\ CaptureGoto(g, "announce", "exited")
          /\ events' = Append(events, Event("end", g))
    /\ UNCHANGED <<tk, stop_event, video_frames, inference_frames, inference>>

\* The end of the thread: unless it was told to stop it puts an event and then
\* sets the stop event itself, for the inference thread.
CaptureEnd(g) ==
    /\ \/ /\ CaptureGoto(g, "ending", IF stop_event[g] THEN "exited" ELSE "announce")
          /\ UNCHANGED <<events, stop_event>>
       \/ /\ CaptureGoto(g, "announce", "set_stop")
          /\ events' = Append(events, Event("end", g))
          /\ UNCHANGED stop_event
       \/ /\ CaptureGoto(g, "set_stop", "exited")
          /\ stop_event' = [stop_event EXCEPT ![g] = TRUE]
          /\ UNCHANGED events
    /\ UNCHANGED <<tk, video_frames, inference_frames, inference>>

-------------------------------------------------------------------------------

InferenceGoto(g, from, to) == /\ inference[g] = from
                              /\ inference' = [inference EXCEPT ![g] = to]

\* while not stop_event.is_set()
InferenceLoop(g) ==
    /\ InferenceGoto(g, "loop", IF stop_event[g] THEN "exited" ELSE "get")
    /\ UNCHANGED <<tk, stop_event, video_frames, inference_frames, events, capture>>

\* inference_frames.get(timeout=0.1): nothing, or a frame, and one of another
\* video is thrown away.
InferenceGet(g) ==
    /\ InferenceGoto(g, "get", IF inference_frames = <<g>> THEN "infer" ELSE "loop")
    /\ inference_frames' = <<>>
    /\ UNCHANGED <<tk, stop_event, video_frames, events, capture>>

\* Mutated: tells the capture thread to stop first, and then finds itself stopped.
InferenceCallStopping(g) ==
    /\ \/ /\ InferenceGoto(g, "infer", "loop")
          /\ \/ UNCHANGED events
             \/ /\ Len(events) < MaxEvents
                /\ events' = Append(events, Event("inference", g))
          /\ UNCHANGED stop_event
       \/ /\ InferenceGoto(g, "infer", "exited")
          /\ stop_event' = [stop_event EXCEPT ![g] = TRUE]
          /\ UNCHANGED events
    /\ UNCHANGED <<tk, video_frames, inference_frames, capture>>

\* The frame is encoded, or skipped if it cannot be, and infer_bytes answers or
\* raises, with its timeout of 5 s.  An exception ends the thread, with an event
\* unless it was told to stop.
InferenceCall(g) ==
    /\ \/ /\ InferenceGoto(g, "infer", "loop")
          /\ \/ UNCHANGED events
             \/ /\ Len(events) < MaxEvents
                /\ events' = Append(events, Event("inference", g))
       \/ /\ InferenceGoto(g, "infer", IF stop_event[g] THEN "exited" ELSE "announce")
          /\ UNCHANGED events
    /\ UNCHANGED <<tk, stop_event, video_frames, inference_frames, capture>>

\* The event leaves the stop event as it is.
InferenceEnd(g) ==
    /\ InferenceGoto(g, "announce", "exited")
    /\ events' = Append(events, Event("end", g))
    /\ UNCHANGED <<tk, stop_event, video_frames, inference_frames, capture>>

-------------------------------------------------------------------------------

CaptureStep(g) == CaptureRead(g) \/ PutVideo(g) \/ PutInference(g) \/ CaptureEnd(g)

InferenceStep(g) == \/ InferenceLoop(g) \/ InferenceGet(g)
                    \/ InferenceCall(g) \/ InferenceEnd(g)

Poll == PollFrame \/ PollEvent

Next == \/ StartVideo
        \/ StopVideo
        \/ Poll
        \/ \E g \in Generations : CaptureStep(g) \/ InferenceStep(g)

Spec == Init /\ [][Next]_vars

\* Threads run: infer_bytes() has a timeout, no queue makes one wait, and read() has a
\* timeout for URLs; that it returns for a file or a camera is an assumption.
FairSpec == /\ Spec
            /\ \A g \in Generations : WF_vars(CaptureStep(g)) /\ WF_vars(InferenceStep(g))

-------------------------------------------------------------------------------

TypeOK == /\ video_generation \in 0 .. 2 * MaxVideos
          /\ started \in 0 .. video_generation
          /\ video_running \in BOOLEAN
          /\ stop_event \in [Generations -> BOOLEAN]
          /\ video_frames \in BoundedSeq(Generations, 1)
          /\ inference_frames \in BoundedSeq(Generations, 1)
          /\ Len(events) <= MaxEvents + 2 * MaxVideos
          /\ capture \in [Generations -> CaptureStages]
          /\ inference \in [Generations -> InferenceStages]
          /\ {shown, last_response} \subseteq Generations \cup {Nothing}

\* What is on the screen belongs to the video that was started last: neither a
\* frame nor a response of an earlier one, whose threads may still be working,
\* is ever shown in it.
OnlyCurrentShown == {shown, last_response} \subseteq {Nothing, started}

\* A thread of the running video that ends, for whatever reason and in whatever
\* order with the other, leaves the Tk thread an event to learn it from.
DeathAnnounced ==
    video_running /\ "exited" \in {capture[started], inference[started]}
    => \E i \in 1 .. Len(events) : /\ events[i].generation = started
                                   /\ events[i].kind = "end"

\* A video that is told to stop, or whose capture thread has ended by itself, gets
\* rid of both its threads: again and again (a stop event stays set, and an ended
\* thread ended) there is no such video with a thread left.
ThreadsEnd ==
    []<>(\A g \in Generations :
           stop_event[g] \/ capture[g] = "exited"
           => capture[g] = "exited" /\ inference[g] = "exited")

\* README.md:106: "Stop can be pressed at any time".  The button works while
\* video_running: so a thread that is capturing frames is one Stop would end.
StopAvailable ==
    \A g \in Generations :
        capture[g] = "loop" /\ ~ stop_event[g] => video_running /\ started = g

\* README.md:106: frames that inference is too slow for are skipped.  Putting the
\* latest frame of the video being watched never fails for want of room.
PutLatestSucceeds ==
    [][\A g \in Generations :
         capture[g] \in {"video_reput", "inference_reput"} /\ capture'[g] = "ending"
         => started # g]_vars
===============================================================================
