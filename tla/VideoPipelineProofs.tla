-------------------------- MODULE VideoPipelineProofs --------------------------
(***************************************************************************)
(* Proofs about VideoPipeline, for any number of videos: what is shown     *)
(* belongs to the video started last, and its threads do not die without   *)
(* leaving an event.                                                       *)
(***************************************************************************)
EXTENDS VideoPipeline, FiniteSetTheorems, SequenceTheorems, TLAPS

\* What the events queue holds
Item == [kind : {"inference", "end"}, generation : Generations]

\* The end of video g is announced in the queue q.
AnnouncedIn(q, g) == \E i \in 1 .. Len(q) : q[i].generation = g /\ q[i].kind = "end"

LEMMA AnnouncedAppend ==
    ASSUME NEW q \in Seq(Item), NEW e \in Item, NEW g
    PROVE  /\ Append(q, e) \in Seq(Item) /\ Len(Append(q, e)) = Len(q) + 1
           /\ AnnouncedIn(q, g) => AnnouncedIn(Append(q, e), g)
           /\ e = Event("end", g) => AnnouncedIn(Append(q, e), g)
<1>1. Append(q, e) \in Seq(Item) /\ Len(Append(q, e)) = Len(q) + 1
      OBVIOUS
<1>2. ASSUME AnnouncedIn(q, g) PROVE AnnouncedIn(Append(q, e), g)
  <2>1. PICK i \in 1 .. Len(q) : q[i].generation = g /\ q[i].kind = "end"
        BY <1>2 DEF AnnouncedIn
  <2>2. i \in 1 .. Len(Append(q, e)) /\ Append(q, e)[i] = q[i]
        OBVIOUS
  <2> QED BY <2>1, <2>2 DEF AnnouncedIn
<1>3. ASSUME e = Event("end", g) PROVE AnnouncedIn(Append(q, e), g)
  <2>1. Len(q) + 1 \in 1 .. Len(Append(q, e)) /\ Append(q, e)[Len(q) + 1] = e
        OBVIOUS
  <2>2. e.generation = g /\ e.kind = "end"
        BY <1>3 DEF Event
  <2> QED BY <2>1, <2>2 DEF AnnouncedIn
<1> QED BY <1>1, <1>2, <1>3

LEMMA AnnouncedTail ==
    ASSUME NEW q \in Seq(Item), q # <<>>, NEW g
    PROVE  /\ Head(q) \in Item /\ Tail(q) \in Seq(Item) /\ Len(Tail(q)) = Len(q) - 1
           /\ AnnouncedIn(q, g) => \/ Head(q).generation = g /\ Head(q).kind = "end"
                                   \/ AnnouncedIn(Tail(q), g)
<1>1. Head(q) \in Item /\ Tail(q) \in Seq(Item) /\ Len(Tail(q)) = Len(q) - 1
      OBVIOUS
<1>2. ASSUME AnnouncedIn(q, g)
      PROVE  \/ Head(q).generation = g /\ Head(q).kind = "end"
             \/ AnnouncedIn(Tail(q), g)
  <2>1. PICK i \in 1 .. Len(q) : q[i].generation = g /\ q[i].kind = "end"
        BY <1>2 DEF AnnouncedIn
  <2>2. CASE i = 1
    <3>1. Head(q) = q[i]
          BY <2>2
    <3> QED BY <2>1, <3>1
  <2>3. CASE i # 1
    <3>1. i - 1 \in 1 .. Len(Tail(q)) /\ Tail(q)[i - 1] = q[i]
          BY <2>3
    <3> QED BY <2>1, <3>1 DEF AnnouncedIn
  <2> QED BY <2>2, <2>3
<1> QED BY <1>1, <1>2

-------------------------------------------------------------------------------
\* The inductive invariant

Typed == /\ video_generation \in Nat
         /\ started \in 0 .. video_generation
         /\ video_running \in BOOLEAN
         /\ stop_event \in [Generations -> BOOLEAN]
         /\ video_frames \in Seq(Generations) /\ Len(video_frames) <= 1
         /\ inference_frames \in Seq(Generations) /\ Len(inference_frames) <= 1
         /\ events \in Seq(Item)
         /\ capture \in [Generations -> CaptureStages]
         /\ inference \in [Generations -> InferenceStages]
         /\ {shown, last_response} \subseteq Generations \cup {Nothing}

\* The running video is the one started last, and has the current generation.
Current == video_running => started = video_generation /\ started \in Generations

\* A generation that is yet to come is untouched, and threads come in pairs.
Fresh(g) == /\ g > video_generation =>
                 ~ stop_event[g] /\ capture[g] = "none" /\ inference[g] = "none"
            /\ inference[g] # "none" => capture[g] # "none"

CaptureEnded == {g \in Generations : capture[g] \in {"set_stop", "exited"}}

InferenceEnded == {g \in Generations : inference[g] = "exited"}

\* Once one thread of the running video is on its way out, the Tk thread is told.
Told == /\ video_running
        /\ \/ stop_event[started]
           \/ started \in CaptureEnded
           \/ started \in InferenceEnded
        => AnnouncedIn(events, started)

Videos == {g \in Generations : Started(g)}

\* Each video takes two generations, the running one only one so far, and each of its
\* threads puts at most one end into the queue.
Bounded ==
    /\ Cardinality(Videos) <= MaxVideos
    /\ video_generation <= 2 * Cardinality(Videos) - (IF video_running THEN 1 ELSE 0)
    /\ Len(events) <= MaxEvents + Cardinality(CaptureEnded) + Cardinality(InferenceEnded)

SafeVideo == /\ Typed
             /\ OnlyCurrentShown
             /\ Current
             /\ \A g \in Generations : Fresh(g)
             /\ Told
             /\ Bounded

LEMMA FiniteParts ==
    ASSUME NEW P, P \subseteq Generations
    PROVE  IsFiniteSet(P) /\ Cardinality(P) \in Nat
<1>1. IsFiniteSet(Generations)
      BY VideoAssumption, FS_Interval DEF Generations
<1> QED BY <1>1, FS_Subset, FS_CardinalityType

LEMMA OneMore ==
    ASSUME NEW P, P \subseteq Generations, NEW g \in Generations \ P, NEW Q, Q = P \cup {g}
    PROVE  Cardinality(Q) = Cardinality(P) + 1
BY FiniteParts, FS_AddElement

LEMMA EmptyQueue == \A S : <<>> \in Seq(S) /\ Len(<<>>) <= 1
OBVIOUS

LEMMA FullQueue == \A S : \A e \in S : <<e>> \in Seq(S) /\ Len(<<e>>) <= 1
<1> SUFFICES ASSUME NEW S, NEW e \in S PROVE <<e>> \in Seq(S) /\ Len(<<e>>) <= 1
    OBVIOUS
<1> QED OBVIOUS

LEMMA VideoInit == Init => SafeVideo
<1> SUFFICES ASSUME Init PROVE SafeVideo
    OBVIOUS
<1>1. Typed
  <2>0. /\ video_generation = 0 /\ started = 0
        /\ video_running = FALSE /\ shown = Nothing /\ last_response = Nothing
        BY DEF Init
  <2>1. video_generation \in Nat /\ started \in 0 .. video_generation
        BY <2>0
  <2>2. /\ video_frames \in Seq(Generations) /\ Len(video_frames) <= 1
        /\ inference_frames \in Seq(Generations) /\ Len(inference_frames) <= 1
        /\ events \in Seq(Item)
        BY EmptyQueue DEF Init
  <2>3. /\ stop_event \in [Generations -> BOOLEAN]
        /\ capture \in [Generations -> CaptureStages]
        /\ inference \in [Generations -> InferenceStages]
        BY DEF Init, CaptureStages, InferenceStages
  <2>4. video_running \in BOOLEAN /\ {shown, last_response} \subseteq {Nothing}
        BY <2>0
  <2> QED BY <2>1, <2>2, <2>3, <2>4 DEF Typed
<1>2. OnlyCurrentShown /\ Current /\ Told /\ \A g \in Generations : Fresh(g)
      BY DEF Init, OnlyCurrentShown, Current, Told, Fresh, Generations
<1>3. Bounded
  <2>1. Videos = {} /\ CaptureEnded = {} /\ InferenceEnded = {}
        BY DEF Init, Videos, Started, CaptureEnded, InferenceEnded
  <2>2. Cardinality({}) = 0
        BY FS_EmptySet
  <2>3. video_generation = 0 /\ ~ video_running /\ Len(events) = 0
        BY DEF Init
  <2> QED BY <2>1, <2>2, <2>3, VideoAssumption DEF Bounded
<1> QED BY <1>1, <1>2, <1>3 DEF SafeVideo

-------------------------------------------------------------------------------
\* The Tk thread

LEMMA StartVideoSafe ==
    ASSUME SafeVideo, StartVideo
    PROVE  SafeVideo'
<1> DEFINE g == video_generation + (IF video_running THEN 2 ELSE 1)
           n == Cardinality(Videos)
<1> USE DEF SafeVideo, Typed
<1>1. n \in Nat /\ n < MaxVideos /\ video_generation <= 2 * n - (IF video_running THEN 1 ELSE 0)
      BY FiniteParts DEF Bounded, StartVideo, Videos
<1>2. /\ g \in Generations /\ g > video_generation
      /\ g <= 2 * (n + 1) - 1
      BY <1>1, VideoAssumption DEF Generations
<1>3. ~ stop_event[g] /\ capture[g] = "none" /\ inference[g] = "none"
      BY <1>2 DEF Fresh
<1>4. /\ video_generation' = g /\ started' = g /\ video_running' = TRUE
      /\ video_frames' = <<>> /\ inference_frames' = <<>> /\ events' = events
      /\ shown' = Nothing /\ last_response' = Nothing
      /\ capture' = [capture EXCEPT ![g] = "loop"]
      /\ inference' = [inference EXCEPT ![g] = "loop"]
      BY DEF StartVideo
<1>5. /\ stop_event' \in [Generations -> BOOLEAN]
      /\ ~ stop_event'[g]
      /\ \A h \in Generations : h > g => stop_event'[h] = stop_event[h]
  <2>1. CASE video_running
    <3>1. started # g /\ started \in Generations /\ ~ (started > g)
          BY <1>2, <2>1 DEF Current
    <3>2. stop_event' = [stop_event EXCEPT ![started] = TRUE]
          BY <2>1 DEF StartVideo
    <3> QED BY <1>2, <1>3, <3>1, <3>2
  <2>2. CASE ~ video_running
        BY <1>3, <2>2 DEF StartVideo
  <2> QED BY <2>1, <2>2
<1>6. Typed'
  <2>1. g \in Nat
        OBVIOUS
  <2>2. video_generation' \in Nat /\ started' \in 0 .. video_generation'
        BY <1>4, <2>1
  <2>3. /\ capture' \in [Generations -> CaptureStages]
        /\ inference' \in [Generations -> InferenceStages]
        BY <1>4 DEF CaptureStages, InferenceStages
  <2>4. /\ video_frames' \in Seq(Generations) /\ Len(video_frames') <= 1
        /\ inference_frames' \in Seq(Generations) /\ Len(inference_frames') <= 1
        BY <1>4, EmptyQueue
  <2> QED BY <1>4, <1>5, <2>2, <2>3, <2>4
<1>7. OnlyCurrentShown' /\ Current'
      BY <1>2, <1>4 DEF OnlyCurrentShown, Current
<1>8. ASSUME NEW h \in Generations PROVE Fresh(h)'
  <2>1. CASE h = g
        BY <1>2, <1>4, <2>1 DEF Fresh
  <2>2. CASE h # g
    <3>1. capture'[h] = capture[h] /\ inference'[h] = inference[h]
          BY <1>4, <2>2
    <3>2. h > g => h > video_generation /\ stop_event'[h] = stop_event[h]
          BY <1>2, <1>5 DEF Generations
    <3> QED BY <1>4, <3>1, <3>2 DEF Fresh
  <2> QED BY <2>1, <2>2
<1>9. CaptureEnded' = CaptureEnded /\ InferenceEnded' = InferenceEnded /\ Videos' = Videos \cup {g}
      BY <1>2, <1>3, <1>4 DEF CaptureEnded, InferenceEnded, Videos, Started
<1>10. Told'
  <2>1. g \notin CaptureEnded /\ g \notin InferenceEnded
        BY <1>3 DEF CaptureEnded, InferenceEnded
  <2> QED BY <1>4, <1>5, <1>9, <2>1 DEF Told
<1>11. Bounded'
  <2>1. Cardinality(Videos') = n + 1
    <3>1. g \notin Videos
          BY <1>3 DEF Videos, Started
    <3> QED BY <1>2, <1>9, <3>1, OneMore DEF Videos
  <2>2. video_generation' = g /\ video_running' /\ events' = events
        BY <1>4
  <2> QED BY <1>1, <1>2, <1>9, <2>1, <2>2, VideoAssumption DEF Bounded
<1> QED BY <1>6, <1>7, <1>8, <1>10, <1>11

LEMMA StopVideoSafe ==
    ASSUME SafeVideo, StopVideo
    PROVE  SafeVideo'
<1> USE DEF SafeVideo, Typed
<1>1. /\ video_running /\ ~ video_running' /\ video_generation' = video_generation + 1
      /\ started \in Generations /\ started = video_generation /\ started' = started
      /\ stop_event' = [stop_event EXCEPT ![started] = TRUE]
      /\ shown' = shown /\ last_response' = last_response /\ events' = events
      /\ video_frames' = video_frames /\ inference_frames' = inference_frames
      /\ capture' = capture /\ inference' = inference
      BY DEF StopVideo, Current
<1>2. Typed'
  <2>1. video_generation' \in Nat /\ started' \in 0 .. video_generation'
        BY <1>1
  <2>2. video_running' \in BOOLEAN /\ stop_event' \in [Generations -> BOOLEAN]
        BY <1>1 DEF StopVideo
  <2> QED BY <1>1, <2>1, <2>2
<1>3. OnlyCurrentShown' /\ Current' /\ Told'
      BY <1>1 DEF OnlyCurrentShown, Current, Told
<1>4. ASSUME NEW h \in Generations PROVE Fresh(h)'
  <2>1. h > video_generation + 1 => h > video_generation /\ h # started
        BY <1>1 DEF Generations
  <2> QED BY <1>1, <2>1 DEF Fresh
<1>5. Bounded'
  <2>1. CaptureEnded' = CaptureEnded /\ InferenceEnded' = InferenceEnded /\ Videos' = Videos
        BY <1>1 DEF CaptureEnded, InferenceEnded, Videos, Started
  <2>2. Cardinality(Videos) \in Nat
        BY FiniteParts DEF Videos
  <2> QED BY <1>1, <2>1, <2>2 DEF Bounded
<1> QED BY <1>2, <1>3, <1>4, <1>5

LEMMA PollSafe ==
    ASSUME SafeVideo, Poll
    PROVE  SafeVideo'
<1> USE DEF SafeVideo, Typed
<1>1. /\ video_generation' = video_generation /\ started' = started /\ stop_event' = stop_event
      /\ inference_frames' = inference_frames /\ capture' = capture /\ inference' = inference
      BY DEF Poll, PollFrame, PollEvent
<1>2. CaptureEnded' = CaptureEnded /\ InferenceEnded' = InferenceEnded /\ Videos' = Videos
      BY <1>1 DEF CaptureEnded, InferenceEnded, Videos, Started
<1>3. \A h \in Generations : Fresh(h)'
      BY <1>1 DEF Fresh
<1>4. CASE PollFrame
  <2>1. /\ video_running' = video_running /\ last_response' = last_response /\ events' = events
        /\ video_frames # <<>> /\ video_frames' = Tail(video_frames)
        BY <1>4 DEF PollFrame
  <2>2. Head(video_frames) \in Generations /\ video_frames' \in Seq(Generations)
        /\ Len(video_frames') <= 1
        BY <2>1
  <2>3. shown' \in Generations \cup {Nothing} /\ shown' \in {Nothing, started}
    <3>1. CASE Head(video_frames) = video_generation /\ video_running
          BY <1>4, <2>2, <3>1 DEF PollFrame, Current
    <3>2. CASE ~ (Head(video_frames) = video_generation /\ video_running)
          BY <1>4, <3>2 DEF PollFrame, OnlyCurrentShown
    <3> QED BY <3>1, <3>2
  <2>4. Typed' /\ OnlyCurrentShown' /\ Current'
        BY <1>1, <2>1, <2>2, <2>3 DEF OnlyCurrentShown, Current
  <2>5. Told' /\ Bounded'
        BY <1>1, <1>2, <2>1 DEF Told, Bounded
  <2> QED BY <1>3, <2>4, <2>5
<1>5. CASE PollEvent
  <2> DEFINE e == Head(events)
  <2>1. /\ events # <<>> /\ events' = Tail(events) /\ shown' = shown
        /\ video_frames' = video_frames
        /\ video_running' = (video_running /\ ~ (e.generation = video_generation /\ e.kind = "end"))
        BY <1>5 DEF PollEvent
  <2>2. e \in Item /\ events' \in Seq(Item) /\ Len(events') = Len(events) - 1
        /\ e.generation \in Generations
        BY <2>1, AnnouncedTail DEF Item
  <2>3. last_response' \in Generations \cup {Nothing} /\ last_response' \in {Nothing, started}
    <3>1. CASE last_response' = last_response
          BY <3>1 DEF OnlyCurrentShown
    <3>2. CASE last_response' # last_response
      <4>1. last_response' = e.generation /\ e.generation = video_generation /\ video_running
            BY <1>5, <3>2 DEF PollEvent
      <4> QED BY <2>2, <4>1 DEF Current
    <3> QED BY <3>1, <3>2
  <2>4. video_running' \in BOOLEAN /\ (video_running' => video_running)
        BY <2>1
  <2>5. Typed'
        BY <1>1, <2>1, <2>2, <2>3, <2>4
  <2>6. OnlyCurrentShown' /\ Current'
        BY <1>1, <2>1, <2>3, <2>4 DEF OnlyCurrentShown, Current
  <2>7. Told'
    <3> SUFFICES ASSUME video_running', AnnouncedIn(events, started)
                 PROVE  AnnouncedIn(events', started)
        BY <1>1, <1>2, <2>4 DEF Told
    <3>1. ~ (e.generation = started /\ e.kind = "end")
          BY <2>1, <2>4 DEF Current
    <3> QED BY <2>1, <3>1, AnnouncedTail
  <2>8. Bounded'
    <3>1. /\ Cardinality(CaptureEnded) \in Nat /\ Cardinality(InferenceEnded) \in Nat
          /\ Cardinality(Videos) \in Nat
          BY FiniteParts DEF CaptureEnded, InferenceEnded, Videos
    <3>2. /\ Len(events') <= Len(events) /\ Len(events) \in Nat /\ Len(events') \in Nat
          BY <2>2
    <3>3. /\ (IF video_running' THEN 1 ELSE 0) <= (IF video_running THEN 1 ELSE 0)
          BY <2>4
    <3> QED BY <1>1, <1>2, <3>1, <3>2, <3>3, VideoAssumption DEF Bounded
  <2> QED BY <1>3, <2>5, <2>6, <2>7, <2>8
<1> QED BY <1>4, <1>5 DEF Poll

-------------------------------------------------------------------------------
\* The threads

\* A thread of video g puts an end into the queue, or not.
Announces(g, yes) == events' = IF yes THEN Append(events, Event("end", g)) ELSE events

LEMMA CaptureMoves ==
    ASSUME Typed, NEW g \in Generations, CaptureStep(g)
    PROVE  /\ UNCHANGED <<tk, inference>>
           /\ capture[g] \notin {"none", "exited"}
           /\ capture'[g] \in CaptureStages \ {"none"}
           /\ capture' = [capture EXCEPT ![g] = capture'[g]]
           /\ video_frames' \in Seq(Generations) /\ Len(video_frames') <= 1
           /\ inference_frames' \in Seq(Generations) /\ Len(inference_frames') <= 1
           /\ Announces(g, capture[g] = "announce")
           /\ capture[g] = "announce" => capture'[g] = "set_stop"
           /\ capture[g] = "set_stop" => capture'[g] = "exited"
           /\ stop_event' = IF capture[g] = "set_stop" THEN [stop_event EXCEPT ![g] = TRUE]
                                                       ELSE stop_event
           /\ capture'[g] \in {"set_stop", "exited"} =>
                 stop_event[g] \/ capture[g] \in {"announce", "set_stop"}
<1>1. /\ <<>> \in Seq(Generations) /\ Len(<<>>) <= 1
      /\ <<g>> \in Seq(Generations) /\ Len(<<g>>) <= 1
      BY EmptyQueue, FullQueue
<1> USE DEF Typed, Announces, CaptureStages
<1>2. CASE CaptureRead(g)
      BY <1>2 DEF CaptureRead, CaptureGoto
<1>3. CASE PutVideo(g)
  <2>1. /\ video_frames' \in {video_frames, <<>>, <<g>>}
        /\ UNCHANGED <<tk, stop_event, inference_frames, events, inference>>
        /\ \E from \in {"video_put", "video_get", "video_reput"},
              to \in {"inference_put", "video_get", "video_reput", "ending"} :
              CaptureGoto(g, from, to)
        BY <1>3 DEF PutVideo, PutNowait
  <2>2. video_frames' \in Seq(Generations) /\ Len(video_frames') <= 1
        BY <1>1, <2>1
  <2> QED BY <2>1, <2>2 DEF CaptureGoto
<1>4. CASE PutInference(g)
  <2>1. /\ inference_frames' \in {inference_frames, <<>>, <<g>>}
        /\ UNCHANGED <<tk, stop_event, video_frames, events, inference>>
        /\ \E from \in {"inference_put", "inference_get", "inference_reput"},
              to \in {"loop", "inference_get", "inference_reput", "ending"} :
              CaptureGoto(g, from, to)
        BY <1>4 DEF PutInference, PutNowait
  <2>2. inference_frames' \in Seq(Generations) /\ Len(inference_frames') <= 1
        BY <1>1, <2>1
  <2> QED BY <2>1, <2>2 DEF CaptureGoto
<1>5. CASE CaptureEnd(g)
      BY <1>5 DEF CaptureEnd, CaptureGoto
<1> QED BY <1>2, <1>3, <1>4, <1>5 DEF CaptureStep

LEMMA InferenceMoves ==
    ASSUME Typed, NEW g \in Generations, InferenceStep(g)
    PROVE  /\ UNCHANGED <<tk, stop_event, video_frames, capture>>
           /\ inference[g] \notin {"none", "exited"}
           /\ inference'[g] \in InferenceStages \ {"none"}
           /\ inference' = [inference EXCEPT ![g] = inference'[g]]
           /\ inference_frames' \in Seq(Generations) /\ Len(inference_frames') <= 1
           /\ inference[g] = "announce" => inference'[g] = "exited"
           /\ inference'[g] = "exited" => stop_event[g] \/ inference[g] = "announce"
           /\ \/ Announces(g, inference[g] = "announce")
              \/ /\ inference[g] # "announce"
                 /\ Len(events) < MaxEvents
                 /\ events' = Append(events, Event("inference", g))
<1> USE DEF Typed, Announces, InferenceStages
<1>1. CASE InferenceLoop(g)
      BY <1>1 DEF InferenceLoop, InferenceGoto
<1>2. CASE InferenceGet(g)
      BY <1>2 DEF InferenceGet, InferenceGoto
<1>3. CASE InferenceCall(g)
      BY <1>3 DEF InferenceCall, InferenceGoto
<1>4. CASE InferenceEnd(g)
      BY <1>4 DEF InferenceEnd, InferenceGoto
<1> QED BY <1>1, <1>2, <1>3, <1>4 DEF InferenceStep

\* An end put into the queue announces its video, and nothing put there takes an
\* announcement away.
LEMMA EventsGrow ==
    ASSUME SafeVideo, NEW g \in Generations, NEW yes \in BOOLEAN, Announces(g, yes)
    PROVE  /\ events' \in Seq(Item)
           /\ Len(events') = Len(events) + (IF yes THEN 1 ELSE 0)
           /\ \A h : AnnouncedIn(events, h) => AnnouncedIn(events', h)
           /\ yes => AnnouncedIn(events', g)
<1>1. Event("end", g) \in Item
      BY DEF Event, Item
<1>2. CASE yes
      BY <1>1, <1>2, AnnouncedAppend DEF Announces, SafeVideo, Typed
<1>3. CASE ~ yes
      BY <1>3 DEF Announces, SafeVideo, Typed
<1> QED BY <1>2, <1>3

LEMMA CaptureSafe ==
    ASSUME SafeVideo, NEW g \in Generations, CaptureStep(g)
    PROVE  SafeVideo'
<1> DEFINE yes == capture[g] = "announce"
<1> USE DEF SafeVideo
<1>0. Typed
      OBVIOUS
<1>1. /\ UNCHANGED tk /\ UNCHANGED inference
      /\ capture[g] \notin {"none", "exited"}
      /\ capture'[g] \in CaptureStages \ {"none"}
      /\ capture' = [capture EXCEPT ![g] = capture'[g]]
      /\ video_frames' \in Seq(Generations) /\ Len(video_frames') <= 1
      /\ inference_frames' \in Seq(Generations) /\ Len(inference_frames') <= 1
      /\ Announces(g, yes)
      /\ yes => capture'[g] = "set_stop"
      /\ capture[g] = "set_stop" => capture'[g] = "exited"
      /\ stop_event' = IF capture[g] = "set_stop" THEN [stop_event EXCEPT ![g] = TRUE]
                                                  ELSE stop_event
      /\ capture'[g] \in {"set_stop", "exited"} =>
            stop_event[g] \/ capture[g] \in {"announce", "set_stop"}
      BY <1>0, CaptureMoves
<1>2. /\ events' \in Seq(Item) /\ Len(events') = Len(events) + (IF yes THEN 1 ELSE 0)
      /\ \A h : AnnouncedIn(events, h) => AnnouncedIn(events', h)
      /\ yes => AnnouncedIn(events', g)
      BY <1>1, EventsGrow
<1>3. Typed'
  <2>1. /\ stop_event' \in [Generations -> BOOLEAN]
        /\ capture' \in [Generations -> CaptureStages]
        BY <1>1 DEF Typed
  <2> QED BY <1>1, <1>2, <2>1 DEF Typed, tk
<1>4. OnlyCurrentShown' /\ Current'
      BY <1>1 DEF OnlyCurrentShown, Current, tk
<1>5. /\ \A h \in Generations : stop_event'[h] => stop_event[h] \/ (h = g /\ capture[g] = "set_stop")
      /\ \A h \in Generations \ {g} : capture'[h] = capture[h]
      BY <1>1 DEF Typed
<1>6. ASSUME NEW h \in Generations PROVE Fresh(h)'
  <2>1. ~ (g > video_generation)
        BY <1>1 DEF Fresh
  <2> QED BY <1>1, <1>5, <2>1 DEF Fresh, tk, Typed
<1>7. Told'
  <2> SUFFICES ASSUME video_running, started \in Generations,
                      \/ stop_event'[started]
                      \/ started \in CaptureEnded'
                      \/ started \in InferenceEnded'
               PROVE  AnnouncedIn(events', started)
      BY <1>1 DEF Told, Current, tk
  <2>1. CASE g = started /\ yes
        BY <1>2, <2>1
  <2>2. CASE ~ (g = started /\ yes)
    <3>1. \/ stop_event[started] \/ started \in CaptureEnded \/ started \in InferenceEnded
      <4>1. CASE stop_event'[started]
            BY <1>5, <4>1 DEF CaptureEnded
      <4>2. CASE started \in CaptureEnded'
            BY <1>1, <1>5, <2>2, <4>2 DEF CaptureEnded
      <4>3. CASE started \in InferenceEnded'
            BY <1>1, <4>3 DEF InferenceEnded
      <4> QED BY <4>1, <4>2, <4>3
    <3>2. AnnouncedIn(events, started)
          BY <3>1 DEF Told
    <3> QED BY <1>2, <3>2
  <2> QED BY <2>1, <2>2
<1>8. Bounded'
  <2>1. Videos' = Videos /\ InferenceEnded' = InferenceEnded
        BY <1>1, <1>5 DEF Videos, Started, InferenceEnded
  <2>2. /\ Cardinality(CaptureEnded) \in Nat /\ Cardinality(InferenceEnded) \in Nat
        /\ Cardinality(CaptureEnded') \in Nat /\ IsFiniteSet(CaptureEnded')
        /\ Cardinality(Videos) \in Nat
        BY FiniteParts DEF CaptureEnded, InferenceEnded, Videos
  <2>3. Cardinality(CaptureEnded') >= Cardinality(CaptureEnded) + (IF yes THEN 1 ELSE 0)
    <3>1. CASE yes
      <4>1. g \notin CaptureEnded /\ CaptureEnded' = CaptureEnded \cup {g}
            BY <1>1, <1>5, <3>1 DEF CaptureEnded
      <4>2. Cardinality(CaptureEnded') = Cardinality(CaptureEnded) + 1
            BY <4>1, OneMore DEF CaptureEnded
      <4> QED BY <2>2, <3>1, <4>2
    <3>2. CASE ~ yes
      <4>1. CaptureEnded \subseteq CaptureEnded'
            BY <1>1, <1>5 DEF CaptureEnded
      <4>2. Cardinality(CaptureEnded) <= Cardinality(CaptureEnded')
            BY <2>2, <4>1, FS_Subset
      <4> QED BY <2>2, <3>2, <4>2
    <3> QED BY <3>1, <3>2
  <2>4. Len(events) \in Nat /\ Len(events') \in Nat
        BY <1>2, <1>0 DEF Typed
  <2>5. video_generation' = video_generation /\ video_running' = video_running
        BY <1>1 DEF tk
  <2>6. Len(events') <= MaxEvents + Cardinality(CaptureEnded') + Cardinality(InferenceEnded')
    <3>1. Len(events) <= MaxEvents + Cardinality(CaptureEnded) + Cardinality(InferenceEnded)
          BY DEF Bounded
    <3>2. MaxEvents \in Nat
          BY VideoAssumption
    <3>3. Cardinality(InferenceEnded') = Cardinality(InferenceEnded)
          BY <2>1
    <3> HIDE DEF yes
    <3> QED BY <1>2, <2>2, <2>3, <2>4, <3>1, <3>2, <3>3
  <2> QED BY <2>1, <2>5, <2>6 DEF Bounded
<1> QED BY <1>3, <1>4, <1>6, <1>7, <1>8

LEMMA InferenceSafe ==
    ASSUME SafeVideo, NEW g \in Generations, InferenceStep(g)
    PROVE  SafeVideo'
<1> DEFINE yes == inference[g] = "announce"
<1> USE DEF SafeVideo
<1>0. Typed
      OBVIOUS
<1>1. /\ UNCHANGED tk /\ UNCHANGED stop_event /\ UNCHANGED video_frames /\ UNCHANGED capture
      /\ inference[g] \notin {"none", "exited"}
      /\ inference'[g] \in InferenceStages \ {"none"}
      /\ inference' = [inference EXCEPT ![g] = inference'[g]]
      /\ inference_frames' \in Seq(Generations) /\ Len(inference_frames') <= 1
      /\ yes => inference'[g] = "exited"
      /\ inference'[g] = "exited" => stop_event[g] \/ yes
      /\ \/ Announces(g, yes)
         \/ ~ yes /\ Len(events) < MaxEvents /\ events' = Append(events, Event("inference", g))
      BY <1>0, InferenceMoves
<1>2. /\ events' \in Seq(Item)
      /\ \A h : AnnouncedIn(events, h) => AnnouncedIn(events', h)
      /\ yes => AnnouncedIn(events', g)
      /\ \/ Len(events') = Len(events) + (IF yes THEN 1 ELSE 0)
         \/ ~ yes /\ Len(events) < MaxEvents /\ Len(events') = Len(events) + 1
  <2>1. CASE Announces(g, yes)
        BY <2>1, EventsGrow
  <2>2. CASE ~ yes /\ Len(events) < MaxEvents /\ events' = Append(events, Event("inference", g))
    <3>1. Event("inference", g) \in Item
          BY DEF Event, Item
    <3> QED BY <1>0, <2>2, <3>1, AnnouncedAppend DEF Typed
  <2> QED BY <1>1, <2>1, <2>2
<1>3. Typed'
      BY <1>1, <1>2 DEF Typed, tk
<1>4. OnlyCurrentShown' /\ Current'
      BY <1>1 DEF OnlyCurrentShown, Current, tk
<1>5. \A h \in Generations \ {g} : inference'[h] = inference[h]
      BY <1>1 DEF Typed
<1>6. ASSUME NEW h \in Generations PROVE Fresh(h)'
  <2>1. ~ (g > video_generation) /\ capture[g] # "none"
        BY <1>1 DEF Fresh
  <2> QED BY <1>1, <1>5, <2>1 DEF Fresh, tk
<1>7. Told'
  <2> SUFFICES ASSUME video_running, started \in Generations,
                      \/ stop_event[started]
                      \/ started \in CaptureEnded
                      \/ started \in InferenceEnded'
               PROVE  AnnouncedIn(events', started)
      BY <1>1 DEF Told, Current, CaptureEnded, tk
  <2>1. CASE g = started /\ yes
        BY <1>2, <2>1
  <2>2. CASE ~ (g = started /\ yes)
    <3>1. \/ stop_event[started] \/ started \in CaptureEnded \/ started \in InferenceEnded
          BY <1>1, <1>5, <2>2 DEF InferenceEnded
    <3>2. AnnouncedIn(events, started)
          BY <3>1 DEF Told
    <3> QED BY <1>2, <3>2
  <2> QED BY <2>1, <2>2
<1>8. Bounded'
  <2>1. Videos' = Videos /\ CaptureEnded' = CaptureEnded
        BY <1>1 DEF Videos, Started, CaptureEnded
  <2>2. /\ Cardinality(CaptureEnded) \in Nat /\ Cardinality(InferenceEnded) \in Nat
        /\ Cardinality(InferenceEnded') \in Nat /\ IsFiniteSet(InferenceEnded')
        BY FiniteParts DEF CaptureEnded, InferenceEnded
  <2>3. Cardinality(InferenceEnded') >= Cardinality(InferenceEnded) + (IF yes THEN 1 ELSE 0)
    <3>1. CASE yes
      <4>1. g \notin InferenceEnded /\ InferenceEnded' = InferenceEnded \cup {g}
            BY <1>1, <1>5, <3>1 DEF InferenceEnded
      <4>2. Cardinality(InferenceEnded') = Cardinality(InferenceEnded) + 1
            BY <4>1, OneMore DEF InferenceEnded
      <4> QED BY <2>2, <3>1, <4>2
    <3>2. CASE ~ yes
      <4>1. InferenceEnded \subseteq InferenceEnded'
            BY <1>1, <1>5 DEF InferenceEnded
      <4>2. Cardinality(InferenceEnded) <= Cardinality(InferenceEnded')
            BY <2>2, <4>1, FS_Subset
      <4> QED BY <2>2, <3>2, <4>2
    <3> QED BY <3>1, <3>2
  <2>4. Len(events) \in Nat /\ Len(events') \in Nat
        BY <1>2, <1>0 DEF Typed
  <2>5. video_generation' = video_generation /\ video_running' = video_running
        BY <1>1 DEF tk
  <2>6. Len(events') <= MaxEvents + Cardinality(CaptureEnded') + Cardinality(InferenceEnded')
    <3>1. Len(events) <= MaxEvents + Cardinality(CaptureEnded) + Cardinality(InferenceEnded)
          BY DEF Bounded
    <3>2. MaxEvents \in Nat
          BY VideoAssumption
    <3>3. Cardinality(CaptureEnded') = Cardinality(CaptureEnded)
          BY <2>1
    <3> HIDE DEF yes
    <3> QED BY <1>2, <2>2, <2>3, <2>4, <3>1, <3>2, <3>3
  <2> QED BY <2>1, <2>5, <2>6 DEF Bounded
<1> QED BY <1>3, <1>4, <1>6, <1>7, <1>8

LEMMA VideoStep == SafeVideo /\ [Next]_vars => SafeVideo'
<1> SUFFICES ASSUME SafeVideo, [Next]_vars PROVE SafeVideo'
    OBVIOUS
<1>1. CASE StartVideo
      BY <1>1, StartVideoSafe
<1>2. CASE StopVideo
      BY <1>2, StopVideoSafe
<1>3. CASE Poll
      BY <1>3, PollSafe
<1>4. ASSUME NEW g \in Generations, CaptureStep(g) \/ InferenceStep(g) PROVE SafeVideo'
      BY <1>4, CaptureSafe, InferenceSafe
<1>5. CASE UNCHANGED vars
      BY <1>5 DEF SafeVideo, Typed, OnlyCurrentShown, Current, Fresh, Told, Bounded,
                  CaptureEnded, InferenceEnded, Videos, Started, vars, tk
<1> QED BY <1>1, <1>2, <1>3, <1>4, <1>5 DEF Next

\* The inductive invariant
THEOREM VideoSafe == Spec => []SafeVideo
BY VideoInit, VideoStep, PTL DEF Spec

\* What the variables of the Tk thread, the queues and the threads hold
THEOREM VideoTyping == Spec => []TypeOK
<1>1. SafeVideo => TypeOK
  <2> SUFFICES ASSUME SafeVideo PROVE TypeOK
      OBVIOUS
  <2> USE DEF SafeVideo, Typed
  <2>1. /\ Cardinality(Videos) \in Nat /\ Cardinality(Videos) <= MaxVideos
        /\ Cardinality(CaptureEnded) \in Nat /\ Cardinality(InferenceEnded) \in Nat
        BY FiniteParts DEF Bounded, Videos, CaptureEnded, InferenceEnded
  <2>2. video_generation \in 0 .. 2 * MaxVideos
        BY <2>1, VideoAssumption DEF Bounded
  <2>3. Cardinality(CaptureEnded) <= MaxVideos /\ Cardinality(InferenceEnded) <= MaxVideos
    <3>1. CaptureEnded \subseteq Videos /\ InferenceEnded \subseteq Videos
          BY DEF CaptureEnded, InferenceEnded, Videos, Started, Fresh
    <3>2. IsFiniteSet(Videos)
          BY FiniteParts DEF Videos
    <3>3. /\ Cardinality(CaptureEnded) <= Cardinality(Videos)
          /\ Cardinality(InferenceEnded) <= Cardinality(Videos)
          BY <3>1, <3>2, FS_Subset
    <3> QED BY <2>1, <3>3, VideoAssumption
  <2>4. Len(events) <= MaxEvents + 2 * MaxVideos
    <3>1. Len(events) \in Nat
          OBVIOUS
    <3>2. Len(events) <= MaxEvents + Cardinality(CaptureEnded) + Cardinality(InferenceEnded)
          BY DEF Bounded
    <3> QED BY <2>1, <2>3, <3>1, <3>2, VideoAssumption
  <2>5. /\ video_frames \in BoundedSeq(Generations, 1)
        /\ inference_frames \in BoundedSeq(Generations, 1)
    <3>1. ASSUME NEW q \in Seq(Generations), Len(q) <= 1 PROVE q \in BoundedSeq(Generations, 1)
      <4>1. Len(q) \in Nat /\ q \in [1 .. Len(q) -> Generations]
            BY LenProperties
      <4>2. Len(q) \in 0 .. 1
            BY <3>1, <4>1
      <4> QED BY <4>1, <4>2 DEF BoundedSeq, SeqOf
    <3> QED BY <3>1
  <2> QED BY <2>2, <2>4, <2>5 DEF TypeOK
<1> QED BY <1>1, VideoSafe, PTL

\* _handle_video_frame and _handle_event check the generation: nothing of an earlier
\* video is shown.
THEOREM VideoOnlyCurrentShown == Spec => []OnlyCurrentShown
<1>1. SafeVideo => OnlyCurrentShown
      BY DEF SafeVideo
<1> QED BY <1>1, VideoSafe, PTL

\* Whichever thread of the running video ends first, and why, the Tk thread learns of it.
THEOREM VideoDeathAnnounced == Spec => []DeathAnnounced
<1>1. SafeVideo => DeathAnnounced
      BY DEF SafeVideo, Current, Told, CaptureEnded, InferenceEnded, AnnouncedIn, DeathAnnounced
<1> QED BY <1>1, VideoSafe, PTL

-------------------------------------------------------------------------------
\* What goes wrong with Stop and with a full queue, and no more than that

\* A capture thread of g that is not about to set the stop event of g itself
Capturing(g) == capture[g] \notin {"none", "set_stop", "exited"}

\* StopAvailable and the run that refutes it, delimited: Stop is out of reach for a thread
\* that goes on capturing in one way only, that the inference thread of its video has ended
\* of itself, by an exception.  However videos follow each other and whatever is left in
\* the events queue, nothing else takes a capturing thread out of the hands of _stop_video.
StopLostOnlyByError ==
    \A g \in Generations :
        Capturing(g) /\ ~ stop_event[g] =>
            (video_running /\ started = g) \/ inference[g] = "exited"

\* PutLatestSucceeds and the run that refutes it, delimited: _put_latest fails for one
\* reason only, that in the moment between its get and its second put the thread of
\* another video, which nothing joined, took the slot.
FullOnlyByLeftover ==
    [][\A g \in Generations :
         capture[g] # "ending" /\ capture'[g] = "ending" =>
            \E h \in Generations \ {g} :
               \/ capture[g] = "video_reput" /\ video_frames = <<h>>
               \/ capture[g] = "inference_reput" /\ inference_frames = <<h>>]_vars

\* The ends that are announced are true: a thread of that video has ended.
EndsTrue == \A i \in 1 .. Len(events) :
               events[i].kind = "end" =>
                   events[i].generation \in CaptureEnded \cup InferenceEnded

\* Having emptied a slot, a capture thread does not find its own frame there.
SlotsOwn == \A g \in Generations :
               /\ capture[g] = "video_reput" => video_frames # <<g>>
               /\ capture[g] = "inference_reput" => inference_frames # <<g>>

\* A capture thread does not end without the stop event of its video being set.
EndedStopped == \A g \in Generations : capture[g] = "exited" => stop_event[g]

\* The inductive invariant of these, over SafeVideo
Reasons == EndsTrue /\ StopLostOnlyByError /\ SlotsOwn /\ EndedStopped

\* A queue of one slot: empty, or one frame that taking empties it of
LEMMA SlotOfOne ==
    /\ \A g, h : <<g>> # <<>> /\ (<<g>> = <<h>> => g = h)
    /\ \A q \in Seq(Generations) :
          Len(q) <= 1 /\ q # <<>> =>
             q[1] \in Generations /\ q = <<q[1]>> /\ \A h : Tail(q) # <<h>>
<1>1. ASSUME NEW g, NEW h PROVE <<g>> # <<>> /\ (<<g>> = <<h>> => g = h)
  <2>1. Len(<<g>>) = 1 /\ Len(<<>>) = 0 /\ <<g>>[1] = g /\ <<h>>[1] = h
        OBVIOUS
  <2> QED BY <2>1
<1>2. ASSUME NEW q \in Seq(Generations), Len(q) <= 1, q # <<>>
      PROVE  q[1] \in Generations /\ q = <<q[1]>> /\ \A h : Tail(q) # <<h>>
  <2>1. Len(q) = 1
    <3>1. Len(q) \in Nat \ {0}
          BY <1>2, EmptySeq
    <3>2. \A n \in Nat \ {0} : n <= 1 => n = 1
          OBVIOUS
    <3> QED BY <1>2, <3>1, <3>2, Zenon
  <2>2. q[1] \in Generations
        BY <2>1, ElementOfSeq
  <2>3. q = <<q[1]>>
    <3>1. <<q[1]>> \in Seq(Generations) /\ Len(<<q[1]>>) = 1 /\ <<q[1]>>[1] = q[1]
          BY <2>2
    <3> QED BY <2>1, <3>1, SeqEqual
  <2>4. ASSUME NEW h, Tail(q) = <<h>> PROVE FALSE
    <3>1. Len(Tail(q)) = 0 /\ Len(<<h>>) = 1
          BY <2>1
    <3>2. 0 = 1
          BY <2>4, <3>1
    <3> QED BY <3>2
  <2> QED BY <2>2, <2>3, <2>4
<1> QED BY <1>1, <1>2

LEMMA ReasonsInit == Init => Reasons
BY DEF Init, Reasons, EndsTrue, StopLostOnlyByError, Capturing, SlotsOwn, EndedStopped

LEMMA StartReasons ==
    ASSUME SafeVideo, Reasons, StartVideo
    PROVE  Reasons'
<1> DEFINE g == video_generation + (IF video_running THEN 2 ELSE 1)
<1> USE DEF SafeVideo, Typed, Reasons
<1>1. /\ started' = g /\ video_running' = TRUE
      /\ video_frames' = <<>> /\ inference_frames' = <<>> /\ events' = events
      /\ capture' = [capture EXCEPT ![g] = "loop"]
      /\ inference' = [inference EXCEPT ![g] = "loop"]
      BY DEF StartVideo
<1>2. \A h \in Generations : h = g => capture[h] = "none" /\ inference[h] = "none"
      BY DEF Fresh, Generations
<1>3. EndsTrue'
  <2>1. CaptureEnded \subseteq CaptureEnded' /\ InferenceEnded \subseteq InferenceEnded'
        BY <1>1, <1>2 DEF CaptureEnded, InferenceEnded
  <2> QED BY <1>1, <2>1 DEF EndsTrue
<1>4. SlotsOwn'
      BY <1>1, FullQueue DEF SlotsOwn
<1>5. StopLostOnlyByError'
  <2> SUFFICES ASSUME NEW h \in Generations, Capturing(h)', ~ stop_event'[h], h # g
               PROVE  inference'[h] = "exited"
      BY <1>1 DEF StopLostOnlyByError
  <2>1. Capturing(h) /\ inference'[h] = inference[h]
        BY <1>1 DEF Capturing
  <2>2. CASE video_running
    <3>1. stop_event' = [stop_event EXCEPT ![started] = TRUE]
          BY <2>2 DEF StartVideo
    <3> QED BY <2>1, <3>1 DEF StopLostOnlyByError
  <2>3. CASE ~ video_running
        BY <2>1, <2>3 DEF StopLostOnlyByError, StartVideo
  <2> QED BY <2>2, <2>3
<1>6. EndedStopped'
  <2>1. stop_event' \in {stop_event, [stop_event EXCEPT ![started] = TRUE]}
        BY DEF StartVideo
  <2>2. \A h \in Generations : stop_event[h] => stop_event'[h]
        BY <2>1
  <2>3. \A h \in Generations : capture'[h] = "exited" => capture[h] = "exited"
        BY <1>1
  <2> QED BY <2>2, <2>3 DEF EndedStopped
<1> QED BY <1>3, <1>4, <1>5, <1>6

LEMMA StopReasons ==
    ASSUME SafeVideo, Reasons, StopVideo
    PROVE  Reasons'
<1>1. stop_event' = [stop_event EXCEPT ![started] = TRUE]
      BY DEF StopVideo
<1>2. EndsTrue' /\ SlotsOwn'
      BY DEF StopVideo, Reasons, EndsTrue, SlotsOwn, CaptureEnded, InferenceEnded
<1>3. StopLostOnlyByError' /\ EndedStopped'
      BY <1>1 DEF StopVideo, SafeVideo, Typed, Reasons, StopLostOnlyByError, Capturing,
                  EndedStopped
<1> QED BY <1>2, <1>3 DEF Reasons

LEMMA PollReasons ==
    ASSUME SafeVideo, Reasons, Poll
    PROVE  Reasons'
<1> USE DEF SafeVideo, Typed, Reasons
<1>1. /\ video_generation' = video_generation /\ started' = started /\ stop_event' = stop_event
      /\ inference_frames' = inference_frames /\ capture' = capture /\ inference' = inference
      BY DEF Poll, PollFrame, PollEvent
<1>2. CaptureEnded' = CaptureEnded /\ InferenceEnded' = InferenceEnded
      BY <1>1 DEF CaptureEnded, InferenceEnded
<1>3. EndedStopped'
      BY <1>1 DEF EndedStopped
<1>4. CASE PollFrame
  <2>1. video_running' = video_running /\ events' = events
        BY <1>4 DEF PollFrame
  <2>2. \A h \in Generations : video_frames' # <<h>>
        BY <1>4, SlotOfOne DEF PollFrame
  <2> QED BY <1>1, <1>2, <1>3, <2>1, <2>2 DEF EndsTrue, StopLostOnlyByError, Capturing, SlotsOwn
<1>5. CASE PollEvent
  <2> DEFINE e == Head(events)
  <2>1. /\ events # <<>> /\ events' = Tail(events) /\ video_frames' = video_frames
        /\ video_running' = (video_running /\ ~ (e.generation = video_generation /\ e.kind = "end"))
        BY <1>5 DEF PollEvent
  <2>2. e = events[1] /\ 1 \in 1 .. Len(events)
        BY <2>1
  <2>3. ASSUME NEW i \in 1 .. Len(events')
        PROVE  i + 1 \in 1 .. Len(events) /\ events'[i] = events[i + 1]
        BY <2>1
  <2>4. EndsTrue'
        BY <1>2, <2>3 DEF EndsTrue
  <2>5. StopLostOnlyByError'
    <3> SUFFICES ASSUME Capturing(started), ~ stop_event[started], started \in Generations,
                        video_running, ~ video_running'
                 PROVE  inference[started] = "exited"
        BY <1>1, <2>1 DEF StopLostOnlyByError, Capturing
    <3>1. e.generation = started /\ e.kind = "end"
          BY <2>1 DEF Current
    <3>2. started \in CaptureEnded \cup InferenceEnded
          BY <2>2, <3>1 DEF EndsTrue
    <3> QED BY <3>2 DEF Capturing, CaptureEnded, InferenceEnded
  <2>6. SlotsOwn'
        BY <1>1, <2>1 DEF SlotsOwn
  <2> QED BY <1>3, <2>4, <2>5, <2>6
<1> QED BY <1>4, <1>5 DEF Poll

\* An event put into the queue keeps the ends there true, if it is none or is true.
LEMMA EndsGrow ==
    ASSUME SafeVideo, EndsTrue, NEW kind \in {"inference", "end"}, NEW g \in Generations,
           events' \in {events, Append(events, Event(kind, g))},
           CaptureEnded \subseteq CaptureEnded', InferenceEnded \subseteq InferenceEnded',
           events' # events /\ kind = "end" => g \in CaptureEnded' \cup InferenceEnded'
    PROVE  EndsTrue'
<1> USE DEF SafeVideo, Typed
<1> SUFFICES ASSUME NEW i \in 1 .. Len(events'), events'[i].kind = "end"
             PROVE  events'[i].generation \in CaptureEnded' \cup InferenceEnded'
    BY DEF EndsTrue
<1>1. CASE i \in 1 .. Len(events) /\ events'[i] = events[i]
      BY <1>1 DEF EndsTrue
<1>2. CASE events' # events /\ events'[i] = Event(kind, g)
      BY <1>2 DEF Event
<1>3. \/ i \in 1 .. Len(events) /\ events'[i] = events[i]
      \/ events' # events /\ events'[i] = Event(kind, g)
  <2>1. CASE events' = events
        BY <2>1
  <2>2. CASE events' # events
    <3>1. events' = Append(events, Event(kind, g))
          BY <2>2
    <3>2. Len(events) \in Nat /\ Len(events') = Len(events) + 1
          BY <3>1
    <3>3. i \in 1 .. Len(events) \/ i = Len(events) + 1
          BY <3>2
    <3> QED BY <2>2, <3>1, <3>3
  <2> QED BY <2>1, <2>2
<1> QED BY <1>1, <1>2, <1>3

LEMMA CaptureReasons ==
    ASSUME SafeVideo, Reasons, NEW g \in Generations, CaptureStep(g)
    PROVE  Reasons'
<1>1. Typed
      BY DEF SafeVideo
<1>2. /\ UNCHANGED <<tk, inference>>
      /\ capture[g] \notin {"none", "exited"}
      /\ capture'[g] \in CaptureStages \ {"none"}
      /\ capture' = [capture EXCEPT ![g] = capture'[g]]
      /\ Announces(g, capture[g] = "announce")
      /\ capture[g] = "announce" => capture'[g] = "set_stop"
      /\ capture[g] = "set_stop" => capture'[g] = "exited"
      /\ stop_event' = IF capture[g] = "set_stop" THEN [stop_event EXCEPT ![g] = TRUE]
                                                  ELSE stop_event
      /\ capture'[g] = "exited" => stop_event[g] \/ capture[g] = "set_stop"
      BY <1>1, CaptureMoves
<1>3. \A h \in Generations \ {g} : capture'[h] = capture[h]
      BY <1>1, <1>2 DEF Typed
<1>4. EndsTrue'
  <2>1. CaptureEnded \subseteq CaptureEnded' /\ InferenceEnded \subseteq InferenceEnded'
        BY <1>2, <1>3 DEF CaptureEnded, InferenceEnded
  <2>2. capture[g] = "announce" => g \in CaptureEnded'
        BY <1>2 DEF CaptureEnded
  <2> QED BY <1>2, <2>1, <2>2, EndsGrow DEF Announces, Reasons
<1>5. StopLostOnlyByError'
  <2>1. \A h \in Generations : stop_event[h] => stop_event'[h]
        BY <1>1, <1>2 DEF Typed
  <2>2. \A h \in Generations : Capturing(h)' => Capturing(h)
        BY <1>2, <1>3 DEF Capturing
  <2> QED BY <1>2, <2>1, <2>2 DEF StopLostOnlyByError, Reasons, tk
<1>6. SlotsOwn'
  <2> SUFFICES ASSUME NEW h \in Generations
               PROVE  /\ capture'[h] = "video_reput" => video_frames' # <<h>>
                      /\ capture'[h] = "inference_reput" => inference_frames' # <<h>>
      BY DEF SlotsOwn
  <2>1. CASE h = g
    <3>1. capture'[g] = "video_reput" => video_frames' = <<>>
          BY <1>1, <1>2 DEF Typed, CaptureStep, CaptureRead, PutVideo, PutInference, CaptureEnd,
                            CaptureGoto
    <3>2. capture'[g] = "inference_reput" => inference_frames' = <<>>
          BY <1>1, <1>2 DEF Typed, CaptureStep, CaptureRead, PutVideo, PutInference, CaptureEnd,
                            CaptureGoto
    <3> QED BY <2>1, <3>1, <3>2, SlotOfOne
  <2>2. CASE h # g
    <3>0. <<>> # <<h>> /\ <<g>> # <<h>>
          BY <2>2, SlotOfOne
    <3>1. video_frames' \in {video_frames, <<>>, <<g>>}
          BY DEF CaptureStep, CaptureRead, PutVideo, PutInference, CaptureEnd, PutNowait
    <3>2. inference_frames' \in {inference_frames, <<>>, <<g>>}
          BY DEF CaptureStep, CaptureRead, PutVideo, PutInference, CaptureEnd, PutNowait
    <3> QED BY <1>3, <2>2, <3>0, <3>1, <3>2 DEF Reasons, SlotsOwn
  <2> QED BY <2>1, <2>2
<1>7. EndedStopped'
      BY <1>1, <1>2, <1>3 DEF Reasons, EndedStopped, Typed
<1> QED BY <1>4, <1>5, <1>6, <1>7 DEF Reasons

LEMMA InferenceReasons ==
    ASSUME SafeVideo, Reasons, NEW g \in Generations, InferenceStep(g)
    PROVE  Reasons'
<1>1. Typed
      BY DEF SafeVideo
<1>2. /\ UNCHANGED <<tk, stop_event, video_frames, capture>>
      /\ inference[g] # "exited"
      /\ inference' = [inference EXCEPT ![g] = inference'[g]]
      /\ inference[g] = "announce" => inference'[g] = "exited"
      /\ \/ Announces(g, inference[g] = "announce")
         \/ events' = Append(events, Event("inference", g))
      BY <1>1, InferenceMoves
<1>3. \A h \in Generations \ {g} : inference'[h] = inference[h]
      BY <1>1, <1>2 DEF Typed
<1>4. EndsTrue'
  <2>1. CaptureEnded \subseteq CaptureEnded' /\ InferenceEnded \subseteq InferenceEnded'
        BY <1>2, <1>3 DEF CaptureEnded, InferenceEnded
  <2>2. inference[g] = "announce" => g \in InferenceEnded'
        BY <1>2 DEF InferenceEnded
  <2>3. CASE Announces(g, inference[g] = "announce")
        BY <2>1, <2>2, <2>3, EndsGrow DEF Announces, Reasons
  <2>4. CASE events' = Append(events, Event("inference", g))
        BY <2>1, <2>4, EndsGrow DEF Reasons
  <2> QED BY <1>2, <2>3, <2>4
<1>5. StopLostOnlyByError'
  <2>1. \A h \in Generations : inference[h] = "exited" => inference'[h] = "exited"
        BY <1>2, <1>3
  <2> QED BY <1>2, <2>1 DEF StopLostOnlyByError, Reasons, Capturing, tk
<1>6. SlotsOwn'
  <2>1. inference_frames' \in {inference_frames, <<>>}
        BY DEF InferenceStep, InferenceLoop, InferenceGet, InferenceCall, InferenceEnd
  <2> QED BY <1>2, <2>1, SlotOfOne DEF Reasons, SlotsOwn
<1>7. EndedStopped'
      BY <1>2 DEF Reasons, EndedStopped
<1> QED BY <1>4, <1>5, <1>6, <1>7 DEF Reasons

LEMMA ReasonsStep == SafeVideo /\ Reasons /\ [Next]_vars => Reasons'
<1> SUFFICES ASSUME SafeVideo, Reasons, [Next]_vars PROVE Reasons'
    OBVIOUS
<1>1. CASE UNCHANGED vars
      BY <1>1 DEF Reasons, EndsTrue, StopLostOnlyByError, Capturing, SlotsOwn, EndedStopped,
                  CaptureEnded, InferenceEnded, vars, tk
<1> QED BY <1>1, StartReasons, StopReasons, PollReasons, CaptureReasons, InferenceReasons DEF Next

\* A capturing thread that Stop does not reach is of a video whose inference failed.
THEOREM VideoStopLostOnlyByError == Spec => []StopLostOnlyByError
<1>1. Reasons => StopLostOnlyByError
      BY DEF Reasons
<1> QED BY <1>1, VideoInit, VideoStep, ReasonsInit, ReasonsStep, PTL DEF Spec

\* A video fails for a full queue only when a thread of another video filled it.
THEOREM VideoFullOnlyByLeftover == Spec => FullOnlyByLeftover
<1>1. SafeVideo /\ Reasons /\ [Next]_vars =>
        [\A g \in Generations :
           capture[g] # "ending" /\ capture'[g] = "ending" =>
              \E h \in Generations \ {g} :
                 \/ capture[g] = "video_reput" /\ video_frames = <<h>>
                 \/ capture[g] = "inference_reput" /\ inference_frames = <<h>>]_vars
  <2> SUFFICES ASSUME SafeVideo, Reasons, Next,
                      NEW g \in Generations, capture[g] # "ending", capture'[g] = "ending"
               PROVE  \E h \in Generations \ {g} :
                         \/ capture[g] = "video_reput" /\ video_frames = <<h>>
                         \/ capture[g] = "inference_reput" /\ inference_frames = <<h>>
      BY DEF vars
  <2> USE DEF SafeVideo, Typed
  <2>1. CaptureStep(g)
    <3>1. ASSUME NEW h \in Generations, CaptureStep(h) PROVE h = g
          BY <3>1, CaptureMoves
    <3>2. ASSUME NEW h \in Generations, InferenceStep(h) PROVE FALSE
          BY <3>2, InferenceMoves
    <3>3. ~ StartVideo /\ ~ StopVideo /\ ~ Poll
          BY DEF StartVideo, StopVideo, Poll, PollFrame, PollEvent
    <3> QED BY <3>1, <3>2, <3>3 DEF Next
  <2>2. \/ capture[g] = "video_reput" /\ video_frames # <<>>
        \/ capture[g] = "inference_reput" /\ inference_frames # <<>>
        BY <2>1 DEF CaptureStep, CaptureRead, PutVideo, PutInference, CaptureEnd, CaptureGoto
  <2> QED BY <2>2, SlotOfOne DEF Reasons, SlotsOwn
<1> QED BY <1>1, VideoInit, VideoStep, ReasonsInit, ReasonsStep, PTL DEF Spec, FullOnlyByLeftover

-------------------------------------------------------------------------------
\* How a stopped video ends

\* The steps a capture thread at a stage still takes once its stop event is set, at most
CaptureLeft(at) == CASE at \in {"none", "exited"} -> 0
                     [] at \in {"loop", "ending", "set_stop"} -> 1
                     [] at \in {"announce", "inference_reput"} -> 2
                     [] at = "inference_get" -> 3
                     [] at = "inference_put" -> 4
                     [] at = "video_reput" -> 5
                     [] at = "video_get" -> 6
                     [] at = "video_put" -> 7

\* The same of an inference thread
InferenceLeft(at) == CASE at \in {"none", "exited"} -> 0
                       [] at \in {"loop", "announce"} -> 1
                       [] at = "infer" -> 2
                       [] at = "get" -> 3

\* A video that was told to stop, or whose capture thread has ended by itself, has its
\* stop event set for good - no later video takes it back - and both its threads are at
\* most a few steps from their end, each step of theirs one nearer, whatever the others
\* do to the queues they share.  What ThreadsEnd adds is that the threads go on.
StoppedEnds ==
    [][\A g \in Generations :
         stop_event[g] \/ capture[g] = "exited" =>
            /\ stop_event'[g]
            /\ CaptureLeft(capture'[g]) <= CaptureLeft(capture[g])
            /\ CaptureStep(g) => CaptureLeft(capture'[g]) < CaptureLeft(capture[g])
            /\ InferenceLeft(inference'[g]) <= InferenceLeft(inference[g])
            /\ InferenceStep(g) => InferenceLeft(inference'[g]) < InferenceLeft(inference[g])]_vars

LEMMA CaptureNearer ==
    ASSUME Typed, NEW g \in Generations, stop_event[g], CaptureStep(g)
    PROVE  /\ CaptureLeft(capture'[g]) <= CaptureLeft(capture[g])
           /\ CaptureLeft(capture'[g]) < CaptureLeft(capture[g])
<1> DEFINE From(at, next) == capture[g] = at /\ capture'[g] \in next
<1>1. \/ From("loop", {"exited"}) \/ From("ending", {"exited"})
      \/ From("video_put", {"inference_put", "video_get"})
      \/ From("video_get", {"video_reput"})
      \/ From("video_reput", {"inference_put", "ending"})
      \/ From("inference_put", {"loop", "inference_get"})
      \/ From("inference_get", {"inference_reput"})
      \/ From("inference_reput", {"loop", "ending"})
      \/ From("announce", {"set_stop"}) \/ From("set_stop", {"exited"})
  <2> USE DEF Typed, CaptureGoto
  <2>1. CASE CaptureRead(g)
        BY <2>1 DEF CaptureRead
  <2>2. CASE PutVideo(g)
        BY <2>2 DEF PutVideo
  <2>3. CASE PutInference(g)
        BY <2>3 DEF PutInference
  <2>4. CASE CaptureEnd(g)
        BY <2>4 DEF CaptureEnd
  <2> QED BY <2>1, <2>2, <2>3, <2>4 DEF CaptureStep
<1>2. CASE capture[g] \in {"loop", "ending", "announce", "set_stop"}
      BY <1>1, <1>2 DEF CaptureLeft
<1>3. CASE capture[g] \in {"video_put", "video_get", "video_reput"}
      BY <1>1, <1>3 DEF CaptureLeft
<1>4. CASE capture[g] \in {"inference_put", "inference_get", "inference_reput"}
      BY <1>1, <1>4 DEF CaptureLeft
<1> QED BY <1>1, <1>2, <1>3, <1>4

LEMMA InferenceNearer ==
    ASSUME Typed, NEW g \in Generations, stop_event[g], InferenceStep(g)
    PROVE  /\ InferenceLeft(inference'[g]) <= InferenceLeft(inference[g])
           /\ InferenceLeft(inference'[g]) < InferenceLeft(inference[g])
<1> USE DEF Typed, InferenceLeft, InferenceGoto
<1>1. CASE InferenceLoop(g)
      BY <1>1 DEF InferenceLoop
<1>2. CASE InferenceGet(g)
      BY <1>2 DEF InferenceGet
<1>3. CASE InferenceCall(g)
      BY <1>3 DEF InferenceCall
<1>4. CASE InferenceEnd(g)
      BY <1>4 DEF InferenceEnd
<1> QED BY <1>1, <1>2, <1>3, <1>4 DEF InferenceStep

LEMMA StoppedStays ==
    ASSUME SafeVideo, [Next]_vars, NEW g \in Generations, stop_event[g]
    PROVE  /\ stop_event'[g]
           /\ capture'[g] = capture[g] \/ CaptureStep(g)
           /\ inference'[g] = inference[g] \/ InferenceStep(g)
<1> USE DEF SafeVideo, Typed
<1>1. CASE StartVideo
  <2> DEFINE n == video_generation + (IF video_running THEN 2 ELSE 1)
  <2>1. g # n
        BY DEF Fresh, Generations
  <2>2. /\ capture' = [capture EXCEPT ![n] = "loop"]
        /\ inference' = [inference EXCEPT ![n] = "loop"]
        /\ stop_event' \in {stop_event, [stop_event EXCEPT ![started] = TRUE]}
        BY <1>1 DEF StartVideo
  <2> QED BY <2>1, <2>2
<1>2. CASE StopVideo
      BY <1>2 DEF StopVideo
<1>3. CASE Poll
      BY <1>3 DEF Poll, PollFrame, PollEvent
<1>4. ASSUME NEW h \in Generations, CaptureStep(h)
      PROVE  /\ stop_event'[g] /\ inference'[g] = inference[g]
             /\ capture'[g] = capture[g] \/ h = g
      BY <1>4, CaptureMoves
<1>5. ASSUME NEW h \in Generations, InferenceStep(h)
      PROVE  /\ stop_event'[g] /\ capture'[g] = capture[g]
             /\ inference'[g] = inference[g] \/ h = g
      BY <1>5, InferenceMoves
<1>6. CASE UNCHANGED vars
      BY <1>6 DEF vars
<1> QED BY <1>1, <1>2, <1>3, <1>4, <1>5, <1>6 DEF Next

\* The threads of a stopped video only come nearer to their end.
THEOREM VideoStoppedEnds == Spec => StoppedEnds
<1>1. SafeVideo /\ Reasons /\ [Next]_vars =>
        [\A g \in Generations :
           stop_event[g] \/ capture[g] = "exited" =>
              /\ stop_event'[g]
              /\ CaptureLeft(capture'[g]) <= CaptureLeft(capture[g])
              /\ CaptureStep(g) => CaptureLeft(capture'[g]) < CaptureLeft(capture[g])
              /\ InferenceLeft(inference'[g]) <= InferenceLeft(inference[g])
              /\ InferenceStep(g) => InferenceLeft(inference'[g]) < InferenceLeft(inference[g])]_vars
  <2> SUFFICES ASSUME SafeVideo, Reasons, [Next]_vars, NEW g \in Generations,
                      stop_event[g] \/ capture[g] = "exited"
               PROVE  /\ stop_event'[g]
                      /\ CaptureLeft(capture'[g]) <= CaptureLeft(capture[g])
                      /\ CaptureStep(g) => CaptureLeft(capture'[g]) < CaptureLeft(capture[g])
                      /\ InferenceLeft(inference'[g]) <= InferenceLeft(inference[g])
                      /\ InferenceStep(g) => InferenceLeft(inference'[g]) < InferenceLeft(inference[g])
      OBVIOUS
  <2>0. stop_event[g]
        BY DEF Reasons, EndedStopped
  <2>1. Typed /\ capture[g] \in CaptureStages /\ inference[g] \in InferenceStages
        BY DEF SafeVideo, Typed
  <2>2. /\ CaptureLeft(capture'[g]) <= CaptureLeft(capture[g])
        /\ CaptureStep(g) => CaptureLeft(capture'[g]) < CaptureLeft(capture[g])
    <3>1. CASE CaptureStep(g)
          BY <2>0, <2>1, <3>1, CaptureNearer
    <3>2. CASE ~ CaptureStep(g)
      <4>1. capture'[g] = capture[g]
            BY <2>0, <3>2, StoppedStays
      <4>2. CaptureLeft(capture[g]) \in Nat
            BY <2>1 DEF CaptureLeft, CaptureStages
      <4> QED BY <3>2, <4>1, <4>2
    <3> QED BY <3>1, <3>2
  <2>3. /\ InferenceLeft(inference'[g]) <= InferenceLeft(inference[g])
        /\ InferenceStep(g) => InferenceLeft(inference'[g]) < InferenceLeft(inference[g])
    <3>1. CASE InferenceStep(g)
          BY <2>0, <2>1, <3>1, InferenceNearer
    <3>2. CASE ~ InferenceStep(g)
      <4>1. inference'[g] = inference[g]
            BY <2>0, <3>2, StoppedStays
      <4>2. InferenceLeft(inference[g]) \in Nat
            BY <2>1 DEF InferenceLeft, InferenceStages
      <4> QED BY <3>2, <4>1, <4>2
    <3> QED BY <3>1, <3>2
  <2> QED BY <2>0, <2>2, <2>3, StoppedStays
<1> QED BY <1>1, VideoInit, VideoStep, ReasonsInit, ReasonsStep, PTL DEF Spec, StoppedEnds
===============================================================================
