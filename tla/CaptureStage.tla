---------------------------- MODULE CaptureStage ----------------------------
(***************************************************************************)
(* Stages 1 and 2 of the desktop pipeline: the platform's capture handlers *)
(* hand captured frames to the pipeline, which keeps the newest one in     *)
(* capture_queue_; the encode thread takes it, submits it to the encoder   *)
(* and retains it as last_frame, to be encoded again while the screen is   *)
(* idle.  A frame occupies a buffer of the capturer (a FrameSlot on        *)
(* Windows, a pixel buffer of the stream on macOS) from the capture until  *)
(* it is released, so frames are known here by their buffers, and a buffer *)
(* is captured into again once it was released.                            *)
(***************************************************************************)
EXTENDS Naturals, Sequences, FiniteSets, Functions

CONSTANTS Handlers,      \* the threads that run the capture handler
          Slots,         \* the buffers of the capturer
          NoSlot,        \* no frame
          MaxFrames      \* bound: frames captured in one behaviour

ASSUME CaptureAssumption ==
  /\ IsFiniteSet(Handlers)
  /\ IsFiniteSet(Slots)
  /\ NoSlot \notin Slots
  /\ MaxFrames \in Nat

VARIABLES
  running,         \* running_ of the pipeline
  capturing,       \* running_ of the capturer
  inUse,           \* the buffers that hold a frame nobody released yet
  stamp,           \* the number of the frame captured into each buffer
  frames_captured,
  handlerPc,       \* where each handler is
  handlerSlot,     \* the frame each handler carries
  capture_queue,   \* capture_queue_, oldest first
  encPc,           \* where the encode thread is
  frame,           \* the frame the encode thread took
  last_frame,      \* the frame it retains for idle re-sends
  encodedUpTo,     \* history: the number of the frame submitted last
  captureStop,     \* how far stop() got
  outlived         \* history: handlers that were running when the platform's
                   \* stop returned

handlerVars == <<handlerPc, handlerSlot>>
encodeVars  == <<encPc, frame, last_frame, encodedUpTo>>
bufferVars  == <<inUse, stamp, frames_captured>>
stopVars    == <<captureStop, outlived>>
captureVars == <<capturing, bufferVars, handlerVars, capture_queue, encodeVars,
                 stopVars>>
vars == <<running, captureVars>>

TypeOK ==
  /\ running \in BOOLEAN
  /\ capturing \in BOOLEAN
  /\ inUse \in SUBSET Slots
  /\ stamp \in [Slots -> 0 .. MaxFrames]
  /\ frames_captured \in 0 .. MaxFrames
  /\ handlerPc \in [Handlers -> {"idle", "enter", "push"}]
  /\ handlerSlot \in [Handlers -> Slots \cup {NoSlot}]
  /\ capture_queue \in {<<>>} \cup {<<s>> : s \in Slots}
  /\ encPc \in {"test", "wait", "encode", "reencode", "exit", "done"}
  /\ frame \in Slots \cup {NoSlot}
  /\ last_frame \in Slots \cup {NoSlot}
  /\ encodedUpTo \in 0 .. MaxFrames
  /\ captureStop \in {"idle", "capturer", "stream", "join", "drain", "done"}
  /\ outlived \in SUBSET Handlers

Init ==
  /\ running = TRUE
  /\ capturing = TRUE
  /\ inUse = {}
  /\ stamp = [s \in Slots |-> 0]
  /\ frames_captured = 0
  /\ handlerPc = [h \in Handlers |-> "idle"]
  /\ handlerSlot = [h \in Handlers |-> NoSlot]
  /\ capture_queue = <<>>
  /\ encPc = "test"
  /\ frame = NoSlot
  /\ last_frame = NoSlot
  /\ encodedUpTo = 0
  /\ captureStop = "idle"
  /\ outlived = {}

(* Mutant: release_captured_frame forgets to call release_fn. *)
NothingReleased(frames) == inUse

(* release_captured_frame: nothing happens to no frame. *)
AfterRelease(frames) == inUse \ frames
-----------------------------------------------------------------------------
(* A frame arrives while the capturer runs and a buffer is free; the frame *)
(* that finds every buffer taken is dropped and changes nothing.           *)
Arrive(h) ==
  /\ capturing
  /\ handlerPc[h] = "idle"
  /\ frames_captured < MaxFrames
  /\ \E s \in Slots \ inUse :
       /\ inUse' = inUse \cup {s}
       /\ stamp' = [stamp EXCEPT ![s] = frames_captured + 1]
       /\ handlerSlot' = [handlerSlot EXCEPT ![h] = s]
  /\ frames_captured' = frames_captured + 1
  /\ handlerPc' = [handlerPc EXCEPT ![h] = "enter"]
  /\ UNCHANGED <<running, capturing, capture_queue, encodeVars, stopVars>>

HandlerReturns(h) ==
  /\ handlerPc' = [handlerPc EXCEPT ![h] = "idle"]
  /\ handlerSlot' = [handlerSlot EXCEPT ![h] = NoSlot]

(* The capture callback reads running_ before it takes capture_mutex_. *)
CallbackRefuses(h) ==
  /\ handlerPc[h] = "enter"
  /\ ~running
  /\ inUse' = AfterRelease({handlerSlot[h]})
  /\ HandlerReturns(h)
  /\ UNCHANGED <<running, capturing, stamp, frames_captured, capture_queue,
                 encodeVars, stopVars>>

CallbackAccepts(h) ==
  /\ handlerPc[h] = "enter"
  /\ running
  /\ handlerPc' = [handlerPc EXCEPT ![h] = "push"]
  /\ UNCHANGED <<running, capturing, bufferVars, handlerSlot, capture_queue,
                 encodeVars, stopVars>>

(* Under capture_mutex_: the older frame is released, the new one queued. *)
CallbackPushes(h) ==
  /\ handlerPc[h] = "push"
  /\ inUse' = AfterRelease(Range(capture_queue))
  /\ capture_queue' = <<handlerSlot[h]>>
  /\ HandlerReturns(h)
  /\ UNCHANGED <<running, capturing, stamp, frames_captured, encodeVars,
                 stopVars>>
-----------------------------------------------------------------------------
(* The encode thread, encode_loop.  Its wait is timed, so it returns       *)
(* whether or not it was notified.                                         *)

EncodeTest ==
  /\ encPc = "test"
  /\ encPc' = IF running THEN "wait" ELSE "exit"
  /\ UNCHANGED <<running, capturing, bufferVars, handlerVars, capture_queue,
                 frame, last_frame, encodedUpTo, stopVars>>

EncodeStops ==
  /\ encPc = "wait" /\ ~running
  /\ encPc' = "exit"
  /\ UNCHANGED <<running, capturing, bufferVars, handlerVars, capture_queue,
                 frame, last_frame, encodedUpTo, stopVars>>

EncodeTakes ==
  /\ encPc = "wait" /\ running
  /\ capture_queue # <<>>
  /\ frame' = Head(capture_queue)
  /\ capture_queue' = <<>>
  /\ encPc' = "encode"
  /\ UNCHANGED <<running, capturing, bufferVars, handlerVars, last_frame,
                 encodedUpTo, stopVars>>

(* Mutant: a timeout is taken for an empty queue. *)
EncodeIgnoresQueue ==
  /\ encPc = "wait" /\ running
  /\ encPc' = IF last_frame = NoSlot THEN "test" ELSE "reencode"
  /\ UNCHANGED <<running, capturing, bufferVars, handlerVars, capture_queue,
                 frame, last_frame, encodedUpTo, stopVars>>

EncodeTimesOut ==
  /\ encPc = "wait" /\ running
  /\ capture_queue = <<>>
  /\ encPc' = IF last_frame = NoSlot THEN "test" ELSE "reencode"
  /\ UNCHANGED <<running, capturing, bufferVars, handlerVars, capture_queue,
                 frame, last_frame, encodedUpTo, stopVars>>

(* Mutant: the first frame is retained for good. *)
EncodeNewKeepsFirst ==
  /\ encPc = "encode"
  /\ encodedUpTo' = stamp[frame]
  /\ last_frame' = IF last_frame = NoSlot THEN frame ELSE last_frame
  /\ inUse' = AfterRelease({frame} \ {last_frame'})
  /\ frame' = NoSlot
  /\ encPc' = "test"
  /\ UNCHANGED <<running, capturing, stamp, frames_captured, handlerVars,
                 capture_queue, stopVars>>

(* The new frame is submitted, and takes the place of the retained one     *)
(* whether or not the encoder accepted it.                                 *)
EncodeNew ==
  /\ encPc = "encode"
  /\ encodedUpTo' = stamp[frame]
  /\ inUse' = AfterRelease({last_frame})
  /\ last_frame' = frame
  /\ frame' = NoSlot
  /\ encPc' = "test"
  /\ UNCHANGED <<running, capturing, stamp, frames_captured, handlerVars,
                 capture_queue, stopVars>>

EncodeAgain ==
  /\ encPc = "reencode"
  /\ encodedUpTo' = stamp[last_frame]
  /\ encPc' = "test"
  /\ UNCHANGED <<running, capturing, bufferVars, handlerVars, capture_queue,
                 frame, last_frame, stopVars>>

EncodeExit ==
  /\ encPc = "exit"
  /\ inUse' = AfterRelease({last_frame})
  /\ last_frame' = NoSlot
  /\ encPc' = "done"
  /\ UNCHANGED <<running, capturing, stamp, frames_captured, handlerVars,
                 capture_queue, frame, encodedUpTo, stopVars>>
-----------------------------------------------------------------------------
(* The rest of the pipeline clears running_ at any time. *)
Fail ==
  /\ running
  /\ running' = FALSE
  /\ UNCHANGED captureVars

StopStep(from, to) == captureStop = from /\ captureStop' = to

Stop ==
  /\ StopStep("idle", "capturer")
  /\ running' = FALSE
  /\ UNCHANGED <<capturing, bufferVars, handlerVars, capture_queue, encodeVars,
                 outlived>>

(* capturer_->stop(): the flag, then the platform's stop.  It may return   *)
(* while handlers are still running; on Windows it waits for none.         *)
StopCapturer ==
  /\ StopStep("capturer", "stream")
  /\ capturing' = FALSE
  /\ UNCHANGED <<running, bufferVars, handlerVars, capture_queue, encodeVars,
                 outlived>>

StopStream ==
  /\ StopStep("stream", "join")
  /\ outlived' = {h \in Handlers : handlerPc[h] # "idle"}
  /\ UNCHANGED <<running, capturing, bufferVars, handlerVars, capture_queue,
                 encodeVars>>

JoinEncode ==
  /\ StopStep("join", "drain")
  /\ encPc = "done"
  /\ UNCHANGED <<running, capturing, bufferVars, handlerVars, capture_queue,
                 encodeVars, outlived>>

DrainCaptureQueue ==
  /\ StopStep("drain", "done")
  /\ inUse' = AfterRelease(Range(capture_queue))
  /\ capture_queue' = <<>>
  /\ UNCHANGED <<running, capturing, stamp, frames_captured, handlerVars,
                 encodeVars, outlived>>
-----------------------------------------------------------------------------
Callback(h) == CallbackRefuses(h) \/ CallbackAccepts(h) \/ CallbackPushes(h)

EncodeLoop ==
  \/ EncodeTest \/ EncodeStops \/ EncodeTakes \/ EncodeTimesOut
  \/ EncodeNew \/ EncodeAgain \/ EncodeExit

StopCapture ==
  StopCapturer \/ StopStream \/ JoinEncode \/ DrainCaptureQueue

Next ==
  \/ \E h \in Handlers : Arrive(h) \/ Callback(h)
  \/ EncodeLoop
  \/ Fail \/ Stop \/ StopCapture

Spec == Init /\ [][Next]_vars

(* Threads that can run do run, and the stats timer calls stop() on a      *)
(* pipeline that is not running.  Nothing makes frames arrive.             *)
FairSpec ==
  /\ Spec
  /\ \A h \in Handlers : WF_vars(Callback(h))
  /\ WF_vars(EncodeLoop)
  /\ WF_vars(~running /\ Stop)
  /\ WF_vars(StopCapture)
-----------------------------------------------------------------------------
(* Who holds which frame. *)
Holder == [kind : {"handler"}, of : Handlers]
          \cup [kind : {"queue", "encode", "last"}, of : {NoSlot}]

Holds(x) ==
  CASE x.kind = "handler" -> {handlerSlot[x.of]} \ {NoSlot}
    [] x.kind = "queue"   -> Range(capture_queue)
    [] x.kind = "encode"  -> {frame} \ {NoSlot}
    [] x.kind = "last"    -> {last_frame} \ {NoSlot}

(* Every frame that was captured and not yet released has exactly one      *)
(* holder, and no holder has a frame that was released: no frame is lost,  *)
(* none is released twice, and the encoder never reads a buffer that the   *)
(* capturer may be writing (pipeline.cpp:256-285 and 454-530).             *)
OneHolder ==
  /\ UNION {Holds(x) : x \in Holder} = inUse
  /\ \A x, y \in Holder : x # y => Holds(x) \cap Holds(y) = {}

(* The pool of the Windows capturer (kFrameSlotCount, wgc_capturer.h:94)   *)
(* is never exhausted: next to the queued frame, the one being encoded and *)
(* the retained one there is always a buffer for the frame that arrives,   *)
(* so that "frame slot pool exhausted" is never reached.                   *)
PoolSuffices ==
  \A h \in Handlers : handlerPc[h] = "idle" => inUse # Slots

(* What the encoder is given never goes back in time: the idle re-send     *)
(* repeats the newest picture, never an older one.                         *)
NeverBackInTime == [][encodedUpTo' >= encodedUpTo]_vars

(* "Stop capture first (no more frames enqueued)" (pipeline.cpp:330): when *)
(* the platform's stop waits for the handlers, every frame was given back  *)
(* once stop() drained the queue.  A handler that outlives the capturer's  *)
(* stop may still queue a frame after the drain, and that one is lost.     *)
AllReleased ==
  captureStop = "done" /\ outlived = {}
    => /\ inUse = {}
       /\ \A h \in Handlers : handlerPc[h] = "idle"

(* The picture on the screen when it stops changing is the one the viewer  *)
(* ends up with: a queued frame is submitted, or a newer one is, or the    *)
(* pipeline stops.                                                         *)
LatestPictureEncoded ==
  \A n \in 1 .. MaxFrames :
    (\E s \in Range(capture_queue) : stamp[s] = n)
      ~> (encodedUpTo >= n \/ ~running)

=============================================================================
