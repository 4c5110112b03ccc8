------------------------------ MODULE Pipeline ------------------------------
(***************************************************************************)
(* The video path of the desktop pipeline from the capture handler to the  *)
(* socket: CaptureStage and SendQueue share running_, the encoder carries  *)
(* frames from one to the other, and stop() goes through both in one       *)
(* order.  The encoder is either synchronous (Windows: encode() calls      *)
(* on_packet before it returns, on the encode thread) or asynchronous      *)
(* (macOS: VideoToolbox calls on_packet from a thread of its own, at some  *)
(* later time).                                                            *)
(***************************************************************************)
EXTENDS Naturals, Sequences, FiniteSets, Functions

CONSTANTS Handlers, Slots, NoSlot, MaxFrames,
          Producers, Sender, Capacity, MaxPackets,
          MaxJobs     \* bound: frames an asynchronous encoder holds at a time

VARIABLES
  running,
  capturing, inUse, stamp, frames_captured, handlerPc, handlerSlot,
  capture_queue, encPc, frame, last_frame, encodedUpTo, captureStop, outlived,
  next_video_sequence, send_queue, waitSet, prodPc, held, senderPc, writing,
  sent, connected, markPc, ownerPc,
  async,        \* is the encoder asynchronous?
  submitted,    \* is the encode thread inside encode()?
  jobs,         \* frames in the encoder, by number, oldest first
  picture       \* history: the frame each packet shows

CS == INSTANCE CaptureStage
SQ == INSTANCE SendQueue

ASSUME PipelineAssumption ==
  /\ CS!CaptureAssumption
  /\ SQ!SendQueueAssumption
  /\ MaxJobs \in Nat \ {0}

encoderVars == <<async, submitted, jobs, picture>>
captureVars ==
  <<capturing, inUse, stamp, frames_captured, handlerPc, handlerSlot,
    capture_queue, encPc, frame, last_frame, encodedUpTo, captureStop, outlived>>
sendVars ==
  <<next_video_sequence, send_queue, waitSet, prodPc, held, senderPc, writing,
    sent, connected, markPc, ownerPc>>
vars == <<running, captureVars, sendVars, encoderVars>>

Init ==
  /\ CS!Init
  /\ SQ!Init
  /\ async \in BOOLEAN
  /\ submitted = FALSE
  /\ jobs = <<>>
  /\ picture = [n \in 1 .. MaxPackets |-> 0]
-----------------------------------------------------------------------------
(* The encoder. *)

Encoding == IF encPc = "encode" THEN frame ELSE last_frame

(* What the viewer saw before packet n. *)
ShownBefore(n) == IF n = 1 THEN 0 ELSE picture[n - 1]

(* Bound: the pictures that no packet shows yet keep the numbers they need *)
(* of MaxPackets; repeated pictures and parameter sets get what is left.   *)
Owed ==
  {n \in 1 .. MaxFrames : n > ShownBefore(next_video_sequence)} \ Range(jobs)

Spare == next_video_sequence + Len(jobs) + Cardinality(Owed) <= MaxPackets

(* encode() is called; a frame it cannot take is reported and dropped. *)
EncodeCalled ==
  /\ encPc \in {"encode", "reencode"}
  /\ ~submitted
  /\ submitted' = TRUE
  /\ UNCHANGED <<running, captureVars, sendVars, async, picture>>

EncodeAccepted ==
  /\ EncodeCalled
  /\ Len(jobs) < MaxJobs
  /\ stamp[Encoding] \in Owed \/ Spare
  /\ jobs' = Append(jobs, stamp[Encoding])

EncodeRefused == EncodeCalled /\ UNCHANGED jobs

EncoderIdle == jobs = <<>> /\ \A p \in Producers : prodPc[p] = "idle"

(* A synchronous encoder returns when every packet was taken. *)
EncodeReturns ==
  /\ submitted
  /\ async \/ EncoderIdle
  /\ CS!EncodeNew \/ CS!EncodeAgain
  /\ submitted' = FALSE
  /\ UNCHANGED <<sendVars, async, jobs, picture>>

(* Mutant: the encoder reorders the frames it holds. *)
EncoderReorders(p) ==
  /\ jobs # <<>>
  /\ SQ!Emit(p)
  /\ picture' = [picture EXCEPT ![next_video_sequence] = jobs[Len(jobs)]]
  /\ jobs' = SubSeq(jobs, 1, Len(jobs) - 1)
  /\ UNCHANGED <<captureVars, async, submitted>>

(* One frame gives one packet, and before it a packet with the parameter   *)
(* sets, which shows nothing new, when the frame is a keyframe.            *)
EncoderEmits(p) ==
  /\ jobs # <<>>
  /\ SQ!Emit(p)
  /\ \/ /\ Spare
        /\ picture' = [picture EXCEPT ![next_video_sequence] =
                                         ShownBefore(next_video_sequence)]
        /\ UNCHANGED jobs
     \/ /\ picture' = [picture EXCEPT ![next_video_sequence] = Head(jobs)]
        /\ jobs' = Tail(jobs)
  /\ UNCHANGED <<captureVars, async, submitted>>

(* The encoder fails on a frame it had taken. *)
EncoderDrops ==
  /\ jobs # <<>>
  /\ jobs' = Tail(jobs)
  /\ UNCHANGED <<running, captureVars, sendVars, async, submitted, picture>>
-----------------------------------------------------------------------------
(* What the two stages do on their own. *)

FrameArrives ==
  /\ \E h \in Handlers : CS!Arrive(h)
  /\ UNCHANGED <<sendVars, encoderVars>>

CaptureCallback ==
  /\ \E h \in Handlers : CS!Callback(h)
  /\ UNCHANGED <<sendVars, encoderVars>>

EncodeStep ==
  /\ \/ CS!EncodeTest \/ CS!EncodeStops \/ CS!EncodeTakes
     \/ CS!EncodeTimesOut \/ CS!EncodeExit
  /\ UNCHANGED <<sendVars, encoderVars>>

SendStep ==
  /\ \/ \E p \in Producers : SQ!Push(p)
     \/ \E t \in SQ!Threads : SQ!SpuriousWakeup(t)
     \/ SQ!SendLoopTest \/ SQ!Pop \/ SQ!WriteOk \/ SQ!WriteFails
     \/ SQ!ConnectionLost \/ SQ!MarkFailed \/ SQ!MarkFailedNotify
  /\ UNCHANGED <<captureVars, encoderVars>>

(* stop(): the flag, the capturer, the notifications, the socket, the      *)
(* encode thread, the captured frames, the send thread and the encoder.    *)
Stop ==
  /\ CS!Stop
  /\ SQ!Stop
  /\ UNCHANGED encoderVars

StopCapture ==
  /\ \/ CS!StopCapturer
     \/ CS!StopStream
     \/ ownerPc = "join" /\ CS!JoinEncode
     \/ CS!DrainCaptureQueue
  /\ UNCHANGED <<sendVars, encoderVars>>

(* Mutant: the encoder is shut down without completing its frames. *)
StopSendEarly ==
  /\ \/ captureStop = "join" /\ SQ!StopNotify
     \/ SQ!StopClose
     \/ captureStop = "done" /\ SQ!StopJoin
  /\ UNCHANGED <<captureVars, encoderVars>>

StopSend ==
  /\ \/ captureStop = "join" /\ SQ!StopNotify
     \/ SQ!StopClose
     \/ captureStop = "done" /\ jobs = <<>> /\ SQ!StopJoin
  /\ UNCHANGED <<captureVars, encoderVars>>
-----------------------------------------------------------------------------
EncodeThread ==
  EncodeStep \/ EncodeAccepted \/ EncodeRefused \/ EncodeReturns

Next ==
  \/ FrameArrives \/ CaptureCallback
  \/ EncodeThread
  \/ EncoderDrops
  \/ SendStep
  \/ \E p \in Producers : EncoderEmits(p)
  \/ Stop \/ StopCapture \/ StopSend

Spec == Init /\ [][Next]_vars

SendStageOnly == UNCHANGED <<captureVars, encoderVars>>

SendThread ==
  /\ SQ!SendLoopTest \/ SQ!Pop \/ (~connected /\ SQ!WriteFails)
  /\ SendStageOnly

Owner == (~running /\ Stop) \/ StopCapture \/ StopSend

(* Threads that can run do run; the encoder gets rid of the frames it      *)
(* holds; the stats timer stops a pipeline that is not running; a write to *)
(* a socket that stop() closed returns.                                    *)
FairSpec ==
  /\ Spec
  /\ WF_vars(CaptureCallback)
  /\ WF_vars(EncodeThread)
  /\ WF_vars(EncoderDrops \/ \E p \in Producers : EncoderEmits(p))
  /\ \A p \in Producers : WF_vars(SQ!Push(p) /\ SendStageOnly)
  /\ WF_vars(SendThread)
  /\ WF_vars(SQ!MarkFailedNotify /\ SendStageOnly)
  /\ WF_vars(Owner)

(* The peer reads, and the encoder does not fail for ever. *)
PeerReads == WF_vars(SQ!WriteOk /\ SendStageOnly)

EncoderWorks ==
  /\ SF_vars(EncodeAccepted)
  /\ SF_vars(\E p \in Producers : EncoderEmits(p))
-----------------------------------------------------------------------------
(* What the viewer sees never goes back in time, and the sequence numbers  *)
(* it reports back increase: with one thread calling on_packet the order   *)
(* of capture survives the hand-overs, the idle re-sends and the failures. *)
WireInOrder ==
  \A i, j \in DOMAIN sent :
    i < j => /\ sent[i] < sent[j]
             /\ picture[sent[i]] <= picture[sent[j]]

(* stop() returns: nobody in the chain from the capture handler to the     *)
(* socket is left waiting for somebody who waits for him.                  *)
StopCompletes == ~running ~> ownerPc = "done"

(* When stop() has returned nothing is left in the pipeline: every frame   *)
(* was released unless a capture handler outlived the capturer's stop, the *)
(* encoder is empty, no packet is on its way and all threads are out.      *)
NothingLeft ==
  ownerPc = "done" =>
    /\ outlived = {} => inUse = {}
    /\ encPc = "done" /\ senderPc = "done"
    /\ EncoderIdle

(* The picture that stays on the screen reaches the viewer: while the peer *)
(* reads and the encoder works, when the screen stops changing (as it does *)
(* after MaxFrames frames) the frame captured last is written to the       *)
(* socket, unless the pipeline stops, however many older pictures were     *)
(* queued, dropped, refused or sent again before it (pipeline.cpp:454-530).*)
Showing(n) == \E i \in DOMAIN sent : picture[sent[i]] = n

PictureReachesViewer ==
  (PeerReads /\ EncoderWorks) =>
    []<>(~running \/ frames_captured = 0 \/ Showing(frames_captured))
=============================================================================
