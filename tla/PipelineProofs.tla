--------------------------- MODULE PipelineProofs ---------------------------
(***************************************************************************)
(* Proofs about the composed pipeline, for every number of buffers, frames *)
(* and packets, every capacity of the queue and every encoder: it is a     *)
(* behaviour of both stages, so that what is proved of each of them holds  *)
(* of the whole; stop() leaves nothing behind; and with one capture        *)
(* handler and one encoder callback at a time the viewer never sees an     *)
(* older picture after a newer one.                                        *)
(***************************************************************************)
EXTENDS Pipeline, SequenceTheorems, TLAPS

(* The stages with what is proved of them. *)
CSP == INSTANCE CaptureStageProofs
SQP == INSTANCE SendQueueProofs

(* The constants of the pipeline are as the two stages need them.          *)
LEMMA StageAssumptions == CSP!CaptureAssumption /\ SQP!SendQueueAssumption
BY PipelineAssumption
DEF CS!CaptureAssumption, CSP!CaptureAssumption,
    SQ!SendQueueAssumption, SQP!SendQueueAssumption,
    CS!IsFiniteSet, CSP!IsFiniteSet, SQ!IsFiniteSet, SQP!IsFiniteSet,
    SQ!Cardinality, SQP!Cardinality
-----------------------------------------------------------------------------
(* Where a step of the pipeline does what the capture stage does on its    *)
(* own, and where it leaves the capture stage alone.                       *)
LEMMA CaptureSteps ==
  /\ CS!Init => CSP!Init
  /\ \A h \in Handlers : CS!Arrive(h) => CSP!Arrive(h)
  /\ \A h \in Handlers : CS!Callback(h) => CSP!Callback(h)
  /\ CS!EncodeTest => CSP!EncodeTest
  /\ CS!EncodeStops => CSP!EncodeStops
  /\ CS!EncodeTakes => CSP!EncodeTakes
  /\ CS!EncodeTimesOut => CSP!EncodeTimesOut
  /\ CS!EncodeNew => CSP!EncodeNew
  /\ CS!EncodeAgain => CSP!EncodeAgain
  /\ CS!EncodeExit => CSP!EncodeExit
  /\ CS!Stop => CSP!Stop
  /\ CS!StopCapturer => CSP!StopCapturer
  /\ CS!StopStream => CSP!StopStream
  /\ CS!JoinEncode => CSP!JoinEncode
  /\ CS!DrainCaptureQueue => CSP!DrainCaptureQueue
<1>. USE DEF CS!handlerVars, CSP!handlerVars, CS!encodeVars, CSP!encodeVars,
             CS!bufferVars, CSP!bufferVars, CS!stopVars, CSP!stopVars,
             CS!AfterRelease, CSP!AfterRelease, CS!Range, CSP!Range,
             CS!StopStep, CSP!StopStep, CS!HandlerReturns, CSP!HandlerReturns
<1>1. CS!Init => CSP!Init
  BY DEF CS!Init, CSP!Init
<1>2. ASSUME NEW h \in Handlers PROVE CS!Arrive(h) => CSP!Arrive(h)
  BY DEF CS!Arrive, CSP!Arrive
<1>3. ASSUME NEW h \in Handlers PROVE CS!Callback(h) => CSP!Callback(h)
  BY DEF CS!Callback, CSP!Callback, CS!CallbackRefuses, CSP!CallbackRefuses,
         CS!CallbackAccepts, CSP!CallbackAccepts, CS!CallbackPushes,
         CSP!CallbackPushes
<1>4. /\ CS!EncodeTest => CSP!EncodeTest
      /\ CS!EncodeStops => CSP!EncodeStops
      /\ CS!EncodeExit => CSP!EncodeExit
  BY DEF CS!EncodeTest, CSP!EncodeTest, CS!EncodeStops, CSP!EncodeStops,
         CS!EncodeExit, CSP!EncodeExit
<1>5. CS!EncodeTakes => CSP!EncodeTakes
  BY DEF CS!EncodeTakes, CSP!EncodeTakes
<1>6. CS!EncodeTimesOut => CSP!EncodeTimesOut
  BY DEF CS!EncodeTimesOut, CSP!EncodeTimesOut
<1>7. CS!EncodeNew => CSP!EncodeNew
  BY DEF CS!EncodeNew, CSP!EncodeNew
<1>8. CS!EncodeAgain => CSP!EncodeAgain
  BY DEF CS!EncodeAgain, CSP!EncodeAgain
<1>9. CS!Stop => CSP!Stop
  BY DEF CS!Stop, CSP!Stop
<1>10. CS!StopCapturer => CSP!StopCapturer
  BY DEF CS!StopCapturer, CSP!StopCapturer
<1>11. CS!StopStream => CSP!StopStream
  BY DEF CS!StopStream, CSP!StopStream
<1>12. CS!JoinEncode => CSP!JoinEncode
  BY DEF CS!JoinEncode, CSP!JoinEncode
<1>13. CS!DrainCaptureQueue => CSP!DrainCaptureQueue
  BY DEF CS!DrainCaptureQueue, CSP!DrainCaptureQueue
<1>. QED
  BY <1>1, <1>2, <1>3, <1>4, <1>5, <1>6, <1>7, <1>8, <1>9, <1>10, <1>11,
     <1>12, <1>13

(* The same for the send stage.                                            *)
LEMMA SendSteps ==
  /\ SQ!Init => SQP!Init
  /\ \A p \in Producers : SQ!Emit(p) => SQP!Emit(p)
  /\ \A p \in Producers : SQ!Push(p) => SQP!Push(p)
  /\ \A t \in SQ!Threads : SQ!SpuriousWakeup(t)
       => \E u \in SQP!Threads : SQP!SpuriousWakeup(u)
  /\ SQ!SendLoopTest => SQP!SendLoopTest
  /\ SQ!Pop => SQP!Pop
  /\ SQ!WriteOk => SQP!WriteOk
  /\ SQ!WriteFails => SQP!WriteFails
  /\ SQ!ConnectionLost => SQP!ConnectionLost
  /\ SQ!MarkFailed => SQP!MarkFailed
  /\ SQ!MarkFailedNotify => SQP!MarkFailedNotify
  /\ SQ!Stop => SQP!Stop
  /\ SQ!StopNotify => SQP!StopNotify
  /\ SQ!StopClose => SQP!StopClose
  /\ SQ!StopJoin => SQP!StopJoin
<1>. USE DEF SQ!queueVars, SQP!queueVars, SQ!prodVars, SQP!prodVars,
             SQ!senderVars, SQP!senderVars, SQ!stopVars, SQP!stopVars,
             SQ!Awake, SQP!Awake, SQ!Wait, SQP!Wait, SQ!NotifyOne,
             SQP!NotifyOne, SQ!NotifyAll, SQP!NotifyAll, SQ!Full, SQP!Full,
             SQ!PushReturns, SQP!PushReturns, SQ!OwnerStep, SQP!OwnerStep
<1>1. SQ!Init => SQP!Init
  BY DEF SQ!Init, SQP!Init
<1>2. ASSUME NEW p \in Producers PROVE SQ!Emit(p) => SQP!Emit(p)
  BY DEF SQ!Emit, SQP!Emit
<1>3. ASSUME NEW p \in Producers PROVE SQ!Push(p) => SQP!Push(p)
  BY DEF SQ!Push, SQP!Push, SQ!PushBlocks, SQP!PushBlocks, SQ!PushDropped,
         SQP!PushDropped, SQ!PushQueued, SQP!PushQueued
<1>4. ASSUME NEW t \in SQ!Threads, SQ!SpuriousWakeup(t)
      PROVE  \E u \in SQP!Threads : SQP!SpuriousWakeup(u)
  BY <1>4 DEF SQ!Threads, SQP!Threads, SQ!SpuriousWakeup, SQP!SpuriousWakeup
<1>5. SQ!SendLoopTest => SQP!SendLoopTest
  BY DEF SQ!SendLoopTest, SQP!SendLoopTest
<1>6. SQ!Pop => SQP!Pop
  BY DEF SQ!Pop, SQP!Pop, SQ!PopBlocks, SQP!PopBlocks, SQ!PopLeaves,
         SQP!PopLeaves, SQ!PopTakes, SQP!PopTakes
<1>7. /\ SQ!WriteOk => SQP!WriteOk
      /\ SQ!WriteFails => SQP!WriteFails
  BY DEF SQ!WriteOk, SQP!WriteOk, SQ!WriteFails, SQP!WriteFails
<1>8. /\ SQ!ConnectionLost => SQP!ConnectionLost
      /\ SQ!MarkFailed => SQP!MarkFailed
      /\ SQ!MarkFailedNotify => SQP!MarkFailedNotify
  BY DEF SQ!ConnectionLost, SQP!ConnectionLost, SQ!MarkFailed, SQP!MarkFailed,
         SQ!MarkFailedNotify, SQP!MarkFailedNotify
<1>9. /\ SQ!Stop => SQP!Stop
      /\ SQ!StopNotify => SQP!StopNotify
      /\ SQ!StopClose => SQP!StopClose
      /\ SQ!StopJoin => SQP!StopJoin
  BY DEF SQ!Stop, SQP!Stop, SQ!StopNotify, SQP!StopNotify, SQ!StopClose,
         SQP!StopClose, SQ!StopJoin, SQP!StopJoin
<1>. QED
  BY <1>1, <1>2, <1>3, <1>4, <1>5, <1>6, <1>7, <1>8, <1>9

(* What the send stage does to running_, and what nobody else does.        *)
LEMMA SendStepFails ==
  ASSUME running \in BOOLEAN, SendStep
  PROVE  UNCHANGED CSP!vars \/ CSP!Fail
<1>1. UNCHANGED CSP!captureVars
  BY DEF SendStep, captureVars, CSP!captureVars, CSP!bufferVars,
         CSP!handlerVars, CSP!encodeVars, CSP!stopVars
<1>2. running' = running \/ running' = FALSE
  BY DEF SendStep, SQ!Push, SQ!PushBlocks, SQ!PushDropped, SQ!PushQueued,
         SQ!SpuriousWakeup, SQ!SendLoopTest, SQ!Pop, SQ!PopBlocks,
         SQ!PopLeaves, SQ!PopTakes, SQ!WriteOk, SQ!WriteFails,
         SQ!ConnectionLost, SQ!MarkFailed, SQ!MarkFailedNotify
<1>. QED  BY <1>1, <1>2 DEF CSP!vars, CSP!Fail

(* Every step of the pipeline is one of the capture stage, or none for it. *)
LEMMA CaptureStageKept ==
  running \in BOOLEAN /\ [Next]_vars => [CSP!Next]_(CSP!vars)
<1>. SUFFICES ASSUME running \in BOOLEAN, [Next]_vars
              PROVE  [CSP!Next]_(CSP!vars)
  OBVIOUS
<1>. USE CaptureSteps DEF CSP!Next, CSP!EncodeLoop, CSP!StopCapture
<1>0. UNCHANGED <<running, captureVars>> => UNCHANGED CSP!vars
  BY DEF captureVars, CSP!vars, CSP!captureVars, CSP!bufferVars,
         CSP!handlerVars, CSP!encodeVars, CSP!stopVars
<1>1. CASE UNCHANGED vars
  BY <1>0, <1>1 DEF vars
<1>2. CASE FrameArrives
  BY <1>2 DEF FrameArrives
<1>3. CASE CaptureCallback
  BY <1>3 DEF CaptureCallback
<1>4. CASE EncodeStep
  BY <1>4 DEF EncodeStep
<1>5. CASE EncodeAccepted \/ EncodeRefused
  BY <1>0, <1>5 DEF EncodeAccepted, EncodeRefused, EncodeCalled
<1>6. CASE EncodeReturns
  BY <1>6 DEF EncodeReturns
<1>7. CASE EncoderDrops
  BY <1>0, <1>7 DEF EncoderDrops
<1>8. CASE SendStep
  BY <1>8, SendStepFails
<1>9. ASSUME NEW p \in Producers, EncoderEmits(p) PROVE UNCHANGED CSP!vars
  BY <1>0, <1>9 DEF EncoderEmits, SQ!Emit
<1>10. CASE Stop
  BY <1>10 DEF Stop
<1>11. CASE StopCapture
  BY <1>11 DEF StopCapture
<1>12. CASE StopSend
  BY <1>0, <1>12 DEF StopSend, SQ!StopNotify, SQ!StopClose, SQ!StopJoin
<1>. QED
  BY <1>1, <1>2, <1>3, <1>4, <1>5, <1>6, <1>7, <1>8, <1>9, <1>10, <1>11, <1>12
  DEF Next, EncodeThread

(* Every step of the pipeline is one of the send stage, or none for it.    *)
LEMMA SendStageKept == [Next]_vars => [SQP!Next]_(SQP!vars)
<1>. SUFFICES ASSUME [Next]_vars PROVE [SQP!Next]_(SQP!vars)
  OBVIOUS
<1>. USE SendSteps DEF SQP!Next
<1>0. UNCHANGED <<running, sendVars>> => UNCHANGED SQP!vars
  BY DEF sendVars, SQP!vars, SQP!queueVars, SQP!prodVars, SQP!senderVars,
         SQP!stopVars
<1>1. CASE UNCHANGED vars
  BY <1>0, <1>1 DEF vars
<1>2. CASE FrameArrives \/ CaptureCallback \/ EncodeStep
  <2>1. UNCHANGED <<running, sendVars>>
    BY <1>2 DEF FrameArrives, CaptureCallback, EncodeStep, CS!Arrive,
                CS!Callback, CS!CallbackRefuses, CS!CallbackAccepts,
                CS!CallbackPushes, CS!EncodeTest, CS!EncodeStops,
                CS!EncodeTakes, CS!EncodeTimesOut, CS!EncodeExit
  <2>. QED  BY <1>0, <2>1
<1>3. CASE EncodeAccepted \/ EncodeRefused \/ EncodeReturns \/ EncoderDrops
  <2>1. UNCHANGED <<running, sendVars>>
    BY <1>3 DEF EncodeAccepted, EncodeRefused, EncodeCalled, EncodeReturns,
                EncoderDrops, CS!EncodeNew, CS!EncodeAgain
  <2>. QED  BY <1>0, <2>1
<1>4. CASE SendStep
  BY <1>4 DEF SendStep
<1>5. ASSUME NEW p \in Producers, EncoderEmits(p) PROVE SQP!Next
  BY <1>5 DEF EncoderEmits
<1>6. CASE Stop
  BY <1>6 DEF Stop
<1>7. CASE StopCapture
  <2>1. UNCHANGED <<running, sendVars>>
    BY <1>7 DEF StopCapture, CS!StopCapturer, CS!StopStream, CS!JoinEncode,
                CS!DrainCaptureQueue
  <2>. QED  BY <1>0, <2>1
<1>8. CASE StopSend
  BY <1>8 DEF StopSend
<1>. QED
  BY <1>1, <1>2, <1>3, <1>4, <1>5, <1>6, <1>7, <1>8 DEF Next, EncodeThread

(* The pipeline is a behaviour of its capture stage and of its send stage: *)
(* the encoder between them and the order of stop() only restrict what     *)
(* each of them does on its own.                                           *)
THEOREM StagesKept == Spec => CSP!Spec /\ SQP!Spec
<1>1. Init => CSP!Init /\ SQP!Init /\ running \in BOOLEAN
  BY CaptureSteps, SendSteps DEF Init, CSP!Init
<1>2. running \in BOOLEAN /\ [CSP!Next]_(CSP!vars) => (running \in BOOLEAN)'
  <2>. SUFFICES ASSUME running \in BOOLEAN, [CSP!Next]_(CSP!vars)
                PROVE  running' = running \/ running' = FALSE
    OBVIOUS
  <2>. QED
    BY DEF CSP!Next, CSP!vars, CSP!Arrive, CSP!Callback, CSP!CallbackRefuses,
           CSP!CallbackAccepts, CSP!CallbackPushes, CSP!EncodeLoop,
           CSP!EncodeTest, CSP!EncodeStops, CSP!EncodeTakes,
           CSP!EncodeTimesOut, CSP!EncodeNew, CSP!EncodeAgain, CSP!EncodeExit,
           CSP!Fail, CSP!Stop, CSP!StopCapture, CSP!StopCapturer,
           CSP!StopStream, CSP!JoinEncode, CSP!DrainCaptureQueue
<1>. QED
  BY <1>1, <1>2, CaptureStageKept, SendStageKept, PTL DEF Spec, CSP!Spec,
      SQP!Spec
-----------------------------------------------------------------------------
(* What holds of each stage on its own.                                    *)
StageInv == CSP!IInv /\ CSP!StopInv /\ SQP!Inv

(* It holds of the pipeline.                                               *)
THEOREM StageInvAlways == Spec => []StageInv
<1>1. CSP!Init => CSP!IInv /\ CSP!StopInv
  BY StageAssumptions, CSP!InitIInv, CSP!InitStopInv
  DEF CSP!InitIInv, CSP!InitStopInv
<1>2. CSP!IInv /\ CSP!StopInv /\ [CSP!Next]_(CSP!vars)
        => CSP!IInv' /\ CSP!StopInv'
  BY StageAssumptions, CSP!NextTypeOK, CSP!NextHolders, CSP!NextStopInv
  DEF CSP!NextTypeOK, CSP!NextHolders, CSP!NextStopInv, CSP!IInv
<1>3. SQP!Init => SQP!Inv
  BY StageAssumptions, SQP!InitInv DEF SQP!InitInv
<1>4. SQP!Inv /\ [SQP!Next]_(SQP!vars) => SQP!Inv'
  BY StageAssumptions, SQP!NextTypeOK, SQP!NextSupport, SQP!NextNoLostWakeup
  DEF SQP!NextTypeOK, SQP!NextSupport, SQP!NextNoLostWakeup, SQP!Inv
<1>. QED
  BY <1>1, <1>2, <1>3, <1>4, StagesKept, PTL DEF CSP!Spec, SQP!Spec, StageInv
-----------------------------------------------------------------------------
(* How stop() goes through the stages: it ends only with the encoder empty *)
(* and the capture stage gone, and then nothing is put into it any more.   *)
StopOrder ==
  /\ ownerPc # "idle" => captureStop # "idle"
  /\ ownerPc = "done" => captureStop = "done" /\ jobs = <<>>

(* Every step keeps that order.                                            *)
LEMMA NextStopOrder == StageInv /\ StopOrder /\ [Next]_vars => StopOrder'
<1>. SUFFICES ASSUME StageInv, StopOrder, [Next]_vars PROVE StopOrder'
  OBVIOUS
<1>. USE DEF StopOrder, captureVars, sendVars, encoderVars
<1>1. CASE UNCHANGED vars
  BY <1>1 DEF vars
<1>2. CASE FrameArrives \/ CaptureCallback \/ EncodeStep
  BY <1>2
  DEF FrameArrives, CaptureCallback, EncodeStep, CS!Arrive, CS!Callback,
      CS!CallbackRefuses, CS!CallbackAccepts, CS!CallbackPushes,
      CS!EncodeTest, CS!EncodeStops, CS!EncodeTakes, CS!EncodeTimesOut,
      CS!EncodeExit, CS!stopVars
<1>3. CASE EncodeAccepted \/ EncodeRefused
  <2>1. captureStop # "done"
    BY <1>3 DEF EncodeAccepted, EncodeRefused, EncodeCalled, StageInv,
                CSP!StopInv
  <2>. QED
    BY <1>3, <2>1 DEF EncodeAccepted, EncodeRefused, EncodeCalled
<1>4. CASE EncodeReturns
  BY <1>4 DEF EncodeReturns, CS!EncodeNew, CS!EncodeAgain, CS!stopVars
<1>5. CASE EncoderDrops
  BY <1>5 DEF EncoderDrops
<1>6. CASE SendStep
  BY <1>6
  DEF SendStep, SQ!Push, SQ!PushBlocks, SQ!PushDropped, SQ!PushQueued,
      SQ!SpuriousWakeup, SQ!SendLoopTest, SQ!Pop, SQ!PopBlocks, SQ!PopLeaves,
      SQ!PopTakes, SQ!WriteOk, SQ!WriteFails, SQ!ConnectionLost,
      SQ!MarkFailed, SQ!MarkFailedNotify, SQ!stopVars
<1>7. ASSUME NEW p \in Producers, EncoderEmits(p) PROVE StopOrder'
  BY <1>7 DEF EncoderEmits, SQ!Emit, SQ!stopVars
<1>8. CASE Stop
  BY <1>8 DEF Stop, CS!Stop, CS!StopStep, SQ!Stop, SQ!OwnerStep
<1>9. CASE StopCapture
  BY <1>9
  DEF StopCapture, CS!StopCapturer, CS!StopStream, CS!JoinEncode,
      CS!DrainCaptureQueue, CS!StopStep
<1>10. CASE StopSend
  BY <1>10 DEF StopSend, SQ!StopNotify, SQ!StopClose, SQ!StopJoin, SQ!OwnerStep
<1>. QED
  BY <1>1, <1>2, <1>3, <1>4, <1>5, <1>6, <1>7, <1>8, <1>9, <1>10
  DEF Next, EncodeThread

(* When stop() has returned nothing is left in the pipeline: every frame   *)
(* was released unless a handler outlived the capturer's stop, no packet   *)
(* is on its way, and all threads are out (pipeline.cpp:311-359).          *)
THEOREM NothingLeftAlways == Spec => []NothingLeft
<1>1. Init => StopOrder
  BY DEF Init, SQ!Init, CS!Init, StopOrder
<1>2. StageInv /\ StopOrder => NothingLeft
  <2>1. StageInv => CSP!AllReleased
    BY StageAssumptions, CSP!StoppedReleased DEF CSP!StoppedReleased, StageInv
  <2>. QED
    BY <2>1 DEF StageInv, StopOrder, NothingLeft, EncoderIdle, CSP!AllReleased,
                CSP!StopInv, SQP!Inv, SQP!CleanStop
<1>. QED  BY <1>1, <1>2, NextStopOrder, StageInvAlways, PTL DEF Spec
-----------------------------------------------------------------------------
(* The encoder holds numbers of frames, and encode() is called at the two  *)
(* places of the encode thread.                                            *)
EncoderTypes ==
  /\ async \in BOOLEAN
  /\ submitted \in BOOLEAN
  /\ submitted => encPc \in {"encode", "reencode"}
  /\ jobs \in Seq(0 .. MaxFrames)
  /\ picture \in [1 .. MaxPackets -> 0 .. MaxFrames]

(* The newest frame that encode() was called with. *)
Newest == IF submitted THEN stamp[Encoding] ELSE encodedUpTo

Shown == 1 .. next_video_sequence - 1

(* Packets show frames in the order of their numbers, frames the encoder   *)
(* still holds are no older, and the newest frame is no older than those.  *)
PicturesInOrder ==
  /\ \A i, j \in DOMAIN jobs : i <= j => jobs[i] <= jobs[j]
  /\ \A i \in DOMAIN jobs : jobs[i] <= Newest
  /\ \A n \in Shown :
       /\ picture[n] <= Newest
       /\ \A i \in DOMAIN jobs : picture[n] <= jobs[i]
       /\ \A m \in 1 .. n : picture[m] <= picture[n]

(* The encoder's inductive invariant, next to those of the stages.         *)
ViewInv == CSP!InOrder /\ SQP!NumbersRise /\ EncoderTypes /\ PicturesInOrder

(* What the encode thread is about to submit is in a buffer that nobody    *)
(* writes, and is no older than what it submitted last.                    *)
LEMMA EncodingIsHeld ==
  ASSUME StageInv, ViewInv, encPc \in {"encode", "reencode"}
  PROVE  /\ Encoding \in Slots
         /\ Encoding \in inUse
         /\ stamp[Encoding] \in 0 .. MaxFrames
         /\ encodedUpTo <= stamp[Encoding]
<1>1. Encoding \in Slots
  BY StageAssumptions
  DEF Encoding, StageInv, CSP!IInv, CSP!TypeOK, CSP!Carrying
<1>2. Encoding \in inUse
  BY <1>1 DEF Encoding, StageInv, CSP!IInv, CSP!AllHeld
<1>. QED
  BY <1>1, <1>2 DEF StageInv, ViewInv, CSP!IInv, CSP!TypeOK, CSP!InOrder

(* A call of encode() submits the frame the encode thread has.             *)
LEMMA CallSubmits ==
  ASSUME StageInv, ViewInv, EncodeCalled
  PROVE  /\ Newest' = stamp[Encoding]
         /\ Newest <= Newest'
         /\ Newest' \in 0 .. MaxFrames
<1>1. encPc \in {"encode", "reencode"} /\ ~submitted /\ submitted'
  BY DEF EncodeCalled
<1>2. Newest' = stamp[Encoding] /\ Newest = encodedUpTo
  BY <1>1 DEF EncodeCalled, captureVars, Newest, Encoding
<1>. QED  BY <1>1, <1>2, EncodingIsHeld

(* Nothing but the call of encode() changes which frame is the newest.     *)
LEMMA NewestStays ==
  ASSUME StageInv, ViewInv, [Next]_vars, ~EncodeAccepted, ~EncodeRefused
  PROVE  Newest' = Newest
<1>. USE DEF ViewInv, EncoderTypes
<1>0. UNCHANGED <<captureVars, submitted>> => Newest' = Newest
  BY DEF captureVars, Newest, Encoding
<1>1. CASE UNCHANGED vars
  BY <1>0, <1>1 DEF vars, encoderVars
<1>2. CASE FrameArrives
  <2>1. /\ UNCHANGED <<submitted, encPc, frame, last_frame, encodedUpTo>>
        /\ \A s \in inUse : stamp'[s] = stamp[s]
    BY <1>2 DEF FrameArrives, CS!Arrive, encoderVars, CS!encodeVars, StageInv,
                CSP!IInv, CSP!TypeOK
  <2>2. CASE submitted
    BY <2>1, <2>2, EncodingIsHeld DEF Newest, Encoding
  <2>. QED  BY <2>1, <2>2 DEF Newest
<1>3. CASE CaptureCallback
  BY <1>3
  DEF CaptureCallback, CS!Callback, CS!CallbackRefuses, CS!CallbackAccepts,
      CS!CallbackPushes, CS!encodeVars, CS!bufferVars, encoderVars, Newest,
      Encoding
<1>4. CASE EncodeStep
  BY <1>4
  DEF EncodeStep, CS!EncodeTest, CS!EncodeStops, CS!EncodeTakes,
      CS!EncodeTimesOut, CS!EncodeExit, encoderVars, Newest
<1>5. CASE EncodeReturns
  BY <1>5 DEF EncodeReturns, CS!EncodeNew, CS!EncodeAgain, Newest, Encoding
<1>6. CASE EncoderDrops
  BY <1>0, <1>6 DEF EncoderDrops
<1>7. CASE SendStep
  BY <1>0, <1>7 DEF SendStep, encoderVars
<1>8. ASSUME NEW p \in Producers, EncoderEmits(p) PROVE Newest' = Newest
  BY <1>0, <1>8 DEF EncoderEmits
<1>9. CASE Stop
  BY <1>9 DEF Stop, CS!Stop, CS!encodeVars, CS!bufferVars, encoderVars, Newest,
              Encoding
<1>10. CASE StopCapture
  BY <1>10
  DEF StopCapture, CS!StopCapturer, CS!StopStream, CS!JoinEncode,
      CS!DrainCaptureQueue, CS!encodeVars, CS!bufferVars, encoderVars, Newest,
      Encoding
<1>11. CASE StopSend
  BY <1>0, <1>11 DEF StopSend, encoderVars
<1>. QED
  BY <1>1, <1>2, <1>3, <1>4, <1>5, <1>6, <1>7, <1>8, <1>9, <1>10, <1>11
  DEF Next, EncodeThread

(* Nothing but the call of encode() and the encoder itself touches the     *)
(* frames in the encoder and the pictures in the packets.                  *)
LEMMA EncoderStays ==
  ASSUME [Next]_vars, ~EncodeAccepted, ~EncoderDrops,
         \A p \in Producers : ~EncoderEmits(p)
  PROVE  UNCHANGED <<jobs, picture, next_video_sequence>>
<1>1. CASE UNCHANGED vars
  BY <1>1 DEF vars, sendVars, encoderVars
<1>2. CASE FrameArrives \/ CaptureCallback \/ EncodeStep \/ StopCapture
  BY <1>2 DEF FrameArrives, CaptureCallback, EncodeStep, StopCapture, sendVars,
              encoderVars
<1>3. CASE EncodeRefused \/ EncodeReturns
  BY <1>3 DEF EncodeRefused, EncodeCalled, EncodeReturns, sendVars
<1>4. CASE SendStep
  BY <1>4
  DEF SendStep, SQ!Push, SQ!PushBlocks, SQ!PushDropped, SQ!PushQueued,
      SQ!PushReturns, SQ!SpuriousWakeup, SQ!SendLoopTest, SQ!Pop,
      SQ!PopBlocks, SQ!PopLeaves, SQ!PopTakes, SQ!WriteOk, SQ!WriteFails,
      SQ!ConnectionLost, SQ!MarkFailed, SQ!MarkFailedNotify, SQ!prodVars,
      encoderVars
<1>5. CASE Stop \/ StopSend
  BY <1>5 DEF Stop, StopSend, SQ!Stop, SQ!StopNotify, SQ!StopClose,
      SQ!StopJoin,
              SQ!prodVars, encoderVars
<1>. QED
  BY <1>1, <1>2, <1>3, <1>4, <1>5 DEF Next, EncodeThread

(* What is left of a sequence whose head is taken, or one is added to.     *)
LEMMA JobMoves ==
  ASSUME NEW S, NEW s \in Seq(S)
  PROVE  /\ \A v \in S : Append(s, v) \in Seq(S)
         /\ s # <<>> => /\ Head(s) \in S /\ Tail(s) \in Seq(S)
                        /\ 1 \in DOMAIN s /\ Head(s) = s[1]
                        /\ \A i \in DOMAIN Tail(s) : i \in Nat /\
                             i + 1 \in DOMAIN s /\ Tail(s)[i] = s[i + 1]
<1>1. \A v \in S : Append(s, v) \in Seq(S)
  OBVIOUS
<1>2. ASSUME s # <<>>
      PROVE  /\ Head(s) \in S /\ Tail(s) \in Seq(S)
             /\ 1 \in DOMAIN s /\ Head(s) = s[1]
             /\ \A i \in DOMAIN Tail(s) : i \in Nat /\
                  i + 1 \in DOMAIN s /\ Tail(s)[i] = s[i + 1]
  BY <1>2
<1>. QED  BY <1>1, <1>2

(* A packet shows the oldest frame in the encoder, which leaves it, or, as *)
(* parameter sets, what was shown before.                                  *)
LEMMA PacketShows ==
  ASSUME NEW p \in Producers, EncoderEmits(p)
  PROVE  /\ jobs # <<>> /\ SQ!Emit(p)
         /\ UNCHANGED <<captureVars, async, submitted>>
         /\ \E v : /\ picture' = [picture EXCEPT ![next_video_sequence] = v]
                   /\ \/ v = Head(jobs) /\ jobs' = Tail(jobs)
                      \/ v = ShownBefore(next_video_sequence) /\ jobs' = jobs
<1>1. CASE /\ picture' = [picture EXCEPT ![next_video_sequence] =
                                          ShownBefore(next_video_sequence)]
           /\ UNCHANGED jobs
  BY <1>1 DEF EncoderEmits
<1>2. CASE /\ picture' = [picture EXCEPT ![next_video_sequence] = Head(jobs)]
           /\ jobs' = Tail(jobs)
  BY <1>2 DEF EncoderEmits
<1>. QED  BY <1>1, <1>2 DEF EncoderEmits

(* Every step keeps the types of the encoder.                              *)
LEMMA NextEncoderTypes ==
  StageInv /\ EncoderTypes /\ [Next]_vars => EncoderTypes'
<1>. SUFFICES ASSUME StageInv, EncoderTypes, [Next]_vars PROVE EncoderTypes'
  OBVIOUS
<1>1. next_video_sequence \in 1 .. MaxPackets + 1
  BY DEF StageInv, SQP!Inv, SQP!TypeOK
<1>2. async' = async
  BY DEF Next, FrameArrives, CaptureCallback, EncodeThread, EncodeStep,
         EncodeAccepted, EncodeRefused, EncodeCalled, EncodeReturns,
         EncoderDrops, SendStep, EncoderEmits, Stop, StopCapture, StopSend,
         encoderVars, vars
<1>3. CASE EncodeAccepted \/ EncodeRefused
  <2>1. /\ encPc \in {"encode", "reencode"} /\ encPc' = encPc
        /\ submitted' = TRUE /\ picture' = picture
    BY <1>3 DEF EncodeAccepted, EncodeRefused, EncodeCalled, captureVars
  <2>2. stamp[Encoding] \in 0 .. MaxFrames
    BY <2>1, StageAssumptions
    DEF Encoding, StageInv, CSP!IInv, CSP!TypeOK, CSP!Carrying
  <2>3. jobs' \in Seq(0 .. MaxFrames)
    <3>1. Append(jobs, stamp[Encoding]) \in Seq(0 .. MaxFrames)
      BY <2>2, JobMoves DEF EncoderTypes
    <3>. QED  BY <1>3, <3>1 DEF EncodeAccepted, EncodeRefused, EncoderTypes
  <2>. QED  BY <1>2, <2>1, <2>3 DEF EncoderTypes
<1>4. CASE EncoderDrops
  BY <1>2, <1>4, JobMoves DEF EncoderDrops, captureVars, EncoderTypes
<1>5. ASSUME NEW p \in Producers, EncoderEmits(p) PROVE EncoderTypes'
  <2>0. MaxPackets \in Nat /\ MaxFrames \in Nat
    BY StageAssumptions DEF SQP!SendQueueAssumption, CSP!CaptureAssumption
  <2>1. /\ next_video_sequence \in 1 .. MaxPackets
        /\ jobs # <<>>
        /\ UNCHANGED <<submitted, encPc>>
    BY <1>1, <1>5, <2>0, PacketShows DEF SQ!Emit, captureVars
  <2>2. PICK v : /\ picture' = [picture EXCEPT ![next_video_sequence] = v]
                 /\ \/ v = Head(jobs) /\ jobs' = Tail(jobs)
                    \/ v = ShownBefore(next_video_sequence) /\ jobs' = jobs
    BY <1>5, PacketShows
  <2>3. ShownBefore(next_video_sequence) \in 0 .. MaxFrames
    <3>1. next_video_sequence # 1 => next_video_sequence - 1 \in 1 .. MaxPackets
      BY <2>1, <2>0
    <3>. QED  BY <2>0, <3>1 DEF ShownBefore, EncoderTypes
  <2>4. v \in 0 .. MaxFrames /\ jobs' \in Seq(0 .. MaxFrames)
    BY <2>1, <2>2, <2>3, JobMoves DEF EncoderTypes
  <2>. QED  BY <1>2, <2>1, <2>2, <2>4 DEF EncoderTypes
<1>6. CASE ~(EncodeAccepted \/ EncodeRefused) /\ ~EncoderDrops
             /\ ~(\E p \in Producers : EncoderEmits(p))
  <2>1. UNCHANGED <<jobs, picture>>
    BY <1>6, EncoderStays
  <2>2. \/ submitted' = FALSE
        \/ submitted' = submitted /\ (encPc' = encPc \/ ~submitted)
    <3>1. CASE UNCHANGED vars
      BY <3>1 DEF vars, captureVars, encoderVars
    <3>2. CASE FrameArrives \/ CaptureCallback
      BY <3>2 DEF FrameArrives, CaptureCallback, CS!Arrive, CS!Callback,
                  CS!CallbackRefuses, CS!CallbackAccepts, CS!CallbackPushes,
                  CS!encodeVars, encoderVars
    <3>3. CASE EncodeStep
      BY <3>3 DEF EncodeStep, CS!EncodeTest, CS!EncodeStops, CS!EncodeTakes,
                  CS!EncodeTimesOut, CS!EncodeExit, encoderVars, EncoderTypes
    <3>4. CASE EncodeReturns
      BY <3>4 DEF EncodeReturns
    <3>5. CASE SendStep \/ StopSend
      BY <3>5 DEF SendStep, StopSend, captureVars, encoderVars
    <3>6. CASE Stop \/ StopCapture
      BY <3>6 DEF Stop, StopCapture, CS!Stop, CS!StopCapturer, CS!StopStream,
                  CS!JoinEncode, CS!DrainCaptureQueue, CS!encodeVars,
                  encoderVars
    <3>. QED
      BY <1>6, <3>1, <3>2, <3>3, <3>4, <3>5, <3>6 DEF Next, EncodeThread
  <2>3. submitted' \in BOOLEAN
    BY <2>2, Zenon DEF EncoderTypes
  <2>4. submitted' => encPc' \in {"encode", "reencode"}
    BY <2>2 DEF EncoderTypes
  <2>. QED  BY <1>2, <2>1, <2>3, <2>4 DEF EncoderTypes
<1>. QED  BY <1>3, <1>4, <1>5, <1>6

(* Every step keeps the pictures in order.                                 *)
LEMMA NextPicturesInOrder ==
  StageInv /\ ViewInv /\ [Next]_vars => PicturesInOrder'
<1>. SUFFICES ASSUME StageInv, ViewInv, [Next]_vars PROVE PicturesInOrder'
  OBVIOUS
<1>1. /\ next_video_sequence \in 1 .. MaxPackets + 1 /\ MaxPackets \in Nat
      /\ MaxFrames \in Nat
      /\ jobs \in Seq(0 .. MaxFrames)
      /\ picture \in [1 .. MaxPackets -> 0 .. MaxFrames]
      /\ \A n \in Shown : n \in 1 .. MaxPackets /\ picture[n] \in Nat
      /\ \A i \in DOMAIN jobs : jobs[i] \in Nat
  BY StageAssumptions
  DEF StageInv, SQP!Inv, SQP!TypeOK, ViewInv, EncoderTypes, Shown,
      CSP!CaptureAssumption, SQP!SendQueueAssumption
<1>2. Newest \in Nat
  <2>1. encodedUpTo \in Nat
    BY <1>1 DEF StageInv, CSP!IInv, CSP!TypeOK
  <2>2. CASE submitted
    BY <1>1, <2>2, EncodingIsHeld DEF ViewInv, EncoderTypes, Newest
  <2>. QED  BY <2>1, <2>2 DEF Newest
<1>. USE <1>1, <1>2
<1>3. CASE EncodeAccepted
  <2>1. /\ jobs' = Append(jobs, Newest')
        /\ Newest <= Newest' /\ Newest' \in Nat
        /\ UNCHANGED <<picture, next_video_sequence>>
    BY <1>3, CallSubmits DEF EncodeAccepted, EncodeCalled, sendVars
  <2>2. \A i \in DOMAIN jobs : jobs[i] <= Newest'
    BY <2>1 DEF ViewInv, PicturesInOrder
  <2>3. \A i, j \in DOMAIN jobs' : i <= j => jobs'[i] <= jobs'[j]
    BY <2>1, <2>2 DEF ViewInv, PicturesInOrder
  <2>4. \A n \in Shown : picture[n] <= Newest'
    BY <2>1 DEF ViewInv, PicturesInOrder
  <2>. QED  BY <2>1, <2>2, <2>3, <2>4 DEF ViewInv, PicturesInOrder, Shown
<1>4. CASE EncodeRefused
  <2>1. /\ Newest <= Newest' /\ Newest' \in Nat
        /\ UNCHANGED <<jobs, picture, next_video_sequence>>
    BY <1>4, CallSubmits DEF EncodeRefused, EncodeCalled, sendVars
  <2>. QED  BY <2>1 DEF ViewInv, PicturesInOrder, Shown
<1>5. CASE EncoderDrops /\ ~EncodeAccepted /\ ~EncodeRefused
  <2>1. /\ jobs # <<>> /\ jobs' = Tail(jobs)
        /\ UNCHANGED <<picture, next_video_sequence>>
        /\ Newest' = Newest
    BY <1>5, NewestStays DEF EncoderDrops, sendVars
  <2>2. \A i \in DOMAIN jobs' : i + 1 \in DOMAIN jobs /\ jobs'[i] = jobs[i + 1]
    BY <2>1, JobMoves
  <2>3. DOMAIN jobs' \subseteq Nat
    BY <2>1
  <2>4. \A i, j \in DOMAIN jobs' : i <= j => jobs'[i] <= jobs'[j]
    BY <2>2, <2>3 DEF ViewInv, PicturesInOrder
  <2>. QED  BY <2>1, <2>2, <2>4 DEF ViewInv, PicturesInOrder, Shown
<1>6. ASSUME NEW p \in Producers, EncoderEmits(p),
             ~EncodeAccepted, ~EncodeRefused
      PROVE  PicturesInOrder'
  <2>1. /\ next_video_sequence \in 1 .. MaxPackets
        /\ next_video_sequence' = next_video_sequence + 1
        /\ jobs # <<>> /\ Newest' = Newest
    BY <1>6, NewestStays, PacketShows DEF SQ!Emit
  <2>0. PICK v : /\ picture' = [picture EXCEPT ![next_video_sequence] = v]
                 /\ \/ v = Head(jobs) /\ jobs' = Tail(jobs)
                    \/ v = ShownBefore(next_video_sequence) /\ jobs' = jobs
    BY <1>6, PacketShows
  <2>2. /\ v \in Nat
        /\ \A i \in DOMAIN jobs : v <= jobs[i]
        /\ \A n \in Shown : picture[n] <= v
        /\ v <= Newest
    <3>1. CASE v = Head(jobs)
      BY <2>1, <3>1 DEF ViewInv, PicturesInOrder
    <3>2. CASE v = ShownBefore(next_video_sequence) /\ next_video_sequence = 1
      BY <2>1, <3>2 DEF ShownBefore, Shown
    <3>3. CASE v = ShownBefore(next_video_sequence) /\ next_video_sequence # 1
      <4>1. /\ next_video_sequence - 1 \in Shown /\ v = picture[next_video_sequence - 1]
            /\ \A n \in Shown : n \in 1 .. next_video_sequence - 1
        BY <2>1, <3>3 DEF ShownBefore, Shown
      <4>. QED  BY <4>1 DEF ViewInv, PicturesInOrder
    <3>. QED  BY <2>0, <3>1, <3>2, <3>3
  <2>3. /\ \A n \in Shown : picture'[n] = picture[n]
        /\ picture'[next_video_sequence] = v
        /\ Shown' = Shown \cup {next_video_sequence}
    BY <2>0, <2>1 DEF Shown
  <2>4. \/ jobs' = jobs
        \/ \A j \in DOMAIN jobs' :
             j \in Nat /\ j + 1 \in DOMAIN jobs /\ jobs'[j] = jobs[j + 1]
    BY <2>0, <2>1, JobMoves
  <2>5. \A i, j \in DOMAIN jobs' : i <= j => jobs'[i] <= jobs'[j]
    BY <2>4 DEF ViewInv, PicturesInOrder
  <2>6. \A i \in DOMAIN jobs' : jobs'[i] <= Newest'
    BY <2>1, <2>4 DEF ViewInv, PicturesInOrder
  <2>7. ASSUME NEW n \in Shown'
        PROVE  /\ picture'[n] <= Newest'
               /\ \A i \in DOMAIN jobs' : picture'[n] <= jobs'[i]
               /\ \A m \in 1 .. n : picture'[m] <= picture'[n]
    <3>1. CASE n \in Shown
      <4>1. 1 .. n \subseteq Shown
        BY <3>1 DEF Shown
      <4>. QED
        BY <2>1, <2>3, <2>4, <3>1, <4>1 DEF ViewInv, PicturesInOrder
    <3>2. CASE n = next_video_sequence
      <4>1. \A m \in 1 .. n : m \in Shown \/ m = n
        BY <3>2 DEF Shown
      <4>. QED  BY <2>1, <2>2, <2>3, <2>4, <3>2, <4>1
    <3>. QED  BY <2>3, <2>7, <3>1, <3>2
  <2>. QED  BY <2>5, <2>6, <2>7 DEF PicturesInOrder
<1>7. CASE ~EncodeAccepted /\ ~EncodeRefused /\ ~EncoderDrops
             /\ ~(\E p \in Producers : EncoderEmits(p))
  <2>1. UNCHANGED <<jobs, picture, next_video_sequence>> /\ Newest' = Newest
    BY <1>7, EncoderStays, NewestStays
  <2>. QED  BY <2>1 DEF ViewInv, PicturesInOrder, Shown
<1>. QED  BY <1>3, <1>4, <1>5, <1>6, <1>7

(* With one capture handler and one thread in the encoder's callback at a  *)
(* time (pipeline.cpp:419-452), the packets on the wire are in the order   *)
(* of their numbers, and the viewer never sees an older picture after a    *)
(* newer one, whatever is dropped on the way and however often the idle    *)
(* screen is sent again.                                                   *)
THEOREM WireInOrderAlways ==
  ASSUME \A g, h \in Handlers : g = h,
         \A p, q \in Producers : p = q
  PROVE  Spec => []WireInOrder
<1>1. Init => ViewInv
  <2>. SUFFICES ASSUME Init PROVE ViewInv
    OBVIOUS
  <2>1. CSP!InOrder
    BY StageAssumptions, CSP!InitInOrder, CaptureSteps
    DEF CSP!InitInOrder, Init
  <2>2. SQP!NumbersRise
    BY StageAssumptions, SQP!InitNumbersRise, SendSteps
    DEF SQP!InitNumbersRise, Init
  <2>3. EncoderTypes
    <3>1. 0 \in 0 .. MaxFrames
      BY StageAssumptions DEF CSP!CaptureAssumption
    <3>2. picture \in [1 .. MaxPackets -> 0 .. MaxFrames]
      BY <3>1 DEF Init
    <3>3. <<>> \in Seq(0 .. MaxFrames)
      BY EmptySeq
    <3>. QED  BY <3>2, <3>3 DEF Init, EncoderTypes
  <2>4. PicturesInOrder
    BY DEF Init, SQ!Init, PicturesInOrder, Shown
  <2>. QED  BY <2>1, <2>2, <2>3, <2>4 DEF ViewInv
<1>2. StageInv /\ StageInv' /\ ViewInv /\ [Next]_vars => ViewInv'
  <2>. SUFFICES ASSUME StageInv, StageInv', ViewInv, [Next]_vars PROVE ViewInv'
    OBVIOUS
  <2>1. running \in BOOLEAN
    BY DEF StageInv, SQP!Inv, SQP!TypeOK
  <2>2. CSP!InOrder'
    BY <2>1, CaptureStageKept, StageAssumptions, CSP!NextInOrder
    DEF CSP!NextInOrder, StageInv, ViewInv
  <2>3. SQP!NumbersRise'
    BY SendStageKept, StageAssumptions, SQP!NextNumbersRise
    DEF SQP!NextNumbersRise, StageInv, ViewInv
  <2>4. EncoderTypes' /\ PicturesInOrder'
    BY NextEncoderTypes, NextPicturesInOrder DEF ViewInv
  <2>. QED  BY <2>2, <2>3, <2>4 DEF ViewInv
<1>3. StageInv /\ ViewInv => WireInOrder
  <2>. SUFFICES ASSUME StageInv, ViewInv, NEW i \in DOMAIN sent,
                       NEW j \in DOMAIN sent, i < j
                PROVE  sent[i] < sent[j] /\ picture[sent[i]] <= picture[sent[j]]
    BY DEF WireInOrder
  <2>1. sent[i] < sent[j]
    BY DEF ViewInv, SQP!NumbersRise, SQP!Rising
  <2>2. sent[j] < next_video_sequence
    BY DEF ViewInv, SQP!NumbersRise, SQP!BeforeAll, SQP!Below
  <2>3. /\ sent[i] \in Nat \ {0} /\ sent[j] \in Nat \ {0}
        /\ next_video_sequence \in Nat
    BY StageAssumptions
    DEF StageInv, SQP!Inv, SQP!TypeOK, SQP!Packet, SQP!SendQueueAssumption
  <2>4. sent[j] \in Shown /\ sent[i] \in 1 .. sent[j]
    BY <2>1, <2>2, <2>3 DEF Shown
  <2>. QED  BY <2>1, <2>4 DEF ViewInv, PicturesInOrder
<1>. QED  BY <1>1, <1>2, <1>3, StageInvAlways, PTL DEF Spec
=============================================================================
