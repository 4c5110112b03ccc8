------------------------- MODULE CaptureStageProofs -------------------------
(***************************************************************************)
(* Proofs about the capture and encode stages, for every number of         *)
(* handlers, buffers and frames: every buffer in use has exactly one       *)
(* holder, and three buffers more than handlers are enough.                *)
(***************************************************************************)
EXTENDS CaptureStage, FiniteSetTheorems, TLAPS

(* Who carries a frame, and when. *)
Carrying ==
  /\ \A h \in Handlers : handlerPc[h] = "idle" <=> handlerSlot[h] = NoSlot
  /\ frame # NoSlot <=> encPc = "encode"
  /\ encPc = "reencode" => last_frame # NoSlot

Queued == Range(capture_queue)

(* OneHolder, holder by holder. *)
NoneShared ==
  /\ \A h \in Handlers : handlerSlot[h] # NoSlot =>
       /\ handlerSlot[h] \notin Queued \cup {frame, last_frame}
       /\ \A g \in Handlers \ {h} : handlerSlot[g] # handlerSlot[h]
  /\ Queued \cap {frame, last_frame} = {}
  /\ frame # NoSlot => frame # last_frame

AllHeld ==
  \A s \in Slots :
    s \in inUse <=> \/ \E h \in Handlers : handlerSlot[h] = s
                    \/ s \in Queued
                    \/ s = frame
                    \/ s = last_frame

IInv == TypeOK /\ Carrying /\ NoneShared /\ AllHeld
-----------------------------------------------------------------------------
(* The buffers of an empty queue and of a queue of one.                    *)
LEMMA QueueRange ==
  /\ Range(<<>>) = {}
  /\ \A s \in Slots : Range(<<s>>) = {s}
<1>1. Range(<<>>) = {}
  BY DEF Range
<1>2. ASSUME NEW s \in Slots PROVE Range(<<s>>) = {s}
  BY DEF Range
<1>. QED  BY <1>1, <1>2

(* The queue is empty, or holds one buffer.                                *)
LEMMA QueueCases ==
  ASSUME TypeOK
  PROVE  \/ capture_queue = <<>> /\ Queued = {}
         \/ \E s \in Slots : /\ capture_queue = <<s>>
                             /\ Queued = {s}
                             /\ Head(capture_queue) = s
<1>1. CASE capture_queue = <<>>
  BY <1>1, QueueRange DEF Queued
<1>2. ASSUME NEW s \in Slots, capture_queue = <<s>>
      PROVE  Queued = {s} /\ Head(capture_queue) = s
  BY <1>2, QueueRange DEF Queued
<1>. QED  BY <1>1, <1>2 DEF TypeOK
-----------------------------------------------------------------------------
(* The pipeline starts with no frame anywhere.                             *)
LEMMA InitIInv == Init => IInv
<1>. SUFFICES ASSUME Init PROVE IInv
  OBVIOUS
<1>. USE CaptureAssumption DEF Init
<1>1. TypeOK
  BY DEF TypeOK
<1>2. Carrying
  BY DEF Carrying
<1>3. NoneShared /\ AllHeld
  BY QueueRange DEF NoneShared, AllHeld, Queued
<1>. QED  BY <1>1, <1>2, <1>3 DEF IInv

(* Every step keeps the types.                                             *)
LEMMA NextTypeOK == IInv /\ [Next]_vars => TypeOK'
<1>. SUFFICES ASSUME IInv, [Next]_vars PROVE TypeOK'
  OBVIOUS
<1>. USE CaptureAssumption
     DEF IInv, TypeOK, handlerVars, encodeVars, bufferVars, stopVars,
         captureVars, AfterRelease
<1>1. CASE UNCHANGED vars
  BY <1>1 DEF vars
<1>2. ASSUME NEW h \in Handlers, Arrive(h) PROVE TypeOK'
  BY <1>2 DEF Arrive
<1>3. ASSUME NEW h \in Handlers, CallbackRefuses(h) PROVE TypeOK'
  BY <1>3 DEF CallbackRefuses, HandlerReturns
<1>4. ASSUME NEW h \in Handlers, CallbackAccepts(h) PROVE TypeOK'
  BY <1>4 DEF CallbackAccepts
<1>5. ASSUME NEW h \in Handlers, CallbackPushes(h) PROVE TypeOK'
  BY <1>5 DEF CallbackPushes, HandlerReturns, Carrying
<1>6. CASE EncodeTest
  BY <1>6 DEF EncodeTest
<1>7. CASE EncodeStops
  BY <1>7 DEF EncodeStops
<1>8. CASE EncodeTakes
  BY <1>8, QueueCases DEF EncodeTakes
<1>9. CASE EncodeTimesOut
  BY <1>9 DEF EncodeTimesOut
<1>10. CASE EncodeNew
  BY <1>10 DEF EncodeNew, Carrying
<1>11. CASE EncodeAgain
  BY <1>11 DEF EncodeAgain, Carrying
<1>12. CASE EncodeExit
  BY <1>12 DEF EncodeExit
<1>13. CASE Fail
  <2>1. running' \in BOOLEAN
    BY <1>13, Zenon DEF Fail
  <2>. QED  BY <1>13, <2>1 DEF Fail
<1>14. CASE Stop
  <2>1. running' \in BOOLEAN
    BY <1>14, Zenon DEF Stop
  <2>. QED  BY <1>14, <2>1 DEF Stop, StopStep
<1>15. CASE StopCapturer
  <2>1. capturing' \in BOOLEAN
    BY <1>15, Zenon DEF StopCapturer
  <2>. QED  BY <1>15, <2>1 DEF StopCapturer, StopStep
<1>16. CASE StopStream
  BY <1>16 DEF StopStream, StopStep
<1>17. CASE JoinEncode
  BY <1>17 DEF JoinEncode, StopStep
<1>18. CASE DrainCaptureQueue
  BY <1>18 DEF DrainCaptureQueue, StopStep
<1>. QED
  BY <1>1, <1>2, <1>3, <1>4, <1>5, <1>6, <1>7, <1>8, <1>9, <1>10, <1>11, <1>12,
     <1>13, <1>14, <1>15, <1>16, <1>17, <1>18
  DEF Next, Callback, EncodeLoop, StopCapture

(* Every step hands its frames over or releases them.                      *)
LEMMA NextHolders == IInv /\ [Next]_vars => Carrying' /\ NoneShared' /\ AllHeld'
<1>. SUFFICES ASSUME IInv, [Next]_vars
              PROVE  Carrying' /\ NoneShared' /\ AllHeld'
  OBVIOUS
<1>. TypeOK'
  BY NextTypeOK
<1>. USE CaptureAssumption
     DEF IInv, TypeOK, Carrying, NoneShared, AllHeld, handlerVars, encodeVars,
         bufferVars, stopVars, captureVars, AfterRelease
<1>1. CASE UNCHANGED vars
  BY <1>1 DEF vars, Queued
<1>2. ASSUME NEW h \in Handlers, Arrive(h)
      PROVE  Carrying' /\ NoneShared' /\ AllHeld'
  BY <1>2 DEF Arrive, Queued
<1>3. ASSUME NEW h \in Handlers, CallbackRefuses(h)
      PROVE  Carrying' /\ NoneShared' /\ AllHeld'
  BY <1>3 DEF CallbackRefuses, HandlerReturns, Queued
<1>4. ASSUME NEW h \in Handlers, CallbackAccepts(h)
      PROVE  Carrying' /\ NoneShared' /\ AllHeld'
  BY <1>4 DEF CallbackAccepts, Queued
<1>5. ASSUME NEW h \in Handlers, CallbackPushes(h)
      PROVE  Carrying' /\ NoneShared' /\ AllHeld'
  <2>. USE <1>5 DEF CallbackPushes, HandlerReturns
  <2>1. Queued' = {handlerSlot[h]} /\ handlerSlot[h] \in Slots
    BY QueueRange DEF Queued
  <2>2. inUse' = inUse \ Queued
    BY DEF Queued
  <2>3. Carrying'
    OBVIOUS
  <2>4. NoneShared'
    BY <2>1
  <2>5. AllHeld'
    BY <2>1, <2>2
  <2>. QED  BY <2>3, <2>4, <2>5
<1>6. CASE EncodeTest
  BY <1>6 DEF EncodeTest, Queued
<1>7. CASE EncodeStops
  BY <1>7 DEF EncodeStops, Queued
<1>8. CASE EncodeTakes
  <2>1. PICK s \in Slots : capture_queue = <<s>> /\ Queued = {s} /\ frame' = s
    BY <1>8, QueueCases DEF EncodeTakes
  <2>2. Queued' = {}
    BY <1>8, QueueRange DEF EncodeTakes, Queued
  <2>. USE <1>8, <2>1, <2>2 DEF EncodeTakes
  <2>3. Carrying'
    OBVIOUS
  <2>4. NoneShared'
    OBVIOUS
  <2>5. AllHeld'
    OBVIOUS
  <2>. QED  BY <2>3, <2>4, <2>5
<1>9. CASE EncodeTimesOut
  BY <1>9 DEF EncodeTimesOut, Queued
<1>10. CASE EncodeNew
  <2>. USE <1>10 DEF EncodeNew
  <2>1. Queued' = Queued /\ Queued \subseteq Slots /\ frame \in Slots
    BY QueueCases DEF Queued
  <2>2. Carrying'
    OBVIOUS
  <2>3. NoneShared'
    BY <2>1
  <2>4. AllHeld'
    BY <2>1
  <2>. QED  BY <2>2, <2>3, <2>4
<1>11. CASE EncodeAgain
  BY <1>11 DEF EncodeAgain, Queued
<1>12. CASE EncodeExit
  BY <1>12 DEF EncodeExit, Queued
<1>13. CASE Fail
  BY <1>13 DEF Fail, Queued
<1>14. CASE Stop
  BY <1>14 DEF Stop, StopStep, Queued
<1>15. CASE StopCapturer
  BY <1>15 DEF StopCapturer, StopStep, Queued
<1>16. CASE StopStream
  BY <1>16 DEF StopStream, StopStep, Queued
<1>17. CASE JoinEncode
  BY <1>17 DEF JoinEncode, StopStep, Queued
<1>18. CASE DrainCaptureQueue
  <2>. USE <1>18 DEF DrainCaptureQueue, StopStep
  <2>1. Queued' = {} /\ inUse' = inUse \ Queued
    BY QueueRange DEF Queued
  <2>2. Carrying'
    OBVIOUS
  <2>3. NoneShared' /\ AllHeld'
    BY <2>1
  <2>. QED  BY <2>2, <2>3
<1>. QED
  BY <1>1, <1>2, <1>3, <1>4, <1>5, <1>6, <1>7, <1>8, <1>9, <1>10, <1>11, <1>12,
     <1>13, <1>14, <1>15, <1>16, <1>17, <1>18
  DEF Next, Callback, EncodeLoop, StopCapture

(* The inductive invariant holds in every reachable state.                 *)
THEOREM IInvAlways == Spec => []IInv
<1>1. IInv /\ [Next]_vars => IInv'
  BY NextTypeOK, NextHolders DEF IInv
<1>. QED  BY InitIInv, <1>1, PTL DEF Spec

(* The state of the capture and encode stages always has its types.        *)
THEOREM TypeCorrect == Spec => []TypeOK
<1>1. IInv => TypeOK
  BY DEF IInv
<1>. QED  BY <1>1, IInvAlways, PTL
-----------------------------------------------------------------------------
(* What the four kinds of holders hold, without records.                   *)
LEMMA HoldsCases ==
  ASSUME NEW x \in Holder
  PROVE  \/ x.kind = "handler" /\ x.of \in Handlers
              /\ Holds(x) = {handlerSlot[x.of]} \ {NoSlot}
         \/ x.kind = "queue" /\ x.of = NoSlot /\ Holds(x) = Queued
         \/ x.kind = "encode" /\ x.of = NoSlot /\ Holds(x) = {frame} \ {NoSlot}
         \/ x.kind = "last" /\ x.of = NoSlot /\ Holds(x) = {last_frame} \ {NoSlot}
BY DEF Holder, Holds, Queued

(* Every place that can hold a frame is a holder.                          *)
LEMMA HoldersExist ==
  /\ \A h \in Handlers : \E x \in Holder : Holds(x) = {handlerSlot[h]} \ {NoSlot}
  /\ \E x \in Holder : Holds(x) = Queued
  /\ \E x \in Holder : Holds(x) = {frame} \ {NoSlot}
  /\ \E x \in Holder : Holds(x) = {last_frame} \ {NoSlot}
<1>1. ASSUME NEW h \in Handlers
      PROVE  \E x \in Holder : Holds(x) = {handlerSlot[h]} \ {NoSlot}
  <2>1. [kind |-> "handler", of |-> h] \in Holder
    BY DEF Holder
  <2>2. Holds([kind |-> "handler", of |-> h]) = {handlerSlot[h]} \ {NoSlot}
    BY DEF Holds
  <2>. QED  BY <2>1, <2>2
<1>2. \E x \in Holder : Holds(x) = Queued
  <2>1. [kind |-> "queue", of |-> NoSlot] \in Holder
    BY DEF Holder
  <2>2. Holds([kind |-> "queue", of |-> NoSlot]) = Queued
    BY DEF Holds, Queued
  <2>. QED  BY <2>1, <2>2
<1>3. \E x \in Holder : Holds(x) = {frame} \ {NoSlot}
  <2>1. [kind |-> "encode", of |-> NoSlot] \in Holder
    BY DEF Holder
  <2>2. Holds([kind |-> "encode", of |-> NoSlot]) = {frame} \ {NoSlot}
    BY DEF Holds
  <2>. QED  BY <2>1, <2>2
<1>4. \E x \in Holder : Holds(x) = {last_frame} \ {NoSlot}
  <2>1. [kind |-> "last", of |-> NoSlot] \in Holder
    BY DEF Holder
  <2>2. Holds([kind |-> "last", of |-> NoSlot]) = {last_frame} \ {NoSlot}
    BY DEF Holds
  <2>. QED  BY <2>1, <2>2
<1>. QED  BY <1>1, <1>2, <1>3, <1>4

(* A buffer is in use exactly when somebody holds it, and then only one    *)
(* holder does (pipeline.cpp:256-285 and 454-530).                         *)
LEMMA IInvOneHolder == IInv => OneHolder
<1>. SUFFICES ASSUME IInv PROVE OneHolder
  OBVIOUS
<1>. USE DEF IInv
<1>1. Queued \subseteq Slots
  BY QueueCases
<1>2. ASSUME NEW x \in Holder, NEW s \in Holds(x) PROVE s \in inUse
  BY <1>1, <1>2, HoldsCases DEF AllHeld, TypeOK
<1>3. ASSUME NEW s \in inUse PROVE \E x \in Holder : s \in Holds(x)
  <2>1. s \in Slots /\ s # NoSlot
    BY CaptureAssumption DEF TypeOK
  <2>. QED  BY <2>1, HoldersExist DEF AllHeld
<1>4. ASSUME NEW x \in Holder, NEW y \in Holder, x # y
      PROVE  Holds(x) \cap Holds(y) = {}
  <2>1. x.kind # y.kind \/ x.of # y.of
    BY <1>4 DEF Holder
  <2>. QED  BY <2>1, HoldsCases DEF NoneShared
<1>. QED  BY <1>2, <1>3, <1>4 DEF OneHolder

(* Every captured frame has exactly one holder until it is released.       *)
THEOREM OneHolderAlways == Spec => []OneHolder
<1>. QED  BY IInvOneHolder, IInvAlways, PTL
-----------------------------------------------------------------------------
(* An element more makes a set larger by one at most.                      *)
LEMMA OneMore ==
  ASSUME NEW S, IsFiniteSet(S), NEW x, NEW n \in Int, Cardinality(S) <= n
  PROVE  IsFiniteSet(S \cup {x}) /\ Cardinality(S \cup {x}) <= n + 1
<1>1. Cardinality(S) \in Nat
  BY FS_CardinalityType
<1>2. /\ IsFiniteSet(S \cup {x})
      /\ Cardinality(S \cup {x}) = Cardinality(S)
           \/ Cardinality(S \cup {x}) = Cardinality(S) + 1
  BY FS_AddElement
<1>. QED  BY <1>1, <1>2

(* The buffers in use are those of the handlers, and at most three more.   *)
LEMMA InUseBound ==
  ASSUME IInv, NEW h \in Handlers, handlerPc[h] = "idle"
  PROVE  /\ IsFiniteSet(inUse)
         /\ Cardinality(inUse) <= Cardinality(Handlers) + 2
<1> DEFINE others == Handlers \ {h}
           carried == {handlerSlot[g] : g \in others}
<1>1. /\ IsFiniteSet(others)
      /\ Cardinality(others) = Cardinality(Handlers) - 1
      /\ Cardinality(Handlers) \in Nat
  BY CaptureAssumption, FS_RemoveElement, FS_CardinalityType
<1>2. IsFiniteSet(carried) /\ Cardinality(carried) <= Cardinality(Handlers) - 1
  <2> DEFINE f == [g \in others |-> handlerSlot[g]]
  <2>1. f \in Surjection(others, carried)
    BY DEF Surjection
  <2>2. IsFiniteSet(carried) /\ Cardinality(carried) <= Cardinality(others)
    BY <1>1, <2>1, FS_Surjection
  <2>. QED  BY <1>1, <2>2
<1>3. PICK q : Queued \subseteq {q}
  BY QueueCases DEF IInv
<1> DEFINE all == ((carried \cup {q}) \cup {frame}) \cup {last_frame}
<1>4. inUse \subseteq all
  <2>1. handlerSlot[h] = NoSlot
    BY DEF IInv, Carrying
  <2>2. ASSUME NEW s \in inUse PROVE s \in all
    <3>1. s \in Slots /\ s # NoSlot
      BY CaptureAssumption DEF IInv, TypeOK
    <3>2. \/ \E g \in Handlers : handlerSlot[g] = s
          \/ s \in Queued \/ s = frame \/ s = last_frame
      BY <3>1 DEF IInv, AllHeld
    <3>3. CASE \E g \in Handlers : handlerSlot[g] = s
      BY <2>1, <3>1, <3>3
    <3>. QED  BY <1>3, <3>2, <3>3
  <2>. QED  BY <2>2
<1> HIDE DEF carried
<1> DEFINE n == Cardinality(Handlers) - 1
<1>5. n \in Int /\ n + 1 \in Int /\ n + 2 \in Int
  BY <1>1
<1>6. IsFiniteSet(carried \cup {q}) /\ Cardinality(carried \cup {q}) <= n + 1
  BY <1>2, <1>5, OneMore
<1>7. /\ IsFiniteSet((carried \cup {q}) \cup {frame})
      /\ Cardinality((carried \cup {q}) \cup {frame}) <= (n + 1) + 1
  BY <1>5, <1>6, OneMore
<1>8. IsFiniteSet(all) /\ Cardinality(all) <= ((n + 1) + 1) + 1
  <2>1. (n + 1) + 1 \in Int
    BY <1>5
  <2>. QED  BY <1>7, <2>1, OneMore
<1>9. /\ IsFiniteSet(inUse)
      /\ Cardinality(inUse) <= Cardinality(all)
      /\ Cardinality(inUse) \in Nat /\ Cardinality(all) \in Nat
  BY <1>4, <1>8, FS_Subset, FS_CardinalityType
<1>. QED  BY <1>1, <1>8, <1>9

(* A pool with three buffers more than handlers is never exhausted: the    *)
(* four of wgc_capturer.h:94 are just enough for its one handler.          *)
THEOREM PoolAlwaysSuffices ==
  ASSUME Cardinality(Slots) >= Cardinality(Handlers) + 3
  PROVE  Spec => []PoolSuffices
<1>1. IInv => PoolSuffices
  <2>. SUFFICES ASSUME IInv, NEW h \in Handlers, handlerPc[h] = "idle"
                PROVE  inUse # Slots
    BY DEF PoolSuffices
  <2>1. /\ IsFiniteSet(inUse)
        /\ Cardinality(inUse) <= Cardinality(Handlers) + 2
    BY InUseBound
  <2>2. /\ Cardinality(inUse) \in Nat
        /\ Cardinality(Handlers) \in Nat
        /\ Cardinality(Slots) \in Nat
    BY <2>1, FS_CardinalityType, CaptureAssumption
  <2>. QED  BY <2>1, <2>2
<1>. QED  BY <1>1, IInvAlways, PTL
-----------------------------------------------------------------------------
(* What stop() has achieved when it is at each of its steps.               *)
StopInv ==
  /\ captureStop # "idle" => ~running
  /\ captureStop \in {"stream", "join", "drain", "done"} => ~capturing
  /\ captureStop \in {"join", "drain", "done"} /\ outlived = {}
       => \A h \in Handlers : handlerPc[h] = "idle"
  /\ captureStop \in {"drain", "done"} => encPc = "done"
  /\ encPc = "done" => last_frame = NoSlot
  /\ captureStop = "done" /\ outlived = {} => capture_queue = <<>>

(* What stop() has achieved is not undone.                                 *)
LEMMA NextStopInv == IInv /\ StopInv /\ [Next]_vars => StopInv'
<1>. SUFFICES ASSUME IInv, StopInv, [Next]_vars PROVE StopInv'
  OBVIOUS
<1>. USE DEF IInv, TypeOK, StopInv, handlerVars, encodeVars, bufferVars,
             stopVars, captureVars
<1>1. CASE UNCHANGED vars
  BY <1>1 DEF vars
<1>2. ASSUME NEW h \in Handlers, Arrive(h) PROVE StopInv'
  BY <1>2 DEF Arrive
<1>3. ASSUME NEW h \in Handlers, Callback(h) PROVE StopInv'
  BY <1>3 DEF Callback, CallbackRefuses, CallbackAccepts, CallbackPushes,
              HandlerReturns
<1>4. CASE EncodeLoop
  BY <1>4 DEF EncodeLoop, EncodeTest, EncodeStops, EncodeTakes,
              EncodeTimesOut, EncodeNew, EncodeAgain, EncodeExit
<1>5. CASE Fail
  BY <1>5 DEF Fail
<1>6. CASE Stop
  BY <1>6 DEF Stop, StopStep
<1>7. CASE StopCapturer
  BY <1>7 DEF StopCapturer, StopStep
<1>8. CASE StopStream
  BY <1>8 DEF StopStream, StopStep
<1>9. CASE JoinEncode
  BY <1>9 DEF JoinEncode, StopStep
<1>10. CASE DrainCaptureQueue
  BY <1>10 DEF DrainCaptureQueue, StopStep
<1>. QED
  BY <1>1, <1>2, <1>3, <1>4, <1>5, <1>6, <1>7, <1>8, <1>9, <1>10
  DEF Next, StopCapture

(* The pipeline starts before stop().                                      *)
LEMMA InitStopInv == Init => StopInv
BY DEF Init, StopInv

(* Nobody is left to hold a frame when stop() has drained the queue.       *)
LEMMA StoppedReleased == IInv /\ StopInv => AllReleased
<1>. SUFFICES ASSUME IInv, StopInv, captureStop = "done", outlived = {}
              PROVE  inUse = {} /\ \A h \in Handlers : handlerPc[h] = "idle"
  BY DEF AllReleased
<1>1. \A h \in Handlers : handlerPc[h] = "idle" /\ handlerSlot[h] = NoSlot
  BY DEF StopInv, IInv, Carrying
<1>2. Queued = {} /\ frame = NoSlot /\ last_frame = NoSlot
  BY QueueRange DEF StopInv, IInv, Carrying, Queued
<1>3. ASSUME NEW s \in inUse PROVE FALSE
  <2>1. s \in Slots /\ s # NoSlot
    BY CaptureAssumption DEF IInv, TypeOK
  <2>. QED  BY <1>1, <1>2, <2>1 DEF IInv, AllHeld
<1>. QED  BY <1>1, <1>3

(* When stop() has returned, and no handler outlived the capturer's stop,  *)
(* every captured frame was given back (pipeline.cpp:330).                 *)
THEOREM AllReleasedAlways == Spec => []AllReleased
<1>. QED
  BY InitStopInv, NextStopInv, StoppedReleased, IInvAlways, PTL DEF Spec
-----------------------------------------------------------------------------
(* Frames are numbered in the order of their capture, and whoever is       *)
(* nearer to the encoder has the older frame.                              *)
InOrder ==
  /\ encodedUpTo <= frames_captured
  /\ \A s \in inUse : encodedUpTo <= stamp[s] /\ stamp[s] <= frames_captured
  /\ last_frame # NoSlot => stamp[last_frame] = encodedUpTo
  /\ frame # NoSlot => \A s \in Queued : stamp[frame] <= stamp[s]
  /\ \A h \in Handlers : handlerSlot[h] # NoSlot =>
       /\ frame # NoSlot => stamp[frame] <= stamp[handlerSlot[h]]
       /\ \A s \in Queued : stamp[s] <= stamp[handlerSlot[h]]

(* With one handler at a time the frames stay in the order of capture.     *)
LEMMA NextInOrder ==
  ASSUME \A g, h \in Handlers : g = h
  PROVE  IInv /\ IInv' /\ InOrder /\ [Next]_vars => InOrder'
<1>. SUFFICES ASSUME \A g, h \in Handlers : g = h,
                     IInv, IInv', InOrder, [Next]_vars
              PROVE  InOrder'
  OBVIOUS
<1>. USE CaptureAssumption
     DEF IInv, TypeOK, Carrying, NoneShared, AllHeld, InOrder, handlerVars,
         encodeVars, bufferVars, stopVars, captureVars, AfterRelease
<1>1. Queued \subseteq inUse
  BY QueueCases
<1>2. CASE UNCHANGED vars
  BY <1>2 DEF vars, Queued
<1>3. ASSUME NEW h \in Handlers, Arrive(h) PROVE InOrder'
  <2>1. PICK s \in Slots \ inUse :
          /\ inUse' = inUse \cup {s}
          /\ stamp' = [stamp EXCEPT ![s] = frames_captured + 1]
          /\ handlerSlot' = [handlerSlot EXCEPT ![h] = s]
    BY <1>3 DEF Arrive
  <2>2. /\ stamp'[s] = frames_captured + 1
        /\ \A q \in inUse : stamp'[q] = stamp[q] /\ stamp[q] \in Nat
        /\ frames_captured \in Nat /\ encodedUpTo \in Nat
    BY <2>1
  <2>. QED  BY <1>1, <1>3, <2>1, <2>2 DEF Arrive, Queued
<1>4. ASSUME NEW h \in Handlers, CallbackRefuses(h) PROVE InOrder'
  BY <1>1, <1>4 DEF CallbackRefuses, HandlerReturns, Queued
<1>5. ASSUME NEW h \in Handlers, CallbackAccepts(h) PROVE InOrder'
  BY <1>1, <1>5 DEF CallbackAccepts, Queued
<1>6. ASSUME NEW h \in Handlers, CallbackPushes(h) PROVE InOrder'
  <2>. USE <1>6 DEF CallbackPushes, HandlerReturns
  <2>1. Queued' = {handlerSlot[h]} /\ handlerSlot[h] \in Slots
    BY QueueRange DEF Queued
  <2>2. \A g \in Handlers : handlerSlot'[g] = NoSlot
    OBVIOUS
  <2>. QED  BY <1>1, <2>1, <2>2
<1>7. CASE EncodeTakes
  <2>1. PICK s \in Slots : capture_queue = <<s>> /\ Queued = {s} /\ frame' = s
    BY <1>7, QueueCases DEF EncodeTakes
  <2>2. Queued' = {}
    BY <1>7, QueueRange DEF EncodeTakes, Queued
  <2>. QED  BY <1>1, <1>7, <2>1, <2>2 DEF EncodeTakes
<1>8. CASE EncodeNew
  <2>. USE <1>8 DEF EncodeNew
  <2>1. Queued' = Queued /\ frame \in Slots /\ frame \in inUse
    BY DEF Queued
  <2>2. /\ stamp[frame] \in Nat /\ \A q \in inUse : stamp[q] \in Nat
        /\ frames_captured \in Nat
    BY <2>1
  <2>3. \A s \in inUse' : stamp[frame] <= stamp[s]
    <3>. SUFFICES ASSUME NEW s \in inUse, s # last_frame
                  PROVE  stamp[frame] <= stamp[s]
      OBVIOUS
    <3>. QED  BY <2>1, <2>2
  <2>. QED  BY <1>1, <2>1, <2>2, <2>3
<1>9. CASE EncodeAgain
  BY <1>1, <1>9 DEF EncodeAgain, Queued
<1>10. CASE EncodeTest \/ EncodeStops \/ EncodeTimesOut \/ EncodeExit
  BY <1>1, <1>10
  DEF EncodeTest, EncodeStops, EncodeTimesOut, EncodeExit, Queued
<1>11. CASE Fail \/ Stop \/ StopCapturer \/ StopStream \/ JoinEncode
  BY <1>1, <1>11
  DEF Fail, Stop, StopCapturer, StopStream, JoinEncode, StopStep, Queued
<1>12. CASE DrainCaptureQueue
  <2>1. Queued' = {}
    BY <1>12, QueueRange DEF DrainCaptureQueue, Queued
  <2>. QED  BY <1>1, <1>12, <2>1 DEF DrainCaptureQueue, StopStep
<1>. QED
  BY <1>2, <1>3, <1>4, <1>5, <1>6, <1>7, <1>8, <1>9, <1>10, <1>11, <1>12
  DEF Next, Callback, EncodeLoop, StopCapture

(* Before the first frame everything is in order.                          *)
LEMMA InitInOrder == Init => InOrder
BY QueueRange DEF Init, InOrder, Queued

(* With one handler, as on Windows, the encoder is never given an older    *)
(* picture than before, idle re-sends included.                            *)
THEOREM NeverBackInTimeAlways ==
  ASSUME \A g, h \in Handlers : g = h
  PROVE  Spec => NeverBackInTime
<1>1. IInv /\ InOrder /\ [Next]_vars => [encodedUpTo' >= encodedUpTo]_vars
  <2>. SUFFICES ASSUME IInv, InOrder, Next PROVE encodedUpTo' >= encodedUpTo
    OBVIOUS
  <2>. USE DEF IInv, TypeOK, Carrying, AllHeld, InOrder, handlerVars,
               encodeVars, bufferVars, stopVars, captureVars
  <2>1. CASE EncodeNew
    BY <2>1, CaptureAssumption DEF EncodeNew
  <2>2. CASE EncodeAgain
    BY <2>2 DEF EncodeAgain
  <2>3. CASE ~EncodeNew /\ ~EncodeAgain
    <3>1. encodedUpTo' = encodedUpTo
      BY <2>3
      DEF Next, Arrive, Callback, CallbackRefuses, CallbackAccepts,
          CallbackPushes, EncodeLoop, EncodeTest, EncodeStops, EncodeTakes,
          EncodeTimesOut, EncodeExit, Fail, Stop, StopStep, StopCapture,
          StopCapturer, StopStream, JoinEncode, DrainCaptureQueue
    <3>. QED  BY <3>1
  <2>. QED  BY <2>1, <2>2, <2>3
<1>. QED
  BY <1>1, InitInOrder, NextInOrder, IInvAlways, PTL DEF Spec, NeverBackInTime
=============================================================================
