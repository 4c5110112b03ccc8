------------------------ MODULE AndroidSessionProofs ------------------------
(***************************************************************************)
(* Proofs about the native part of the Android client, for every number of *)
(* input buffers, sessions and frames and every size of the ring.          *)
(***************************************************************************)
EXTENDS AndroidSession, SequenceTheorems, FiniteSetTheorems, TLAPS

Input == {NoInput} \cup [decoder : Nat \ {0}, index : Indices]

Fed == [decoder : Nat, of : Nat, frame : Nat, pts : Nat]

Connecting == {"accepted", "handshake", "create"}

Created == {"publish", "respond"}

Passing == {"pop", "reserve", "feed", "ring"}

Streaming == {"loop"} \cup Passing

Ending == {"close", "unconfigure", "sleep"}

Cleaning == {"reset", "destroy"}

RecvSteps ==
  {"test", "accept", "done"} \cup Connecting \cup Created \cup Streaming
    \cup Ending \cup Cleaning

DecSteps == {"test", "pause", "mode", "ask", "take", "read", "reserve", "feed", "done"}

TypeOK ==
  /\ g_decoder \in Nat /\ mode \in {"sync", "async", "direct"}
  /\ codecIndices \subseteq Indices /\ input_queue \in Seq(Indices)
  /\ g_decoder_configured \in BOOLEAN /\ g_next_pts_us \in Nat
  /\ ring \in Seq(Nat)
  /\ recvPc \in RecvSteps /\ recvInput \in Input /\ recvPts \in Nat
  /\ decPc \in DecSteps /\ is_async \in BOOLEAN
  /\ held \in Input /\ decFrame \in Nat /\ decPts \in Nat
  /\ session \in Nat /\ arrived \in Nat /\ since \in Nat
  /\ fed \in Fed /\ responseFailed \in BOOLEAN

(* Whatever is about a decoder is about one created so far, and about an   *)
(* earlier one from the moment a connection is accepted.                   *)
Numbered ==
  /\ g_decoder <= session /\ held.decoder <= session
  /\ recvInput.decoder <= session /\ fed.decoder <= session
  /\ recvPc \in Connecting =>
       /\ g_decoder < session /\ held.decoder < session
       /\ recvInput.decoder < session /\ fed.decoder < session
  /\ g_decoder = 0 => codecIndices = {} /\ input_queue = <<>>

(* An input buffer is offered once, and not while the decoder has it.      *)
OfferedOnce ==
  /\ \A j, k \in 1 .. Len(input_queue) : input_queue[j] = input_queue[k] => j = k
  /\ \A k \in 1 .. Len(input_queue) : input_queue[k] \notin codecIndices

(* A buffer that a thread holds is neither with the decoder nor offered.   *)
OutOf(input) ==
  input.decoder = g_decoder /\ g_decoder # 0 =>
    /\ input.index \notin codecIndices
    /\ \A k \in 1 .. Len(input_queue) : input_queue[k] # input.index

Apart == held # NoInput => held # recvInput

OwnerInv == OfferedOnce /\ OutOf(held) /\ OutOf(recvInput) /\ Apart

(* What the receive thread is about to fill is the present decoder's.      *)
RecvFeedsPresent ==
  recvPc \in {"reserve", "feed"} => recvInput.decoder = g_decoder

HoldsWhenAsync ==
  decPc \in {"read", "reserve", "feed"} /\ is_async => held # NoInput

(* Where the decode thread is when it has noticed the end of a session.    *)
Noticed ==
  /\ ~g_decoder_configured
  /\ decPc \in {"test", "pause", "done"}
  /\ decPc = "test" => held = NoInput

(* Between the pause of the cleanup and the next decoder, the decode       *)
(* thread has noticed; before, it looks at the present decoder.            *)
AliveInv ==
  ~responseFailed =>
    /\ recvPc \in {"test", "accept", "done", "publish"} \cup Connecting \cup Cleaning
         => Noticed
    /\ decPc = "ask" => seen \in {0, g_decoder}
    /\ decPc \notin {"pause", "done"} => held = NoInput \/ held.decoder = g_decoder
    /\ fed.of = fed.decoder

(* nativeStop has seen both threads end.                                   *)
Joined == stopPc = "done" => recvPc = "done" /\ decPc = "done"

(* No frame is under way between two sessions.                             *)
InFlight == decPc \in {"reserve", "feed"}

Empty ==
  /\ recvPc \in {"sleep"} \cup Cleaning => ~g_decoder_configured
  /\ recvPc \in Cleaning => decPc \in {"test", "pause", "done"}
  /\ recvPc \notin Streaming \cup Ending \cup {"reset"} => ring = <<>> /\ ~InFlight

DirectIsDirect ==
  /\ recvPc \in Streaming \cup {"respond"} => g_decoder_direct_submit = (mode = "direct")
  /\ recvPc \in {"pop", "reserve", "feed"} => mode = "direct"

(* The frames under way, from the one fed last to the one received last.   *)
FramesInv ==
  /\ recvPc \in Created => fed.decoder < session /\ g_decoder = session
  /\ \A k \in 1 .. Len(ring) : since <= ring[k] /\ ring[k] <= arrived
  /\ \A j, k \in 1 .. Len(ring) : j < k => ring[j] < ring[k]
  /\ recvPc \in Passing => since <= arrived /\ \A k \in 1 .. Len(ring) : ring[k] < arrived
  /\ recvPc \in Streaming \cup {"respond"} => since <= arrived + 1
  /\ InFlight => 
       /\ since <= decFrame /\ decFrame <= arrived
       /\ \A k \in 1 .. Len(ring) : decFrame < ring[k]
       /\ recvPc \in Passing => decFrame < arrived
  /\ mode # "direct" /\ g_decoder # 0 /\ fed.decoder = g_decoder =>
       /\ fed.frame <= arrived
       /\ \A k \in 1 .. Len(ring) : fed.frame < ring[k]
       /\ recvPc = "ring" => fed.frame < arrived
       /\ InFlight => fed.frame < decFrame

(* The presentation times of a session.                                    *)
TimesInv ==
  /\ recvPc \in {"test", "accept", "done"} \cup Connecting /\ g_decoder_configured =>
       fed.decoder # g_decoder \/ g_decoder = 0
  /\ mode # "direct" /\ g_decoder_configured =>
       /\ decPc = "feed" => decPts < g_next_pts_us
       /\ fed.decoder = g_decoder /\ g_decoder # 0 =>
          /\ decPc # "pause"
          /\ fed.pts < g_next_pts_us
          /\ decPc = "feed" => fed.pts < decPts

-----------------------------------------------------------------------------
(* Types.                                                                  *)

(* Taking the buffer at the head of the queue for a decoder that exists.   *)
LEMMA TakenInput ==
  ASSUME TypeOK, g_decoder # 0, input_queue # <<>>
  PROVE  /\ Head(input_queue) \in Indices
         /\ Tail(input_queue) \in Seq(Indices)
         /\ [decoder |-> g_decoder, index |-> Head(input_queue)] \in Input
<1>1. Head(input_queue) \in Indices /\ Tail(input_queue) \in Seq(Indices)
  BY DEF TypeOK
<1>. QED  BY <1>1 DEF TypeOK, Input

(* An input is none, or a buffer of some decoder.                          *)
LEMMA InputIs ==
  /\ NoInput \in Input /\ NoInput.decoder = 0 /\ NoInput.index = 0
  /\ \A x \in Input : /\ x.decoder \in Nat
                      /\ x # NoInput => x.decoder # 0 /\ x.index \in Indices
                      /\ x = [decoder |-> x.decoder, index |-> x.index]
BY DEF Input, NoInput

(* Feeding a buffer leaves it with the decoder, or loses it.               *)
LEMMA FeedTypes ==
  ASSUME TypeOK, NEW input \in Input, NEW frame \in Nat, NEW pts \in Nat,
         FeedIndex(input, frame, pts) \/ FeedIndexFails(input)
  PROVE  /\ codecIndices' \subseteq Indices /\ fed' \in Fed
         /\ UNCHANGED <<g_decoder, mode, input_queue, responseFailed>>
<1>1. QueuedToCodec(input) => codecIndices' \subseteq Indices
  BY InputIs DEF QueuedToCodec, OutOfCodec, TypeOK
<1>2. g_decoder \in Nat /\ input.decoder \in Nat
  BY InputIs DEF TypeOK
<1>. QED  BY <1>1, <1>2 DEF FeedIndex, FeedIndexFails, TypeOK, Fed

(* Every step keeps the types.                                             *)
LEMMA NextTypeOK ==
  ASSUME TypeOK, Next
  PROVE  TypeOK'
<1>. USE DEF TypeOK, RecvSteps, DecSteps, Connecting, Created, Streaming,
             Passing, Ending, Cleaning, Recv, Dec, CloseClient, NoDecoder,
             flagVars, socketVars, codecVars, recvVars, decVars, countVars,
             ghostVars
<1>1. CASE RecvThread
  <2>1. CASE RecvTest
    BY <2>1 DEF RecvTest
  <2>2. CASE AcceptReturns
    BY <2>2 DEF AcceptReturns
  <2>3. CASE AcceptFails
    BY <2>3 DEF AcceptFails
  <2>4. CASE AcceptStores
    BY <2>4 DEF AcceptStores
  <2>5. CASE HandshakeFails
    BY <2>5 DEF HandshakeFails
  <2>6. CASE HandshakeRead
    BY <2>6 DEF HandshakeRead
  <2>7. CASE CreateFails
    BY <2>7 DEF CreateFails
  <2>8. CASE CreateDecoder
    BY <2>8 DEF CreateDecoder
  <2>9. CASE Publish
    BY <2>9 DEF Publish
  <2>10. CASE Responds
    BY <2>10 DEF Responds
  <2>11. CASE RespondFails
    BY <2>11 DEF RespondFails
  <2>12. CASE FrameArrives
    BY <2>12 DEF FrameArrives
  <2>13. CASE PopFinds
    BY <2>13, TakenInput DEF PopFinds
  <2>14. CASE PopFindsNone
    BY <2>14 DEF PopFindsNone
  <2>15. CASE ReserveDirect
    BY <2>15 DEF ReserveDirect
  <2>16. CASE FeedDirect
    BY <2>16, InputIs, FeedTypes DEF FeedDirect
  <2>17. CASE WriteToRing
    BY <2>17 DEF WriteToRing
  <2>18. CASE LoopEnds
    BY <2>18 DEF LoopEnds
  <2>19. CASE Close
    BY <2>19 DEF Close
  <2>20. CASE Unconfigure
    BY <2>20 DEF Unconfigure
  <2>21. CASE Sleep
    BY <2>21 DEF Sleep
  <2>22. CASE ResetRing
    BY <2>22 DEF ResetRing
  <2>23. CASE DestroyDecoder
    BY <2>23 DEF DestroyDecoder
  <2>. QED  BY <1>1, <2>1, <2>2, <2>3, <2>4, <2>5, <2>6, <2>7, <2>8, <2>9,
            <2>10, <2>11, <2>12, <2>13, <2>14, <2>15, <2>16, <2>17, <2>18,
            <2>19, <2>20, <2>21, <2>22, <2>23 DEF RecvThread
<1>2. CASE DecodeThread
  <2>1. CASE DecTest
    BY <2>1 DEF DecTest
  <2>2. CASE Unconfigured
    BY <2>2, InputIs DEF Unconfigured
  <2>3. CASE LoadDecoder
    BY <2>3 DEF LoadDecoder
  <2>4. CASE AskMode
    BY <2>4 DEF AskMode
  <2>5. CASE TakeInput
    BY <2>5, TakenInput DEF TakeInput
  <2>6. CASE TakeFindsNone
    BY <2>6 DEF TakeFindsNone
  <2>7. CASE ReadFindsNone
    BY <2>7 DEF ReadFindsNone
  <2>8. CASE ReadFrame
    BY <2>8 DEF ReadFrame
  <2>9. CASE Reserve
    BY <2>9 DEF Reserve
  <2>10. CASE FeedAsync
    BY <2>10, InputIs, FeedTypes DEF FeedAsync
  <2>11. CASE FeedSync
    BY <2>11, g_decoder \in Nat /\ decFrame \in Nat /\ decPts \in Nat
    DEF FeedSync, Fed
  <2>. QED  BY <1>2, <2>1, <2>2, <2>3, <2>4, <2>5, <2>6, <2>7, <2>8, <2>9,
            <2>10, <2>11 DEF DecodeThread
<1>3. CASE OnAsyncInput
  BY <1>3 DEF OnAsyncInput
<1>4. CASE Stop
  BY <1>4 DEF Stop
<1>5. CASE StopCloses
  BY <1>5 DEF StopCloses
<1>6. CASE StopJoins
  <2>1. codecIndices' = {} /\ input_queue' = <<>> /\ ring' = <<>> /\ g_decoder' = 0
        /\ mode' = "sync" /\ g_decoder_configured' = FALSE
    BY <1>6 DEF StopJoins
  <2>2. UNCHANGED <<g_next_pts_us, recvVars, decVars, countVars, ghostVars>>
    BY <1>6 DEF StopJoins
  <2>3. codecIndices' \subseteq Indices /\ input_queue' \in Seq(Indices) /\ ring' \in Seq(Nat)
        /\ g_decoder' \in Nat /\ mode' \in {"sync", "async", "direct"}
        /\ g_decoder_configured' \in BOOLEAN
    BY <2>1, <<>> \in Seq(Indices), <<>> \in Seq(Nat)
  <2>4. recvPc' \in RecvSteps /\ recvInput' \in Input /\ recvPts' \in Nat /\ g_next_pts_us' \in Nat
    BY <2>2
  <2>5. /\ decPc' \in DecSteps /\ is_async' \in BOOLEAN
        /\ held' \in Input /\ decFrame' \in Nat /\ decPts' \in Nat
    BY <2>2
  <2>. QED  BY <2>2, <2>3, <2>4, <2>5
<1>7. CASE NativeInit
  BY <1>7, InputIs DEF NativeInit
<1>. QED  BY <1>1, <1>2, <1>3, <1>4, <1>5, <1>6, <1>7 DEF Next

-----------------------------------------------------------------------------
(* The owners of the input buffers.                                        *)

(* What is fed is fed to the present decoder; a failure feeds nothing.     *)
LEMMA FeedNumbers ==
  ASSUME TypeOK, NEW input \in Input, NEW frame \in Nat, NEW pts \in Nat,
         FeedIndex(input, frame, pts) \/ FeedIndexFails(input)
  PROVE  /\ \/ fed' = fed
            \/ /\ fed' = [decoder |-> g_decoder, of |-> input.decoder,
                          frame |-> frame, pts |-> pts]
               /\ g_decoder # 0
         /\ \/ codecIndices' = codecIndices
            \/ /\ codecIndices' = codecIndices \cup {input.index}
               /\ g_decoder # 0
         /\ UNCHANGED <<g_decoder, mode, input_queue, responseFailed>>
<1>1. CASE FeedIndex(input, frame, pts)
  BY <1>1 DEF FeedIndex, QueuedToCodec, OutOfCodec
<1>2. CASE FeedIndexFails(input)
  BY <1>2, Zenon DEF FeedIndexFails, QueuedToCodec, OutOfCodec
<1>. QED  BY <1>1, <1>2

(* Every step keeps the numbers of decoders in order.                      *)
LEMMA NextNumbered ==
  ASSUME TypeOK, Numbered, Next
  PROVE  Numbered'
<1>. USE InputIs DEF Numbered, Connecting, Recv, Dec, CloseClient, NoDecoder,
             codecVars, recvVars, decVars, countVars, ghostVars
<1>0. /\ g_decoder \in Nat /\ session \in Nat /\ held.decoder \in Nat
      /\ recvInput.decoder \in Nat /\ fed.decoder \in Nat
  BY DEF TypeOK, Fed
<1>8. /\ held \in Input /\ recvInput \in Input /\ arrived \in Nat
      /\ decFrame \in Nat /\ decPts \in Nat /\ recvPts \in Nat
  BY DEF TypeOK
<1>1. CASE RecvThread
  <2>1. CASE RecvTest
    BY <2>1, <1>0 DEF RecvTest
  <2>2. CASE AcceptReturns
    BY <2>2, <1>0 DEF AcceptReturns
  <2>3. CASE AcceptFails
    BY <2>3, <1>0 DEF AcceptFails
  <2>4. CASE AcceptStores
    BY <2>4, <1>0 DEF AcceptStores
  <2>5. CASE HandshakeFails
    BY <2>5, <1>0 DEF HandshakeFails
  <2>6. CASE HandshakeRead
    BY <2>6, <1>0 DEF HandshakeRead
  <2>7. CASE CreateFails
    BY <2>7, <1>0 DEF CreateFails
  <2>8. CASE CreateDecoder
    BY <2>8, <1>0 DEF CreateDecoder
  <2>9. CASE Publish
    BY <2>9, <1>0 DEF Publish
  <2>10. CASE Responds
    BY <2>10, <1>0 DEF Responds
  <2>11. CASE RespondFails
    BY <2>11, <1>0 DEF RespondFails
  <2>12. CASE FrameArrives
    BY <2>12, <1>0 DEF FrameArrives
  <2>13. CASE PopFinds
    BY <2>13, <1>0 DEF PopFinds
  <2>14. CASE PopFindsNone
    BY <2>14, <1>0 DEF PopFindsNone
  <2>15. CASE ReserveDirect
    BY <2>15, <1>0 DEF ReserveDirect
  <2>16. CASE FeedDirect
    BY <2>16, <1>0, <1>8, FeedNumbers DEF FeedDirect
  <2>17. CASE WriteToRing
    BY <2>17, <1>0 DEF WriteToRing
  <2>18. CASE LoopEnds
    BY <2>18, <1>0 DEF LoopEnds
  <2>19. CASE Close
    BY <2>19, <1>0 DEF Close
  <2>20. CASE Unconfigure
    BY <2>20, <1>0 DEF Unconfigure
  <2>21. CASE Sleep
    BY <2>21, <1>0 DEF Sleep
  <2>22. CASE ResetRing
    BY <2>22, <1>0 DEF ResetRing
  <2>23. CASE DestroyDecoder
    BY <2>23, <1>0 DEF DestroyDecoder
  <2>. QED  BY <1>1, <2>1, <2>2, <2>3, <2>4, <2>5, <2>6, <2>7, <2>8, <2>9,
            <2>10, <2>11, <2>12, <2>13, <2>14, <2>15, <2>16, <2>17, <2>18,
            <2>19, <2>20, <2>21, <2>22, <2>23 DEF RecvThread
<1>2. CASE DecodeThread
  <2>1. CASE DecTest
    BY <2>1, <1>0 DEF DecTest
  <2>2. CASE Unconfigured
    BY <2>2, <1>0 DEF Unconfigured
  <2>3. CASE LoadDecoder
    BY <2>3, <1>0 DEF LoadDecoder
  <2>4. CASE AskMode
    BY <2>4, <1>0 DEF AskMode
  <2>5. CASE TakeInput
    BY <2>5, <1>0 DEF TakeInput
  <2>6. CASE TakeFindsNone
    BY <2>6, <1>0 DEF TakeFindsNone
  <2>7. CASE ReadFindsNone
    BY <2>7, <1>0 DEF ReadFindsNone
  <2>8. CASE ReadFrame
    BY <2>8, <1>0 DEF ReadFrame
  <2>9. CASE Reserve
    BY <2>9, <1>0 DEF Reserve
  <2>10. CASE FeedAsync
    BY <2>10, <1>0, <1>8, FeedNumbers DEF FeedAsync
  <2>11. CASE FeedSync
    BY <2>11, <1>0 DEF FeedSync
  <2>. QED  BY <1>2, <2>1, <2>2, <2>3, <2>4, <2>5, <2>6, <2>7, <2>8, <2>9,
            <2>10, <2>11 DEF DecodeThread
<1>3. CASE OnAsyncInput
  BY <1>3, <1>0 DEF OnAsyncInput
<1>4. CASE Stop
  BY <1>4, <1>0 DEF Stop
<1>5. CASE StopCloses
  BY <1>5, <1>0 DEF StopCloses
<1>6. CASE StopJoins
  BY <1>6, <1>0 DEF StopJoins
<1>7. CASE NativeInit
  BY <1>7, <1>0 DEF NativeInit
<1>. QED  BY <1>1, <1>2, <1>3, <1>4, <1>5, <1>6, <1>7 DEF Next

(* The steps that leave the buffers where they are.                        *)
Elsewhere ==
  \/ RecvTest \/ AcceptReturns \/ AcceptFails \/ AcceptStores
  \/ HandshakeFails \/ HandshakeRead \/ Publish \/ Responds \/ RespondFails
  \/ FrameArrives \/ PopFindsNone \/ ReserveDirect \/ WriteToRing
  \/ LoopEnds \/ Close \/ Unconfigure \/ Sleep \/ ResetRing
  \/ DecTest \/ LoadDecoder \/ AskMode \/ TakeFindsNone \/ ReadFindsNone
  \/ ReadFrame \/ Reserve \/ FeedSync
  \/ Stop \/ StopCloses

(* Most steps touch neither the decoder nor a buffer of it.                *)
LEMMA ElsewhereLeaves ==
  ASSUME Elsewhere
  PROVE  UNCHANGED <<codecVars, held, recvInput>>
BY DEF Elsewhere, codecVars, recvVars, decVars,
       RecvTest, AcceptReturns, AcceptFails, AcceptStores, HandshakeFails,
       HandshakeRead, Publish, Responds, RespondFails, FrameArrives,
       PopFindsNone, ReserveDirect, WriteToRing, LoopEnds, Close, Unconfigure,
       Sleep, ResetRing, DecTest, LoadDecoder, AskMode, TakeFindsNone,
       ReadFindsNone, ReadFrame, Reserve, FeedSync, Stop, StopCloses

(* The steps, for a proof about the buffers: those that move none, and     *)
(* each of the others.                                                     *)
LEMMA Moves ==
  ASSUME Next
  PROVE  \/ Elsewhere
         \/ CreateFails \/ DestroyDecoder \/ StopJoins
         \/ CreateDecoder \/ PopFinds \/ FeedDirect
         \/ Unconfigured \/ TakeInput \/ FeedAsync
         \/ OnAsyncInput \/ NativeInit
BY DEF Next, RecvThread, DecodeThread, Elsewhere

(* Offering at the end of the queue, and taking from its head.             *)
LEMMA QueueOps ==
  ASSUME TypeOK
  PROVE  /\ Len(input_queue) \in Nat
         /\ \A k \in 1 .. Len(input_queue) : input_queue[k] \in Indices
         /\ \A i \in Indices :
              /\ Len(Append(input_queue, i)) = Len(input_queue) + 1
              /\ \A k \in 1 .. Len(input_queue) + 1 :
                   Append(input_queue, i)[k]
                     = IF k = Len(input_queue) + 1 THEN i ELSE input_queue[k]
         /\ input_queue # <<>> =>
              /\ 1 \in 1 .. Len(input_queue)
              /\ Head(input_queue) = input_queue[1]
              /\ Len(Tail(input_queue)) = Len(input_queue) - 1
              /\ \A k \in 1 .. Len(input_queue) - 1 :
                   /\ Tail(input_queue)[k] = input_queue[k + 1]
                   /\ k + 1 \in 1 .. Len(input_queue) /\ k + 1 # 1
BY DEF TypeOK

(* A thread takes the buffer that was offered first.                       *)
LEMMA TakenFirst ==
  ASSUME TypeOK, OwnerInv, g_decoder # 0, input_queue # <<>>,
         input_queue' = Tail(input_queue),
         UNCHANGED <<g_decoder, codecIndices>>,
         NEW taken, taken = [decoder |-> g_decoder, index |-> Head(input_queue)]
  PROVE  /\ OfferedOnce'
         /\ OutOf(taken)' /\ taken # NoInput
         /\ OutOf(held) => held # taken /\ (held' = held => OutOf(held)')
         /\ OutOf(recvInput) =>
              recvInput # taken /\ (recvInput' = recvInput => OutOf(recvInput)')
<1>. DEFINE n == Len(input_queue)
<1>1. /\ n \in Nat /\ 1 \in 1 .. n
      /\ Head(input_queue) = input_queue[1]
      /\ Len(input_queue') = n - 1
      /\ \A k \in 1 .. n - 1 : /\ input_queue'[k] = input_queue[k + 1]
                               /\ k + 1 \in 1 .. n /\ k + 1 # 1
  BY QueueOps
<1>. HIDE DEF n
<1>2. taken.decoder = g_decoder /\ taken.index = input_queue[1] /\ taken # NoInput
  BY <1>1 DEF NoInput
<1>3. /\ \A j, k \in 1 .. n : input_queue[j] = input_queue[k] => j = k
      /\ \A k \in 1 .. n : input_queue[k] \notin codecIndices
  BY DEF OwnerInv, OfferedOnce, n
<1>4. OfferedOnce'
  <2>1. \A j, k \in 1 .. n - 1 : input_queue'[j] = input_queue'[k] => j = k
    <3>. SUFFICES ASSUME NEW j \in 1 .. n - 1, NEW k \in 1 .. n - 1,
                         input_queue'[j] = input_queue'[k]
                  PROVE  j = k
      OBVIOUS
    <3>1. j + 1 = k + 1
      BY <1>1, <1>3
    <3>. QED  BY <1>1, <3>1
  <2>2. \A k \in 1 .. n - 1 : input_queue'[k] \notin codecIndices'
    BY <1>1, <1>3
  <2>. QED  BY <1>1, <2>1, <2>2 DEF OfferedOnce
<1>5. OutOf(taken)'
  <2>1. input_queue[1] \notin codecIndices'
    BY <1>1, <1>3
  <2>2. \A k \in 1 .. n - 1 : input_queue'[k] # input_queue[1]
    BY <1>1, <1>3
  <2>. QED  BY <1>1, <1>2, <2>1, <2>2 DEF OutOf
<1>6. ASSUME NEW x, OutOf(x)
      PROVE  x # taken /\ (x.decoder = g_decoder' /\ g_decoder' # 0 =>
                             /\ x.index \notin codecIndices'
                             /\ \A k \in 1 .. n - 1 : input_queue'[k] # x.index)
  BY <1>1, <1>2, <1>6 DEF OutOf, n
<1>7. OutOf(held) => held # taken /\ (held' = held => OutOf(held)')
  BY <1>1, <1>6 DEF OutOf
<1>8. OutOf(recvInput) =>
        recvInput # taken /\ (recvInput' = recvInput => OutOf(recvInput)')
  BY <1>1, <1>6 DEF OutOf
<1>. QED  BY <1>2, <1>4, <1>5, <1>7, <1>8

(* A buffer that is fed goes back to the decoder from the thread that held *)
(* it, and nobody else has it.                                             *)
LEMMA BackFromThread ==
  ASSUME TypeOK, OwnerInv, UNCHANGED <<g_decoder, input_queue>>,
         NEW input \in Input, OutOf(input),
         \/ codecIndices' = codecIndices
         \/ /\ codecIndices' = codecIndices \cup {input.index}
            /\ g_decoder # 0 /\ input.decoder = g_decoder
  PROVE  /\ OfferedOnce'
         /\ \A other \in Input : OutOf(other) /\ other # input =>
              (other.decoder = g_decoder' /\ g_decoder' # 0 =>
                 /\ other.index \notin codecIndices'
                 /\ \A k \in 1 .. Len(input_queue') : input_queue'[k] # other.index)
<1>1. OfferedOnce'
  BY DEF OwnerInv, OfferedOnce, OutOf
<1>2. ASSUME NEW other \in Input, OutOf(other), other # input,
             other.decoder = g_decoder, g_decoder # 0
      PROVE  /\ other.index \notin codecIndices'
             /\ \A k \in 1 .. Len(input_queue) : input_queue[k] # other.index
  <2>1. input.decoder = g_decoder => other.index # input.index
    BY <1>2, InputIs
  <2>. QED  BY <1>2, <2>1 DEF OutOf
<1>. QED  BY <1>1, <1>2

(* Without a decoder no buffer is offered, and the threads' are another's. *)
LEMMA NoDecoderOwnerInv ==
  ASSUME OwnerInv, NoDecoder,
         held' = held \/ held' = NoInput, recvInput' = recvInput
  PROVE  OwnerInv'
BY DEF OwnerInv, NoDecoder, OfferedOnce, OutOf, Apart

(* A response that could not be sent is remembered.                        *)
LEMMA FailureStays ==
  ASSUME TypeOK, Next
  PROVE  responseFailed => responseFailed'
<1>1. CASE Elsewhere
  BY <1>1 DEF Elsewhere, ghostVars,
     RecvTest, AcceptReturns, AcceptFails, AcceptStores, HandshakeFails,
     HandshakeRead, Publish, Responds, RespondFails, FrameArrives,
     PopFindsNone, ReserveDirect, WriteToRing, LoopEnds, Close, Unconfigure,
     Sleep, ResetRing, DecTest, LoadDecoder, AskMode, TakeFindsNone,
     ReadFindsNone, ReadFrame, Reserve, FeedSync, Stop, StopCloses
<1>2. CASE \/ CreateFails \/ DestroyDecoder \/ StopJoins \/ CreateDecoder
           \/ PopFinds \/ Unconfigured \/ TakeInput \/ OnAsyncInput \/ NativeInit
  BY <1>2 DEF ghostVars, CreateFails, DestroyDecoder, StopJoins,
     CreateDecoder, PopFinds, Unconfigured, TakeInput, OnAsyncInput, NativeInit
<1>3. CASE FeedDirect \/ FeedAsync
  BY <1>3 DEF FeedDirect, FeedAsync, FeedIndex, FeedIndexFails
<1>. QED  BY <1>1, <1>2, <1>3, Moves

(* Every step hands an input buffer over, or leaves it where it is, if     *)
(* what the threads feed is the present decoder's.                         *)
LEMMA NextOwnerInv ==
  ASSUME TypeOK, Numbered, RecvFeedsPresent, HoldsWhenAsync, AliveInv,
         ~responseFailed, OwnerInv, Next
  PROVE  OwnerInv'
<1>0. /\ held \in Input /\ recvInput \in Input /\ g_decoder \in Nat
      /\ arrived \in Nat /\ recvPts \in Nat /\ decFrame \in Nat /\ decPts \in Nat
  BY DEF TypeOK
<1>1. CASE Elsewhere
  <2>1. UNCHANGED <<g_decoder, codecIndices, input_queue, held, recvInput>>
    BY <1>1, ElsewhereLeaves DEF codecVars
  <2>. QED  BY <2>1 DEF OwnerInv, OfferedOnce, OutOf, Apart
<1>2. CASE CreateFails \/ DestroyDecoder \/ StopJoins
  <2>1. NoDecoder /\ UNCHANGED <<held, recvInput>>
    BY <1>2 DEF CreateFails, DestroyDecoder, StopJoins, recvVars, decVars
  <2>. QED  BY <2>1, NoDecoderOwnerInv
<1>3. CASE CreateDecoder
  <2>1. /\ g_decoder' = session /\ input_queue' = <<>>
        /\ UNCHANGED <<held, recvInput>> /\ recvPc = "create"
    BY <1>3 DEF CreateDecoder, Recv, decVars
  <2>2. held.decoder < session /\ recvInput.decoder < session /\ session \in Nat
    BY <2>1 DEF Numbered, Connecting, TypeOK
  <2>3. held.decoder # session /\ recvInput.decoder # session
    BY <1>0, <2>2, InputIs
  <2>4. Len(input_queue') = 0
    BY <2>1
  <2>. QED  BY <2>1, <2>3, <2>4 DEF OwnerInv, OfferedOnce, OutOf, Apart
<1>4. CASE PopFinds
  <2>1. /\ g_decoder # 0 /\ input_queue # <<>> /\ input_queue' = Tail(input_queue)
        /\ recvInput' = [decoder |-> g_decoder, index |-> Head(input_queue)]
        /\ UNCHANGED <<g_decoder, codecIndices, held>>
    BY <1>4 DEF PopFinds, decVars
  <2>. QED  BY <2>1, TakenFirst DEF OwnerInv, OutOf, Apart
<1>5. CASE TakeInput
  <2>1. CASE held # NoInput /\ UNCHANGED <<held, input_queue>>
    BY <1>5, <2>1 DEF TakeInput, recvVars, OwnerInv, OfferedOnce, OutOf, Apart
  <2>2. CASE /\ held = NoInput /\ g_decoder # 0 /\ input_queue # <<>>
             /\ held' = [decoder |-> g_decoder, index |-> Head(input_queue)]
             /\ input_queue' = Tail(input_queue)
    <3>1. UNCHANGED <<g_decoder, codecIndices, recvInput>>
      BY <1>5 DEF TakeInput, recvVars
    <3>. QED  BY <2>2, <3>1, TakenFirst DEF OwnerInv, OutOf, Apart
  <2>. QED  BY <1>5, <2>1, <2>2 DEF TakeInput
<1>6. CASE FeedDirect
  <2>1. /\ FeedIndex(recvInput, arrived, recvPts) \/ FeedIndexFails(recvInput)
        /\ recvInput' = NoInput /\ held' = held
    BY <1>6 DEF FeedDirect, decVars
  <2>2. /\ UNCHANGED <<g_decoder, input_queue>>
        /\ \/ codecIndices' = codecIndices
           \/ /\ codecIndices' = codecIndices \cup {recvInput.index}
              /\ g_decoder # 0 /\ recvInput.decoder = g_decoder
    <3>1. recvInput.decoder = g_decoder
      BY <1>6 DEF FeedDirect, Recv, RecvFeedsPresent
    <3>. QED  BY <1>0, <2>1, <3>1, FeedNumbers
  <2>3. OfferedOnce' /\ (held # recvInput => OutOf(held)')
    BY <1>0, <2>1, <2>2, BackFromThread DEF OwnerInv, OutOf
  <2>4. held = recvInput => held = NoInput
    BY DEF OwnerInv, Apart
  <2>. QED  BY <2>1, <2>2, <2>3, <2>4, InputIs DEF OwnerInv, OutOf, Apart
<1>7. CASE FeedAsync
  <2>1. /\ FeedIndex(held, decFrame, decPts) \/ FeedIndexFails(held)
        /\ held' = NoInput /\ recvInput' = recvInput
    BY <1>7 DEF FeedAsync, recvVars
  <2>2. /\ UNCHANGED <<g_decoder, input_queue>>
        /\ \/ codecIndices' = codecIndices
           \/ /\ codecIndices' = codecIndices \cup {held.index}
              /\ g_decoder # 0 /\ held.decoder = g_decoder
    <3>1. held.decoder = g_decoder
      BY <1>7 DEF FeedAsync, Dec, HoldsWhenAsync, AliveInv
    <3>. QED  BY <1>0, <2>1, <3>1, FeedNumbers
  <2>3. OfferedOnce' /\ (held # recvInput => OutOf(recvInput)')
    BY <1>0, <2>1, <2>2, BackFromThread DEF OwnerInv, OutOf
  <2>4. held = recvInput => held = NoInput
    BY DEF OwnerInv, Apart
  <2>. QED  BY <2>1, <2>2, <2>3, <2>4, InputIs DEF OwnerInv, OutOf, Apart
<1>8. CASE Unconfigured \/ NativeInit
  <2>1. /\ UNCHANGED <<g_decoder, codecIndices, input_queue, recvInput>>
        /\ held' = NoInput
    BY <1>8 DEF Unconfigured, NativeInit, codecVars, recvVars
  <2>. QED  BY <2>1, InputIs DEF OwnerInv, OfferedOnce, OutOf, Apart
<1>9. CASE OnAsyncInput
  <2>1. PICK i \in codecIndices : /\ input_queue' = Append(input_queue, i)
                                  /\ codecIndices' = codecIndices \ {i}
    BY <1>9 DEF OnAsyncInput
  <2>2. UNCHANGED <<g_decoder, held, recvInput>>
    BY <1>9 DEF OnAsyncInput, recvVars, decVars
  <2>3. /\ Len(input_queue) \in Nat /\ Len(input_queue') = Len(input_queue) + 1
        /\ \A k \in 1 .. Len(input_queue) + 1 :
             input_queue'[k] = IF k = Len(input_queue) + 1 THEN i ELSE input_queue[k]
    BY <2>1, QueueOps DEF TypeOK
  <2>4. OfferedOnce'
    <3>1. \A k \in 1 .. Len(input_queue) : input_queue[k] # i
      BY DEF OwnerInv, OfferedOnce
    <3>. QED  BY <2>1, <2>3, <3>1 DEF OwnerInv, OfferedOnce
  <2>5. OutOf(held)' /\ OutOf(recvInput)'
    BY <2>1, <2>2, <2>3 DEF OwnerInv, OutOf
  <2>. QED  BY <2>2, <2>4, <2>5 DEF OwnerInv, Apart
<1>. QED  BY <1>1, <1>2, <1>3, <1>4, <1>5, <1>6, <1>7, <1>8, <1>9, Moves

-----------------------------------------------------------------------------
(* Between two sessions.                                                   *)

(* Threads that ended stay so until nativeInit starts new ones.            *)
LEMMA NextJoined ==
  ASSUME Joined, Next
  PROVE  Joined'
<1>. USE DEF Joined, Recv, Dec, recvVars, decVars
<1>1. CASE RecvThread
  <2>1. CASE RecvTest
    BY <2>1 DEF RecvTest
  <2>2. CASE AcceptReturns
    BY <2>2 DEF AcceptReturns
  <2>3. CASE AcceptFails
    BY <2>3 DEF AcceptFails
  <2>4. CASE AcceptStores
    BY <2>4 DEF AcceptStores
  <2>5. CASE HandshakeFails
    BY <2>5 DEF HandshakeFails
  <2>6. CASE HandshakeRead
    BY <2>6 DEF HandshakeRead
  <2>7. CASE CreateFails
    BY <2>7 DEF CreateFails
  <2>8. CASE CreateDecoder
    BY <2>8 DEF CreateDecoder
  <2>9. CASE Publish
    BY <2>9 DEF Publish
  <2>10. CASE Responds
    BY <2>10 DEF Responds
  <2>11. CASE RespondFails
    BY <2>11 DEF RespondFails
  <2>12. CASE FrameArrives
    BY <2>12 DEF FrameArrives
  <2>13. CASE PopFinds
    BY <2>13 DEF PopFinds
  <2>14. CASE PopFindsNone
    BY <2>14 DEF PopFindsNone
  <2>15. CASE ReserveDirect
    BY <2>15 DEF ReserveDirect
  <2>16. CASE FeedDirect
    BY <2>16 DEF FeedDirect
  <2>17. CASE WriteToRing
    BY <2>17 DEF WriteToRing
  <2>18. CASE LoopEnds
    BY <2>18 DEF LoopEnds
  <2>19. CASE Close
    BY <2>19 DEF Close
  <2>20. CASE Unconfigure
    BY <2>20 DEF Unconfigure
  <2>21. CASE Sleep
    BY <2>21 DEF Sleep
  <2>22. CASE ResetRing
    BY <2>22 DEF ResetRing
  <2>23. CASE DestroyDecoder
    BY <2>23 DEF DestroyDecoder
  <2>. QED  BY <1>1, <2>1, <2>2, <2>3, <2>4, <2>5, <2>6, <2>7, <2>8, <2>9,
            <2>10, <2>11, <2>12, <2>13, <2>14, <2>15, <2>16, <2>17, <2>18,
            <2>19, <2>20, <2>21, <2>22, <2>23 DEF RecvThread
<1>2. CASE DecodeThread
  <2>1. CASE DecTest
    BY <2>1 DEF DecTest
  <2>2. CASE Unconfigured
    BY <2>2 DEF Unconfigured
  <2>3. CASE LoadDecoder
    BY <2>3 DEF LoadDecoder
  <2>4. CASE AskMode
    BY <2>4 DEF AskMode
  <2>5. CASE TakeInput
    BY <2>5 DEF TakeInput
  <2>6. CASE TakeFindsNone
    BY <2>6 DEF TakeFindsNone
  <2>7. CASE ReadFindsNone
    BY <2>7 DEF ReadFindsNone
  <2>8. CASE ReadFrame
    BY <2>8 DEF ReadFrame
  <2>9. CASE Reserve
    BY <2>9 DEF Reserve
  <2>10. CASE FeedAsync
    BY <2>10 DEF FeedAsync
  <2>11. CASE FeedSync
    BY <2>11 DEF FeedSync
  <2>. QED  BY <1>2, <2>1, <2>2, <2>3, <2>4, <2>5, <2>6, <2>7, <2>8, <2>9,
            <2>10, <2>11 DEF DecodeThread
<1>3. CASE OnAsyncInput
  BY <1>3 DEF OnAsyncInput
<1>4. CASE Stop
  BY <1>4 DEF Stop
<1>5. CASE StopCloses
  BY <1>5 DEF StopCloses
<1>6. CASE StopJoins
  BY <1>6 DEF StopJoins
<1>7. CASE NativeInit
  BY <1>7 DEF NativeInit
<1>. QED  BY <1>1, <1>2, <1>3, <1>4, <1>5, <1>6, <1>7 DEF Next

(* The decoder does not change under the receive thread's hands.           *)
LEMMA NextRecvFeedsPresent ==
  ASSUME RecvFeedsPresent, Joined, Next
  PROVE  RecvFeedsPresent'
<1>. USE DEF RecvFeedsPresent, Joined, Recv, Dec, NoDecoder, codecVars,
             recvVars, decVars
<1>1. CASE RecvThread
  <2>1. CASE RecvTest
    BY <2>1 DEF RecvTest
  <2>2. CASE AcceptReturns
    BY <2>2 DEF AcceptReturns
  <2>3. CASE AcceptFails
    BY <2>3 DEF AcceptFails
  <2>4. CASE AcceptStores
    BY <2>4 DEF AcceptStores
  <2>5. CASE HandshakeFails
    BY <2>5 DEF HandshakeFails
  <2>6. CASE HandshakeRead
    BY <2>6 DEF HandshakeRead
  <2>7. CASE CreateFails
    BY <2>7 DEF CreateFails
  <2>8. CASE CreateDecoder
    BY <2>8 DEF CreateDecoder
  <2>9. CASE Publish
    BY <2>9 DEF Publish
  <2>10. CASE Responds
    BY <2>10 DEF Responds
  <2>11. CASE RespondFails
    BY <2>11 DEF RespondFails
  <2>12. CASE FrameArrives
    BY <2>12 DEF FrameArrives
  <2>13. CASE PopFinds
    BY <2>13 DEF PopFinds
  <2>14. CASE PopFindsNone
    BY <2>14 DEF PopFindsNone
  <2>15. CASE ReserveDirect
    BY <2>15 DEF ReserveDirect
  <2>16. CASE FeedDirect
    BY <2>16 DEF FeedDirect
  <2>17. CASE WriteToRing
    BY <2>17 DEF WriteToRing
  <2>18. CASE LoopEnds
    BY <2>18 DEF LoopEnds
  <2>19. CASE Close
    BY <2>19 DEF Close
  <2>20. CASE Unconfigure
    BY <2>20 DEF Unconfigure
  <2>21. CASE Sleep
    BY <2>21 DEF Sleep
  <2>22. CASE ResetRing
    BY <2>22 DEF ResetRing
  <2>23. CASE DestroyDecoder
    BY <2>23 DEF DestroyDecoder
  <2>. QED  BY <1>1, <2>1, <2>2, <2>3, <2>4, <2>5, <2>6, <2>7, <2>8, <2>9,
            <2>10, <2>11, <2>12, <2>13, <2>14, <2>15, <2>16, <2>17, <2>18,
            <2>19, <2>20, <2>21, <2>22, <2>23 DEF RecvThread
<1>2. CASE DecodeThread
  <2>1. CASE DecTest
    BY <2>1 DEF DecTest
  <2>2. CASE Unconfigured
    BY <2>2 DEF Unconfigured
  <2>3. CASE LoadDecoder
    BY <2>3 DEF LoadDecoder
  <2>4. CASE AskMode
    BY <2>4 DEF AskMode
  <2>5. CASE TakeInput
    BY <2>5 DEF TakeInput
  <2>6. CASE TakeFindsNone
    BY <2>6 DEF TakeFindsNone
  <2>7. CASE ReadFindsNone
    BY <2>7 DEF ReadFindsNone
  <2>8. CASE ReadFrame
    BY <2>8 DEF ReadFrame
  <2>9. CASE Reserve
    BY <2>9 DEF Reserve
  <2>10. CASE FeedAsync
    BY <2>10 DEF FeedAsync, FeedIndex, FeedIndexFails
  <2>11. CASE FeedSync
    BY <2>11 DEF FeedSync
  <2>. QED  BY <1>2, <2>1, <2>2, <2>3, <2>4, <2>5, <2>6, <2>7, <2>8, <2>9,
            <2>10, <2>11 DEF DecodeThread
<1>3. CASE OnAsyncInput
  BY <1>3 DEF OnAsyncInput
<1>4. CASE Stop
  BY <1>4 DEF Stop
<1>5. CASE StopCloses
  BY <1>5 DEF StopCloses
<1>6. CASE StopJoins
  BY <1>6 DEF StopJoins
<1>7. CASE NativeInit
  BY <1>7 DEF NativeInit
<1>. QED  BY <1>1, <1>2, <1>3, <1>4, <1>5, <1>6, <1>7 DEF Next

(* An asynchronous round begins with an input buffer and keeps it.         *)
LEMMA NextHoldsWhenAsync ==
  ASSUME TypeOK, HoldsWhenAsync, Joined, Next
  PROVE  HoldsWhenAsync'
<1>. USE DEF HoldsWhenAsync, Joined, Recv, Dec, recvVars, decVars
<1>1. CASE RecvThread
  <2>1. CASE RecvTest
    BY <2>1 DEF RecvTest
  <2>2. CASE AcceptReturns
    BY <2>2 DEF AcceptReturns
  <2>3. CASE AcceptFails
    BY <2>3 DEF AcceptFails
  <2>4. CASE AcceptStores
    BY <2>4 DEF AcceptStores
  <2>5. CASE HandshakeFails
    BY <2>5 DEF HandshakeFails
  <2>6. CASE HandshakeRead
    BY <2>6 DEF HandshakeRead
  <2>7. CASE CreateFails
    BY <2>7 DEF CreateFails
  <2>8. CASE CreateDecoder
    BY <2>8 DEF CreateDecoder
  <2>9. CASE Publish
    BY <2>9 DEF Publish
  <2>10. CASE Responds
    BY <2>10 DEF Responds
  <2>11. CASE RespondFails
    BY <2>11 DEF RespondFails
  <2>12. CASE FrameArrives
    BY <2>12 DEF FrameArrives
  <2>13. CASE PopFinds
    BY <2>13 DEF PopFinds
  <2>14. CASE PopFindsNone
    BY <2>14 DEF PopFindsNone
  <2>15. CASE ReserveDirect
    BY <2>15 DEF ReserveDirect
  <2>16. CASE FeedDirect
    BY <2>16 DEF FeedDirect
  <2>17. CASE WriteToRing
    BY <2>17 DEF WriteToRing
  <2>18. CASE LoopEnds
    BY <2>18 DEF LoopEnds
  <2>19. CASE Close
    BY <2>19 DEF Close
  <2>20. CASE Unconfigure
    BY <2>20 DEF Unconfigure
  <2>21. CASE Sleep
    BY <2>21 DEF Sleep
  <2>22. CASE ResetRing
    BY <2>22 DEF ResetRing
  <2>23. CASE DestroyDecoder
    BY <2>23 DEF DestroyDecoder
  <2>. QED  BY <1>1, <2>1, <2>2, <2>3, <2>4, <2>5, <2>6, <2>7, <2>8, <2>9,
            <2>10, <2>11, <2>12, <2>13, <2>14, <2>15, <2>16, <2>17, <2>18,
            <2>19, <2>20, <2>21, <2>22, <2>23 DEF RecvThread
<1>2. CASE DecodeThread
  <2>1. CASE DecTest
    BY <2>1 DEF DecTest
  <2>2. CASE Unconfigured
    BY <2>2 DEF Unconfigured
  <2>3. CASE LoadDecoder
    BY <2>3 DEF LoadDecoder
  <2>4. CASE AskMode
    BY <2>4 DEF AskMode
  <2>5. CASE TakeInput
    BY <2>5, TakenInput, InputIs DEF TakeInput, NoInput
  <2>6. CASE TakeFindsNone
    BY <2>6 DEF TakeFindsNone
  <2>7. CASE ReadFindsNone
    BY <2>7 DEF ReadFindsNone
  <2>8. CASE ReadFrame
    BY <2>8 DEF ReadFrame
  <2>9. CASE Reserve
    BY <2>9 DEF Reserve
  <2>10. CASE FeedAsync
    BY <2>10 DEF FeedAsync
  <2>11. CASE FeedSync
    BY <2>11 DEF FeedSync
  <2>. QED  BY <1>2, <2>1, <2>2, <2>3, <2>4, <2>5, <2>6, <2>7, <2>8, <2>9,
            <2>10, <2>11 DEF DecodeThread
<1>3. CASE OnAsyncInput
  BY <1>3 DEF OnAsyncInput
<1>4. CASE Stop
  BY <1>4 DEF Stop
<1>5. CASE StopCloses
  BY <1>5 DEF StopCloses
<1>6. CASE StopJoins
  BY <1>6 DEF StopJoins
<1>7. CASE NativeInit
  BY <1>7 DEF NativeInit
<1>. QED  BY <1>1, <1>2, <1>3, <1>4, <1>5, <1>6, <1>7 DEF Next

(* After the pause the decode thread does not touch the ring, and nothing  *)
(* is written before the next session streams.                             *)
LEMMA NextEmpty ==
  ASSUME PauseSuffices, TypeOK, Joined, Empty, Next
  PROVE  Empty'
<1>. USE DEF Empty, Joined, InFlight, Recv, Dec, Streaming, Passing,
             Ending, Cleaning, RecvSteps, Connecting, Created, flagVars,
             recvVars, decVars
<1>0. recvPc \in RecvSteps /\ g_decoder_configured \in BOOLEAN
  BY DEF TypeOK
<1>1. CASE RecvThread
  <2>1. CASE RecvTest
    BY <2>1, <1>0 DEF RecvTest
  <2>2. CASE AcceptReturns
    BY <2>2, <1>0 DEF AcceptReturns
  <2>3. CASE AcceptFails
    BY <2>3, <1>0 DEF AcceptFails
  <2>4. CASE AcceptStores
    BY <2>4, <1>0 DEF AcceptStores
  <2>5. CASE HandshakeFails
    BY <2>5, <1>0 DEF HandshakeFails
  <2>6. CASE HandshakeRead
    BY <2>6, <1>0 DEF HandshakeRead
  <2>7. CASE CreateFails
    BY <2>7, <1>0 DEF CreateFails
  <2>8. CASE CreateDecoder
    BY <2>8, <1>0 DEF CreateDecoder
  <2>9. CASE Publish
    BY <2>9, <1>0 DEF Publish
  <2>10. CASE Responds
    BY <2>10, <1>0 DEF Responds
  <2>11. CASE RespondFails
    BY <2>11, <1>0 DEF RespondFails
  <2>12. CASE FrameArrives
    BY <2>12, <1>0 DEF FrameArrives
  <2>13. CASE PopFinds
    BY <2>13, <1>0 DEF PopFinds
  <2>14. CASE PopFindsNone
    BY <2>14, <1>0 DEF PopFindsNone
  <2>15. CASE ReserveDirect
    BY <2>15, <1>0 DEF ReserveDirect
  <2>16. CASE FeedDirect
    BY <2>16, <1>0 DEF FeedDirect
  <2>17. CASE WriteToRing
    BY <2>17, <1>0 DEF WriteToRing
  <2>18. CASE LoopEnds
    BY <2>18, <1>0 DEF LoopEnds
  <2>19. CASE Close
    BY <2>19, <1>0 DEF Close
  <2>20. CASE Unconfigure
    BY <2>20, <1>0 DEF Unconfigure
  <2>21. CASE Sleep
    BY <2>21, <1>0 DEF Sleep
  <2>22. CASE ResetRing
    BY <2>22, <1>0 DEF ResetRing
  <2>23. CASE DestroyDecoder
    BY <2>23, <1>0 DEF DestroyDecoder
  <2>. QED  BY <1>1, <2>1, <2>2, <2>3, <2>4, <2>5, <2>6, <2>7, <2>8, <2>9,
            <2>10, <2>11, <2>12, <2>13, <2>14, <2>15, <2>16, <2>17, <2>18,
            <2>19, <2>20, <2>21, <2>22, <2>23 DEF RecvThread
<1>2. CASE DecodeThread
  <2>1. CASE DecTest
    BY <2>1, <1>0 DEF DecTest
  <2>2. CASE Unconfigured
    BY <2>2, <1>0 DEF Unconfigured
  <2>3. CASE LoadDecoder
    BY <2>3, <1>0 DEF LoadDecoder
  <2>4. CASE AskMode
    BY <2>4, <1>0 DEF AskMode
  <2>5. CASE TakeInput
    BY <2>5, <1>0 DEF TakeInput
  <2>6. CASE TakeFindsNone
    BY <2>6, <1>0 DEF TakeFindsNone
  <2>7. CASE ReadFindsNone
    BY <2>7, <1>0 DEF ReadFindsNone
  <2>8. CASE ReadFrame
    BY <2>8, <1>0 DEF ReadFrame
  <2>9. CASE Reserve
    BY <2>9, <1>0 DEF Reserve
  <2>10. CASE FeedAsync
    BY <2>10, <1>0 DEF FeedAsync
  <2>11. CASE FeedSync
    BY <2>11, <1>0 DEF FeedSync
  <2>. QED  BY <1>2, <2>1, <2>2, <2>3, <2>4, <2>5, <2>6, <2>7, <2>8, <2>9,
            <2>10, <2>11 DEF DecodeThread
<1>3. CASE OnAsyncInput
  BY <1>3, <1>0 DEF OnAsyncInput
<1>4. CASE Stop
  BY <1>4, <1>0 DEF Stop
<1>5. CASE StopCloses
  BY <1>5, <1>0 DEF StopCloses
<1>6. CASE StopJoins
  BY <1>6, <1>0 DEF StopJoins
<1>7. CASE NativeInit
  BY <1>7, <1>0 DEF NativeInit
<1>. QED  BY <1>1, <1>2, <1>3, <1>4, <1>5, <1>6, <1>7 DEF Next


(* Frames go past the ring only in a direct session.                       *)
LEMMA NextDirectIsDirect ==
  ASSUME TypeOK, Empty, DirectIsDirect, Joined, Next
  PROVE  DirectIsDirect'
<1>. USE DEF DirectIsDirect, Joined, Streaming, Passing, Recv, Dec,
             NoDecoder, flagVars, socketVars, codecVars, recvVars, decVars,
             countVars, ghostVars
<1>1. CASE RecvThread
  <2>1. CASE RecvTest
    BY <2>1 DEF RecvTest
  <2>2. CASE AcceptReturns
    BY <2>2 DEF AcceptReturns
  <2>3. CASE AcceptFails
    BY <2>3 DEF AcceptFails
  <2>4. CASE AcceptStores
    BY <2>4 DEF AcceptStores
  <2>5. CASE HandshakeFails
    BY <2>5 DEF HandshakeFails
  <2>6. CASE HandshakeRead
    BY <2>6 DEF HandshakeRead
  <2>7. CASE CreateFails
    BY <2>7 DEF CreateFails
  <2>8. CASE CreateDecoder
    BY <2>8 DEF CreateDecoder
  <2>9. CASE Publish
    BY <2>9 DEF Publish
  <2>10. CASE Responds
    BY <2>10 DEF Responds
  <2>11. CASE RespondFails
    BY <2>11 DEF RespondFails
  <2>12. CASE FrameArrives
    BY <2>12 DEF FrameArrives
  <2>13. CASE PopFinds
    BY <2>13 DEF PopFinds
  <2>14. CASE PopFindsNone
    BY <2>14 DEF PopFindsNone
  <2>15. CASE ReserveDirect
    BY <2>15 DEF ReserveDirect
  <2>16. CASE FeedDirect
    BY <2>16 DEF FeedDirect, FeedIndex, FeedIndexFails
  <2>17. CASE WriteToRing
    BY <2>17 DEF WriteToRing
  <2>18. CASE LoopEnds
    BY <2>18 DEF LoopEnds
  <2>19. CASE Close
    BY <2>19 DEF Close
  <2>20. CASE Unconfigure
    BY <2>20 DEF Unconfigure
  <2>21. CASE Sleep
    BY <2>21 DEF Sleep
  <2>22. CASE ResetRing
    BY <2>22 DEF ResetRing
  <2>23. CASE DestroyDecoder
    BY <2>23 DEF DestroyDecoder
  <2>. QED  BY <1>1, <2>1, <2>2, <2>3, <2>4, <2>5, <2>6, <2>7, <2>8, <2>9,
            <2>10, <2>11, <2>12, <2>13, <2>14, <2>15, <2>16, <2>17, <2>18,
            <2>19, <2>20, <2>21, <2>22, <2>23 DEF RecvThread
<1>2. CASE DecodeThread
  <2>1. CASE DecTest
    BY <2>1 DEF DecTest
  <2>2. CASE Unconfigured
    BY <2>2 DEF Unconfigured
  <2>3. CASE LoadDecoder
    BY <2>3 DEF LoadDecoder
  <2>4. CASE AskMode
    BY <2>4 DEF AskMode
  <2>5. CASE TakeInput
    BY <2>5 DEF TakeInput
  <2>6. CASE TakeFindsNone
    BY <2>6 DEF TakeFindsNone
  <2>7. CASE ReadFindsNone
    BY <2>7 DEF ReadFindsNone
  <2>8. CASE ReadFrame
    BY <2>8 DEF ReadFrame
  <2>9. CASE Reserve
    BY <2>9 DEF Reserve
  <2>10. CASE FeedAsync
    BY <2>10 DEF FeedAsync, FeedIndex, FeedIndexFails
  <2>11. CASE FeedSync
    BY <2>11 DEF FeedSync
  <2>. QED  BY <1>2, <2>1, <2>2, <2>3, <2>4, <2>5, <2>6, <2>7, <2>8, <2>9,
            <2>10, <2>11 DEF DecodeThread
<1>3. CASE OnAsyncInput
  BY <1>3 DEF OnAsyncInput
<1>4. CASE Stop
  BY <1>4 DEF Stop
<1>5. CASE StopCloses
  BY <1>5 DEF StopCloses
<1>6. CASE StopJoins
  BY <1>6 DEF StopJoins
<1>7. CASE NativeInit
  BY <1>7 DEF NativeInit
<1>. QED  BY <1>1, <1>2, <1>3, <1>4, <1>5, <1>6, <1>7 DEF Next

(* As long as every response is sent, the decoder changes only while the   *)
(* decode thread has noticed that there is none.                           *)
LEMMA NextAliveInv ==
  ASSUME PauseSuffices, TypeOK, Joined, Empty, RecvFeedsPresent,
         HoldsWhenAsync, AliveInv, Next
  PROVE  AliveInv'
<1>. USE DEF AliveInv, Noticed, Joined, Recv, Dec, NoDecoder, RecvSteps,
             Connecting, Created, Streaming, Passing, Ending, Cleaning,
             flagVars, socketVars, codecVars, recvVars, decVars, countVars,
             ghostVars
<1>0. /\ recvPc \in RecvSteps /\ decPc \in DecSteps /\ held \in Input
      /\ recvInput \in Input /\ NoInput \in Input
      /\ g_decoder_configured \in BOOLEAN /\ responseFailed \in BOOLEAN
      /\ arrived \in Nat /\ recvPts \in Nat /\ decFrame \in Nat /\ decPts \in Nat
  BY InputIs DEF TypeOK
<1>1. CASE RecvThread
  <2>1. CASE RecvTest
    BY <2>1, <1>0 DEF RecvTest
  <2>2. CASE AcceptReturns
    BY <2>2, <1>0 DEF AcceptReturns
  <2>3. CASE AcceptFails
    BY <2>3, <1>0 DEF AcceptFails
  <2>4. CASE AcceptStores
    BY <2>4, <1>0 DEF AcceptStores
  <2>5. CASE HandshakeFails
    BY <2>5, <1>0 DEF HandshakeFails
  <2>6. CASE HandshakeRead
    BY <2>6, <1>0 DEF HandshakeRead
  <2>7. CASE CreateFails
    BY <2>7, <1>0 DEF CreateFails
  <2>8. CASE CreateDecoder
    BY <2>8, <1>0 DEF CreateDecoder
  <2>9. CASE Publish
    BY <2>9, <1>0 DEF Publish
  <2>10. CASE Responds
    BY <2>10, <1>0 DEF Responds
  <2>11. CASE RespondFails
    BY <2>11, <1>0 DEF RespondFails
  <2>12. CASE FrameArrives
    BY <2>12, <1>0 DEF FrameArrives
  <2>13. CASE PopFinds
    BY <2>13, <1>0 DEF PopFinds
  <2>14. CASE PopFindsNone
    BY <2>14, <1>0 DEF PopFindsNone
  <2>15. CASE ReserveDirect
    BY <2>15, <1>0 DEF ReserveDirect
  <2>16. CASE FeedDirect
    BY <2>16, <1>0, FeedNumbers DEF FeedDirect, RecvFeedsPresent
  <2>17. CASE WriteToRing
    BY <2>17, <1>0 DEF WriteToRing
  <2>18. CASE LoopEnds
    BY <2>18, <1>0 DEF LoopEnds
  <2>19. CASE Close
    BY <2>19, <1>0 DEF Close
  <2>20. CASE Unconfigure
    BY <2>20, <1>0 DEF Unconfigure
  <2>21. CASE Sleep
    BY <2>21, <1>0 DEF Sleep, Empty
  <2>22. CASE ResetRing
    BY <2>22, <1>0 DEF ResetRing
  <2>23. CASE DestroyDecoder
    BY <2>23, <1>0 DEF DestroyDecoder
  <2>. QED  BY <1>1, <2>1, <2>2, <2>3, <2>4, <2>5, <2>6, <2>7, <2>8, <2>9,
            <2>10, <2>11, <2>12, <2>13, <2>14, <2>15, <2>16, <2>17, <2>18,
            <2>19, <2>20, <2>21, <2>22, <2>23 DEF RecvThread
<1>2. CASE DecodeThread
  <2>1. CASE DecTest
    BY <2>1, <1>0 DEF DecTest
  <2>2. CASE Unconfigured
    BY <2>2, <1>0 DEF Unconfigured
  <2>3. CASE LoadDecoder
    BY <2>3, <1>0 DEF LoadDecoder
  <2>4. CASE AskMode
    BY <2>4, <1>0 DEF AskMode
  <2>5. CASE TakeInput
    BY <2>5, <1>0 DEF TakeInput
  <2>6. CASE TakeFindsNone
    BY <2>6, <1>0 DEF TakeFindsNone
  <2>7. CASE ReadFindsNone
    BY <2>7, <1>0 DEF ReadFindsNone
  <2>8. CASE ReadFrame
    BY <2>8, <1>0 DEF ReadFrame
  <2>9. CASE Reserve
    BY <2>9, <1>0 DEF Reserve
  <2>10. CASE FeedAsync
    BY <2>10, <1>0, FeedNumbers DEF FeedAsync, HoldsWhenAsync
  <2>11. CASE FeedSync
    BY <2>11, <1>0 DEF FeedSync
  <2>. QED  BY <1>2, <2>1, <2>2, <2>3, <2>4, <2>5, <2>6, <2>7, <2>8, <2>9,
            <2>10, <2>11 DEF DecodeThread
<1>3. CASE OnAsyncInput
  BY <1>3, <1>0 DEF OnAsyncInput
<1>4. CASE Stop
  BY <1>4, <1>0 DEF Stop
<1>5. CASE StopCloses
  BY <1>5, <1>0 DEF StopCloses
<1>6. CASE StopJoins
  BY <1>6, <1>0 DEF StopJoins
<1>7. CASE NativeInit
  BY <1>7, <1>0 DEF NativeInit
<1>. QED  BY <1>1, <1>2, <1>3, <1>4, <1>5, <1>6, <1>7 DEF Next


(* What WriteToRing and ReadFrame do to the ring.                          *)
LEMMA RingOps ==
  ASSUME TypeOK
  PROVE  /\ Len(ring) \in Nat /\ arrived \in Nat
         /\ \A k \in 1 .. Len(ring) : ring[k] \in Nat
         /\ Len(Append(ring, arrived)) = Len(ring) + 1
         /\ \A k \in 1 .. Len(ring) + 1 :
              Append(ring, arrived)[k] = IF k = Len(ring) + 1 THEN arrived ELSE ring[k]
         /\ ring # <<>> =>
              /\ 1 \in 1 .. Len(ring) /\ Head(ring) = ring[1]
              /\ Len(Tail(ring)) = Len(ring) - 1
              /\ \A k \in 1 .. Len(ring) - 1 :
                   /\ Tail(ring)[k] = ring[k + 1]
                   /\ k + 1 \in 1 .. Len(ring) /\ 1 < k + 1
BY DEF TypeOK

(* The frames under way stay in the order in which they came.              *)
LEMMA NextFramesInv ==
  ASSUME PauseSuffices, TypeOK, Numbered, Joined, Empty, DirectIsDirect,
         FramesInv, Next
  PROVE  FramesInv'
<1>. USE DEF FramesInv, Joined, InFlight, Recv, Dec, NoDecoder, Connecting,
             Created, Streaming, Passing, Ending, flagVars, socketVars,
             codecVars, recvVars, decVars, countVars, ghostVars
<1>0. /\ held \in Input /\ recvInput \in Input /\ recvPts \in Nat /\ decPts \in Nat
      /\ arrived \in Nat /\ since \in Nat /\ decFrame \in Nat /\ session \in Nat
      /\ g_decoder \in Nat /\ fed.decoder \in Nat /\ fed.frame \in Nat
      /\ Len(ring) \in Nat /\ \A k \in 1 .. Len(ring) : ring[k] \in Nat
  BY RingOps DEF TypeOK, Fed
<1>1. CASE RecvThread
  <2>1. CASE RecvTest
    BY <2>1, <1>0 DEF RecvTest
  <2>2. CASE AcceptReturns
    BY <2>2, <1>0 DEF AcceptReturns
  <2>3. CASE AcceptFails
    BY <2>3, <1>0 DEF AcceptFails
  <2>4. CASE AcceptStores
    BY <2>4, <1>0 DEF AcceptStores
  <2>5. CASE HandshakeFails
    BY <2>5, <1>0 DEF HandshakeFails
  <2>6. CASE HandshakeRead
    BY <2>6, <1>0 DEF HandshakeRead
  <2>7. CASE CreateFails
    BY <2>7, <1>0 DEF CreateFails
  <2>8. CASE CreateDecoder
    BY <2>8, <1>0 DEF CreateDecoder, Empty, Numbered
  <2>9. CASE Publish
    BY <2>9, <1>0 DEF Publish, Empty
  <2>10. CASE Responds
    BY <2>10, <1>0 DEF Responds
  <2>11. CASE RespondFails
    BY <2>11, <1>0 DEF RespondFails
  <2>12. CASE FrameArrives
    BY <2>12, <1>0 DEF FrameArrives
  <2>13. CASE PopFinds
    BY <2>13, <1>0 DEF PopFinds
  <2>14. CASE PopFindsNone
    BY <2>14, <1>0 DEF PopFindsNone, DirectIsDirect
  <2>15. CASE ReserveDirect
    BY <2>15, <1>0 DEF ReserveDirect
  <2>16. CASE FeedDirect
    BY <2>16, <1>0, FeedNumbers DEF FeedDirect, DirectIsDirect
  <2>17. CASE WriteToRing
    BY <2>17, <1>0, RingOps DEF WriteToRing
  <2>18. CASE LoopEnds
    BY <2>18, <1>0 DEF LoopEnds
  <2>19. CASE Close
    BY <2>19, <1>0 DEF Close
  <2>20. CASE Unconfigure
    BY <2>20, <1>0 DEF Unconfigure
  <2>21. CASE Sleep
    BY <2>21, <1>0 DEF Sleep
  <2>22. CASE ResetRing
    BY <2>22, <1>0 DEF ResetRing
  <2>23. CASE DestroyDecoder
    BY <2>23, <1>0 DEF DestroyDecoder
  <2>. QED  BY <1>1, <2>1, <2>2, <2>3, <2>4, <2>5, <2>6, <2>7, <2>8, <2>9,
            <2>10, <2>11, <2>12, <2>13, <2>14, <2>15, <2>16, <2>17, <2>18,
            <2>19, <2>20, <2>21, <2>22, <2>23 DEF RecvThread
<1>2. CASE DecodeThread
  <2>1. CASE DecTest
    BY <2>1, <1>0 DEF DecTest
  <2>2. CASE Unconfigured
    BY <2>2, <1>0 DEF Unconfigured
  <2>3. CASE LoadDecoder
    BY <2>3, <1>0 DEF LoadDecoder
  <2>4. CASE AskMode
    BY <2>4, <1>0 DEF AskMode
  <2>5. CASE TakeInput
    BY <2>5, <1>0 DEF TakeInput
  <2>6. CASE TakeFindsNone
    BY <2>6, <1>0 DEF TakeFindsNone
  <2>7. CASE ReadFindsNone
    BY <2>7, <1>0 DEF ReadFindsNone
  <2>8. CASE ReadFrame
    BY <2>8, <1>0, RingOps DEF ReadFrame
  <2>9. CASE Reserve
    BY <2>9, <1>0 DEF Reserve
  <2>10. CASE FeedAsync
    BY <2>10, <1>0, FeedNumbers DEF FeedAsync, Empty
  <2>11. CASE FeedSync
    BY <2>11, <1>0 DEF FeedSync, Empty
  <2>. QED  BY <1>2, <2>1, <2>2, <2>3, <2>4, <2>5, <2>6, <2>7, <2>8, <2>9,
            <2>10, <2>11 DEF DecodeThread
<1>3. CASE OnAsyncInput
  BY <1>3, <1>0 DEF OnAsyncInput
<1>4. CASE Stop
  BY <1>4, <1>0 DEF Stop
<1>5. CASE StopCloses
  BY <1>5, <1>0 DEF StopCloses
<1>6. CASE StopJoins
  BY <1>6, <1>0 DEF StopJoins
<1>7. CASE NativeInit
  BY <1>7, <1>0 DEF NativeInit
<1>. QED  BY <1>1, <1>2, <1>3, <1>4, <1>5, <1>6, <1>7 DEF Next


(* The presentation times grow while a session lasts.                      *)
LEMMA NextTimesInv ==
  ASSUME PauseSuffices, TypeOK, Numbered, Joined, Empty, DirectIsDirect,
         FramesInv, TimesInv, Next
  PROVE  TimesInv'
<1>. USE DEF TimesInv, Joined, InFlight, Recv, Dec, NoDecoder, Connecting,
             Created, Streaming, Passing, Ending, flagVars, socketVars,
             codecVars, recvVars, decVars, countVars, ghostVars
<1>0. /\ held \in Input /\ recvInput \in Input /\ recvPts \in Nat /\ decPts \in Nat
      /\ arrived \in Nat /\ decFrame \in Nat /\ session \in Nat
      /\ g_decoder \in Nat /\ fed.decoder \in Nat /\ fed.pts \in Nat
      /\ g_next_pts_us \in Nat
  BY DEF TypeOK, Fed
<1>1. CASE RecvThread
  <2>1. CASE RecvTest
    BY <2>1, <1>0 DEF RecvTest
  <2>2. CASE AcceptReturns
    BY <2>2, <1>0 DEF AcceptReturns
  <2>3. CASE AcceptFails
    BY <2>3, <1>0 DEF AcceptFails
  <2>4. CASE AcceptStores
    BY <2>4, <1>0 DEF AcceptStores
  <2>5. CASE HandshakeFails
    BY <2>5, <1>0 DEF HandshakeFails
  <2>6. CASE HandshakeRead
    BY <2>6, <1>0 DEF HandshakeRead, Empty
  <2>7. CASE CreateFails
    BY <2>7, <1>0 DEF CreateFails, Empty
  <2>8. CASE CreateDecoder
    BY <2>8, <1>0 DEF CreateDecoder, Empty, Numbered
  <2>9. CASE Publish
    BY <2>9, <1>0 DEF Publish, Empty, FramesInv
  <2>10. CASE Responds
    BY <2>10, <1>0 DEF Responds
  <2>11. CASE RespondFails
    BY <2>11, <1>0 DEF RespondFails, FramesInv
  <2>12. CASE FrameArrives
    BY <2>12, <1>0 DEF FrameArrives
  <2>13. CASE PopFinds
    BY <2>13, <1>0 DEF PopFinds
  <2>14. CASE PopFindsNone
    BY <2>14, <1>0 DEF PopFindsNone
  <2>15. CASE ReserveDirect
    BY <2>15, <1>0 DEF ReserveDirect, DirectIsDirect
  <2>16. CASE FeedDirect
    BY <2>16, <1>0, FeedNumbers DEF FeedDirect, DirectIsDirect
  <2>17. CASE WriteToRing
    BY <2>17, <1>0 DEF WriteToRing
  <2>18. CASE LoopEnds
    BY <2>18, <1>0 DEF LoopEnds
  <2>19. CASE Close
    BY <2>19, <1>0 DEF Close
  <2>20. CASE Unconfigure
    BY <2>20, <1>0 DEF Unconfigure
  <2>21. CASE Sleep
    BY <2>21, <1>0 DEF Sleep
  <2>22. CASE ResetRing
    BY <2>22, <1>0 DEF ResetRing
  <2>23. CASE DestroyDecoder
    BY <2>23, <1>0 DEF DestroyDecoder, Empty, Cleaning
  <2>. QED  BY <1>1, <2>1, <2>2, <2>3, <2>4, <2>5, <2>6, <2>7, <2>8, <2>9,
            <2>10, <2>11, <2>12, <2>13, <2>14, <2>15, <2>16, <2>17, <2>18,
            <2>19, <2>20, <2>21, <2>22, <2>23 DEF RecvThread
<1>2. CASE DecodeThread
  <2>1. CASE DecTest
    BY <2>1, <1>0 DEF DecTest
  <2>2. CASE Unconfigured
    BY <2>2, <1>0 DEF Unconfigured
  <2>3. CASE LoadDecoder
    BY <2>3, <1>0 DEF LoadDecoder
  <2>4. CASE AskMode
    BY <2>4, <1>0 DEF AskMode
  <2>5. CASE TakeInput
    BY <2>5, <1>0 DEF TakeInput
  <2>6. CASE TakeFindsNone
    BY <2>6, <1>0 DEF TakeFindsNone
  <2>7. CASE ReadFindsNone
    BY <2>7, <1>0 DEF ReadFindsNone
  <2>8. CASE ReadFrame
    BY <2>8, <1>0 DEF ReadFrame
  <2>9. CASE Reserve
    BY <2>9, <1>0 DEF Reserve
  <2>10. CASE FeedAsync
    BY <2>10, <1>0, FeedNumbers DEF FeedAsync, Empty
  <2>11. CASE FeedSync
    BY <2>11, <1>0 DEF FeedSync, Empty
  <2>. QED  BY <1>2, <2>1, <2>2, <2>3, <2>4, <2>5, <2>6, <2>7, <2>8, <2>9,
            <2>10, <2>11 DEF DecodeThread
<1>3. CASE OnAsyncInput
  BY <1>3, <1>0 DEF OnAsyncInput
<1>4. CASE Stop
  BY <1>4, <1>0 DEF Stop
<1>5. CASE StopCloses
  BY <1>5, <1>0 DEF StopCloses
<1>6. CASE StopJoins
  BY <1>6, <1>0 DEF StopJoins
<1>7. CASE NativeInit
  BY <1>7, <1>0 DEF NativeInit
<1>. QED  BY <1>1, <1>2, <1>3, <1>4, <1>5, <1>6, <1>7 DEF Next

SInv ==
  /\ TypeOK /\ Numbered /\ Joined /\ Empty /\ DirectIsDirect
  /\ RecvFeedsPresent /\ HoldsWhenAsync /\ AliveInv /\ FramesInv /\ TimesInv
  /\ ~responseFailed => OwnerInv

(* Before the first session nothing is under way.                          *)
LEMMA InitSInv == Init => SInv
<1>. SUFFICES ASSUME Init PROVE SInv
  OBVIOUS
<1>1. TypeOK /\ Numbered
  <2>1. "test" \in RecvSteps /\ "test" \in DecSteps /\ fed \in Fed
    BY DEF Init, RecvSteps, DecSteps, Fed
  <2>2. input_queue \in Seq(Indices) /\ ring \in Seq(Nat)
    BY DEF Init
  <2>3. TypeOK
    BY <2>1, <2>2, InputIs DEF Init, TypeOK
  <2>. QED  BY <2>3, InputIs DEF Init, Numbered, Connecting
<1>2. ring = <<>> /\ Len(ring) = 0
  BY DEF Init
<1>3. Joined /\ Empty /\ DirectIsDirect /\ RecvFeedsPresent /\ HoldsWhenAsync
  BY DEF Init, Joined, Empty, DirectIsDirect, RecvFeedsPresent, HoldsWhenAsync,
     InFlight, Streaming, Passing, Ending, Cleaning
<1>4. AliveInv
  BY DEF Init, AliveInv, Noticed
<1>5. FramesInv /\ TimesInv
  BY <1>2 DEF Init, FramesInv, TimesInv, InFlight, Created, Streaming, Passing
<1>6. OwnerInv
  BY InputIs DEF Init, OwnerInv, OfferedOnce, OutOf, Apart
<1>. QED  BY <1>1, <1>3, <1>4, <1>5, <1>6 DEF SInv

(* Every step keeps the session in order when the pause of the cleanup     *)
(* suffices.                                                               *)
LEMMA NextSInv ==
  ASSUME PauseSuffices
  PROVE  SInv /\ [Next]_vars => SInv'
<1>1. ASSUME SInv, Next PROVE SInv'
  BY <1>1, NextTypeOK, NextNumbered, NextJoined, NextEmpty, NextDirectIsDirect,
     NextRecvFeedsPresent, NextHoldsWhenAsync, NextAliveInv, NextFramesInv,
     NextTimesInv, NextOwnerInv, FailureStays DEF SInv
<1>2. ASSUME SInv, UNCHANGED vars PROVE SInv'
  <2>. USE <1>2 DEF SInv, vars, flagVars, codecVars, recvVars, decVars,
                countVars, ghostVars
  <2>1. (TypeOK /\ Numbered)'
    BY DEF TypeOK, Numbered
  <2>2. (Joined /\ Empty /\ DirectIsDirect /\ RecvFeedsPresent /\ HoldsWhenAsync)'
    BY DEF Joined, Empty, InFlight, DirectIsDirect, RecvFeedsPresent,
        HoldsWhenAsync
  <2>3. (AliveInv /\ FramesInv /\ TimesInv)'
    BY DEF AliveInv, Noticed, FramesInv, InFlight, TimesInv
  <2>4. (~responseFailed => OwnerInv)'
    BY DEF OwnerInv, OfferedOnce, OutOf, Apart
  <2>. QED  BY <2>1, <2>2, <2>3, <2>4
<1>. QED  BY <1>1, <1>2

(* The session is in order in every reachable state when the pause of the  *)
(* cleanup suffices.                                                       *)
LEMMA SInvAlways ==
  ASSUME PauseSuffices
  PROVE  Spec => []SInv
BY InitSInv, NextSInv, PTL DEF Spec

(* If the pause of the cleanup is long enough, and as long as every        *)
(* handshake response was sent, the decode thread looks only into a        *)
(* decoder that exists, and each buffer goes back to the decoder it came   *)
(* from (native_bridge.cpp:836-858).                                       *)
THEOREM DecoderAliveAlways ==
  ASSUME PauseSuffices
  PROVE  Spec => []DecoderAliveIfResponded
<1>1. SInv => DecoderAliveIfResponded
  BY DEF SInv, AliveInv, DecoderAliveIfResponded
<1>. QED  BY <1>1, SInvAlways, PTL

(* A set with at most one element counts at most one.                      *)
LEMMA AtMostOne ==
  ASSUME NEW S, \A x, y \in S : x = y
  PROVE  Cardinality(S) <= 1
<1>1. CASE S = {}
  BY <1>1, FS_EmptySet
<1>2. CASE S # {}
  <2>1. PICK x \in S : S = {x}
    BY <1>2
  <2>. QED  BY <2>1, FS_Singleton
<1>. QED  BY <1>1, <1>2

(* Four places that exclude each other count one owner at most.            *)
LEMMA SInvOneOwner == SInv => OneOwner
<1>. SUFFICES ASSUME SInv, ~responseFailed, NEW i \in Indices
              PROVE  Cardinality(
                {k \in DOMAIN input_queue : input_queue[k] = i}
                \cup {x \in {"codec"} : i \in codecIndices}
                \cup {x \in {"decode"} : held.index = i /\ decPc \notin {"pause", "done"}}
                \cup {x \in {"recv"} : recvInput.index = i /\ recvPc \in {"reserve", "feed"}})
                <= 1
  BY DEF OneOwner
<1>. DEFINE A == {k \in DOMAIN input_queue : input_queue[k] = i}
            B == {x \in {"codec"} : i \in codecIndices}
            C == {x \in {"decode"} : held.index = i /\ decPc \notin {"pause", "done"}}
            D == {x \in {"recv"} : recvInput.index = i /\ recvPc \in {"reserve", "feed"}}
<1>1. DOMAIN input_queue = 1 .. Len(input_queue)
  BY DEF SInv, TypeOK
<1>2. OwnerInv /\ held \in Input /\ recvInput \in Input /\ i # 0
  BY SessionAssumption DEF SInv, TypeOK
<1>3. C # {} => held # NoInput /\ held = [decoder |-> g_decoder, index |-> i] /\ g_decoder # 0
  <2>. SUFFICES ASSUME held.index = i, decPc \notin {"pause", "done"}
                PROVE  held # NoInput /\ held = [decoder |-> g_decoder, index |-> i] /\ g_decoder # 0
    OBVIOUS
  <2>1. held # NoInput
    BY <1>2, InputIs
  <2>2. held.decoder = g_decoder
    BY <2>1 DEF SInv, AliveInv
  <2>. QED  BY <1>2, <2>1, <2>2, InputIs
<1>4. D # {} => recvInput = [decoder |-> g_decoder, index |-> i] /\ g_decoder # 0
  <2>. SUFFICES ASSUME recvInput.index = i, recvPc \in {"reserve", "feed"}
                PROVE  recvInput = [decoder |-> g_decoder, index |-> i] /\ g_decoder # 0
    OBVIOUS
  <2>1. recvInput # NoInput
    BY <1>2, InputIs
  <2>2. recvInput.decoder = g_decoder
    BY DEF SInv, RecvFeedsPresent
  <2>. QED  BY <1>2, <2>1, <2>2, InputIs
<1>5. \A x, y \in A : x = y
  BY <1>1, <1>2 DEF OwnerInv, OfferedOnce
<1>6. A # {} => B = {}
  BY <1>1, <1>2 DEF OwnerInv, OfferedOnce
<1>7. C # {} => A = {} /\ B = {} /\ D = {}
  BY <1>1, <1>2, <1>3, <1>4 DEF OwnerInv, OutOf, Apart
<1>8. D # {} => A = {} /\ B = {}
  BY <1>1, <1>2, <1>4 DEF OwnerInv, OutOf
<1>9. \A x, y \in A \cup B \cup C \cup D : x = y
  BY <1>5, <1>6, <1>7, <1>8
<1>. QED  BY <1>9, AtMostOne

(* If the pause of the cleanup is long enough, and as long as every        *)
(* handshake response was sent, every input buffer of the present decoder  *)
(* has one owner: it is with the decoder, or offered once, or in the hands *)
(* of one of the two threads, although the threads hold bare numbers that  *)
(* the next decoder uses too (decoder.cpp:116-134 and 481-492,             *)
(* native_bridge.cpp:836-858 and 1067-1167).                               *)
THEOREM OneOwnerAlways ==
  ASSUME PauseSuffices
  PROVE  Spec => []OneOwner
BY SInvAlways, SInvOneOwner, PTL

(* Feeding a frame.                                                        *)
LEMMA FedNext ==
  ASSUME SInv, Next, fed' # fed, mode # "direct"
  PROVE  /\ decPc = "feed" /\ g_decoder # 0 /\ fed'.decoder = g_decoder
         /\ fed'.frame = decFrame /\ fed'.pts = decPts
<1>0. /\ held \in Input /\ decFrame \in Nat /\ decPts \in Nat
      /\ recvPc = "feed" => mode = "direct"
  BY DEF SInv, TypeOK, DirectIsDirect
<1>1. FeedAsync \/ FeedSync
  <2>1. ~FeedDirect
    BY <1>0 DEF FeedDirect, Recv
  <2>2. ~OnAsyncInput /\ ~Stop /\ ~StopCloses /\ ~StopJoins /\ ~NativeInit
    BY DEF OnAsyncInput, Stop, StopCloses, StopJoins, NativeInit, ghostVars
  <2>3. ~Elsewhere \/ FeedSync
    BY DEF Elsewhere, ghostVars,
       RecvTest, AcceptReturns, AcceptFails, AcceptStores, HandshakeFails,
       HandshakeRead, Publish, Responds, RespondFails, FrameArrives,
       PopFindsNone, ReserveDirect, WriteToRing, LoopEnds, Close, Unconfigure,
       Sleep, ResetRing, DecTest, LoadDecoder, AskMode, TakeFindsNone,
       ReadFindsNone, ReadFrame, Reserve, Stop, StopCloses
  <2>4. /\ ~CreateFails /\ ~DestroyDecoder /\ ~CreateDecoder /\ ~PopFinds
        /\ ~Unconfigured /\ ~TakeInput
    BY DEF CreateFails, DestroyDecoder, CreateDecoder, PopFinds, Unconfigured,
       TakeInput, ghostVars
  <2>. QED  BY <2>1, <2>2, <2>3, <2>4, Moves
<1>2. CASE FeedAsync
  BY <1>0, <1>2, FeedNumbers DEF FeedAsync, Dec, SInv
<1>3. CASE FeedSync
  BY <1>3 DEF FeedSync, Dec
<1>. QED  BY <1>1, <1>2, <1>3

(* If the pause is long enough, a decoder that is not fed directly gets    *)
(* the frames of its session only, in the order in which they came, with   *)
(* growing presentation times while the session lasts                      *)
(* (native_bridge.cpp:176-183, 742-749 and 836-849).                       *)
THEOREM FedInOrderAlways ==
  ASSUME PauseSuffices
  PROVE  Spec => FedInOrder
<1>1. SInv /\ [Next]_vars =>
        [fed' # fed /\ mode # "direct"
           => /\ fed'.frame >= since
              /\ fed'.decoder = fed.decoder
                   => /\ fed'.frame > fed.frame
                      /\ g_decoder_configured => fed'.pts > fed.pts]_vars
  <2>. SUFFICES ASSUME SInv, Next, fed' # fed, mode # "direct"
                PROVE  /\ fed'.frame >= since
                       /\ fed'.decoder = fed.decoder
                            => /\ fed'.frame > fed.frame
                               /\ g_decoder_configured => fed'.pts > fed.pts
    OBVIOUS
  <2>1. /\ decPc = "feed" /\ g_decoder # 0 /\ fed'.decoder = g_decoder
        /\ fed'.frame = decFrame /\ fed'.pts = decPts
    BY FedNext
  <2>2. /\ decFrame \in Nat /\ since \in Nat /\ decPts \in Nat
        /\ fed.frame \in Nat /\ fed.pts \in Nat
    BY DEF SInv, TypeOK, Fed
  <2>3. since <= decFrame /\ (fed.decoder = g_decoder => fed.frame < decFrame)
    BY <2>1 DEF SInv, FramesInv, InFlight
  <2>4. fed.decoder = g_decoder /\ g_decoder_configured => fed.pts < decPts
    BY <2>1 DEF SInv, TimesInv
  <2>. QED  BY <2>1, <2>2, <2>3, <2>4
<1>. QED  BY <1>1, SInvAlways, PTL DEF Spec, FedInOrder
=============================================================================
