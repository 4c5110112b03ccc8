--------------------------- MODULE AndroidSession ---------------------------
(***************************************************************************)
(* The native part of the Android client: the receive thread accepts one   *)
(* desktop after the other, creates a decoder in the handshake and hands   *)
(* it the frames, through the ring buffer to the decode thread or, in a    *)
(* direct session, by itself; the decode thread feeds the decoder and      *)
(* survives the sessions; the decoder offers input buffers from a thread   *)
(* of its own; nativeStop ends both threads.  g_decoder_api_mutex guards   *)
(* most uses of the decoder, and each such section is one action.          *)
(*                                                                         *)
(* The ring is a queue of whole messages here: RingBuffer shows that it is *)
(* one.  Decoders, their input buffers and frames are numbered from 1; a   *)
(* decoder gets the number of its session and 0 is nullptr.  Frames that only configure the decoder   *)
(* take no presentation time and are left out.                             *)
(***************************************************************************)
EXTENDS Naturals, Sequences, FiniteSets, Functions

CONSTANTS Indices,       \* the input buffers of a decoder
          RingSize,      \* messages the ring holds
          MaxSessions,   \* bound: connections accepted
          MaxFrames,     \* bound: frames received
          PauseSuffices  \* timing: after the pause of the cleanup the decode
                         \* thread has seen that the decoder is unconfigured

ASSUME SessionAssumption ==
  /\ IsFiniteSet(Indices) /\ 0 \notin Indices /\ RingSize \in Nat \ {0}
  /\ MaxSessions \in Nat /\ MaxFrames \in Nat
  /\ PauseSuffices \in BOOLEAN

VARIABLES
  g_running, g_decoder, g_decoder_configured, g_decoder_direct_submit,
  g_next_pts_us,
  g_server_fd, g_client_fd,   \* does each descriptor name a socket?
  mode,                       \* the kind of the newest decoder
  codecIndices,               \* input buffers that are with the decoder
  input_queue,                \* input buffers it offered, oldest first
  ring,                       \* frames in the ring, oldest first
  recvPc, recvInput, recvPts,  \* the receive thread
  decPc, seen, is_async, held, decFrame, decPts,  \* the decode thread
  stopPc,                     \* nativeStop
  session, arrived,           \* connections and frames so far
  since,                      \* history: the first frame of the session
  fed,                        \* history: what was fed last, and to whom
  responseFailed,             \* history: a handshake response was not sent
  codecFailed                 \* history: the decoder failed on a buffer

socketVars == <<g_server_fd, g_client_fd>>
flagVars   == <<g_decoder_configured, g_decoder_direct_submit>>
codecVars  == <<g_decoder, mode, codecIndices, input_queue>>
recvVars   == <<recvPc, recvInput, recvPts>>
decVars    == <<decPc, seen, is_async, held, decFrame, decPts>>
countVars  == <<session, arrived, since>>
ghostVars  == <<fed, responseFailed, codecFailed>>
vars == <<g_running, flagVars, g_next_pts_us, socketVars, codecVars, ring,
          recvVars, decVars, stopPc, countVars, ghostVars>>

NoInput == [decoder |-> 0, index |-> 0]

Init ==
  /\ g_running = TRUE
  /\ g_decoder_configured = FALSE /\ g_decoder_direct_submit = FALSE
  /\ g_next_pts_us = 0
  /\ g_server_fd = TRUE /\ g_client_fd = FALSE
  /\ g_decoder = 0 /\ mode = "sync" /\ codecIndices = {} /\ input_queue = <<>>
  /\ ring = <<>>
  /\ recvPc = "test" /\ recvInput = NoInput /\ recvPts = 0
  /\ decPc = "test" /\ seen = 0 /\ is_async = FALSE /\ held = NoInput
  /\ decFrame = 0 /\ decPts = 0
  /\ stopPc = "idle"
  /\ session = 0 /\ arrived = 0 /\ since = 1
  /\ fed = [decoder |-> 0, of |-> 0, frame |-> 0, pts |-> 0]
  /\ responseFailed = FALSE /\ codecFailed = FALSE

Recv(from, to) == recvPc = from /\ recvPc' = to

CloseClient == g_client_fd' = FALSE /\ UNCHANGED g_server_fd

NoDecoder ==
  /\ g_decoder' = 0
  /\ codecIndices' = {}
  /\ input_queue' = <<>>
  /\ mode' = "sync"
-----------------------------------------------------------------------------
(* The receive thread: connection and handshake.                           *)

RecvTest ==
  /\ Recv("test", IF g_running THEN "accept" ELSE "done")
  /\ UNCHANGED <<g_running, flagVars, g_next_pts_us, socketVars, codecVars,
                 ring, recvInput, recvPts, decVars, stopPc, countVars,
                 ghostVars>>

AcceptReturns ==
  /\ Recv("accept", "accepted")
  /\ g_server_fd /\ session < MaxSessions
  /\ session' = session + 1
  /\ UNCHANGED <<g_running, flagVars, g_next_pts_us, g_server_fd,
                 g_client_fd, codecVars, ring, recvInput, recvPts, decVars,
                 stopPc, arrived, since, ghostVars>>

AcceptFails ==
  /\ Recv("accept", "test")
  /\ ~g_server_fd
  /\ UNCHANGED <<g_running, flagVars, g_next_pts_us, socketVars, codecVars,
                 ring, recvInput, recvPts, decVars, stopPc, countVars,
                 ghostVars>>

(* The descriptor is published before the handshake. *)
AcceptStores ==
  /\ Recv("accepted", "handshake")
  /\ g_client_fd' = TRUE
  /\ UNCHANGED <<g_running, flagVars, g_next_pts_us, g_server_fd,
                 codecVars, ring, recvInput, recvPts, decVars, stopPc,
                 countVars, ghostVars>>

(* The request does not come, or is not one, or asks for what no decoder   *)
(* supports.                                                               *)
HandshakeFails ==
  /\ Recv("handshake", "test")
  /\ CloseClient
  /\ UNCHANGED <<g_running, flagVars, g_next_pts_us, codecVars, ring,
                 recvInput, recvPts, decVars, stopPc, countVars,
                 ghostVars>>

HandshakeRead ==
  /\ Recv("handshake", "create")
  /\ g_client_fd
  /\ g_next_pts_us' = 0
  /\ UNCHANGED <<g_running, flagVars, socketVars, codecVars, ring,
                 recvInput, recvPts, decVars, stopPc, countVars,
                 ghostVars>>

(* A decoder that is still there is destroyed first. *)
CreateFails ==
  /\ Recv("create", "test")
  /\ NoDecoder
  /\ CloseClient
  /\ UNCHANGED <<g_running, flagVars, g_next_pts_us, ring, recvInput,
                 recvPts, decVars, stopPc, countVars, ghostVars>>

CreateDecoder ==
  /\ Recv("create", "publish")
  /\ g_decoder' = session
  /\ mode' \in {"sync", "async", "direct"}
  /\ codecIndices' = Indices
  /\ input_queue' = <<>>
  /\ UNCHANGED <<g_running, flagVars, g_next_pts_us, socketVars, ring,
                 recvInput, recvPts, decVars, stopPc, countVars,
                 ghostVars>>

(* Mutant: every asynchronous decoder is fed directly. *)
PublishAlwaysDirect ==
  /\ Recv("publish", "respond")
  /\ g_decoder_direct_submit' = (mode # "sync")
  /\ g_decoder_configured' = TRUE
  /\ since' = arrived + 1
  /\ UNCHANGED <<g_running, g_next_pts_us, socketVars, codecVars, ring,
                 recvInput, recvPts, decVars, stopPc, session, arrived,
                 ghostVars>>

(* Mutant: the decode thread is not told of the decoder. *)
PublishSilently ==
  /\ Recv("publish", "respond")
  /\ g_decoder_direct_submit' = (mode = "direct")
  /\ since' = arrived + 1
  /\ UNCHANGED <<g_running, g_decoder_configured, g_next_pts_us,
                 socketVars, codecVars, ring, recvInput, recvPts, decVars,
                 stopPc, session, arrived, ghostVars>>

Publish ==
  /\ Recv("publish", "respond")
  /\ g_decoder_direct_submit' = (mode = "direct")
  /\ g_decoder_configured' = TRUE
  /\ since' = arrived + 1
  /\ UNCHANGED <<g_running, g_next_pts_us, socketVars, codecVars, ring,
                 recvInput, recvPts, decVars, stopPc, session, arrived,
                 ghostVars>>

Responds ==
  /\ Recv("respond", "loop")
  /\ g_client_fd
  /\ UNCHANGED <<g_running, flagVars, g_next_pts_us, socketVars, codecVars,
                 ring, recvInput, recvPts, decVars, stopPc, countVars,
                 ghostVars>>

(* The response cannot be sent: the next desktop is waited for, and the    *)
(* decoder stays configured.                                               *)
RespondFails ==
  /\ Recv("respond", "test")
  /\ CloseClient
  /\ responseFailed' = TRUE
  /\ UNCHANGED <<g_running, flagVars, g_next_pts_us, codecVars, ring,
                 recvInput, recvPts, decVars, stopPc, countVars, fed,
                 codecFailed>>
-----------------------------------------------------------------------------
(* The receive thread: frames.                                             *)

FrameArrives ==
  /\ Recv("loop", IF /\ g_decoder_direct_submit /\ g_decoder_configured
                     /\ ring = <<>>
                  THEN "pop" ELSE "ring")
  /\ g_running /\ g_client_fd
  /\ arrived < MaxFrames
  /\ arrived' = arrived + 1
  /\ UNCHANGED <<g_running, flagVars, g_next_pts_us, socketVars, codecVars,
                 ring, recvInput, recvPts, decVars, stopPc, session, since,
                 ghostVars>>

PopFinds ==
  /\ Recv("pop", "reserve")
  /\ g_decoder # 0 /\ input_queue # <<>>
  /\ recvInput' = [decoder |-> g_decoder, index |-> Head(input_queue)]
  /\ input_queue' = Tail(input_queue)
  /\ UNCHANGED <<g_running, flagVars, g_next_pts_us, socketVars, g_decoder,
                 mode, codecIndices, ring, recvPts, decVars, stopPc,
                 countVars, ghostVars>>

PopFindsNone ==
  /\ Recv("pop", "ring")
  /\ g_decoder = 0 \/ input_queue = <<>>
  /\ UNCHANGED <<g_running, flagVars, g_next_pts_us, socketVars, codecVars,
                 ring, recvInput, recvPts, decVars, stopPc, countVars,
                 ghostVars>>

ReserveDirect ==
  /\ Recv("reserve", "feed")
  /\ recvPts' = g_next_pts_us
  /\ g_next_pts_us' = g_next_pts_us + 1
  /\ UNCHANGED <<g_running, flagVars, socketVars, codecVars, ring,
                 recvInput, decVars, stopPc, countVars, ghostVars>>

(* decoder_feed_index: the number goes to the decoder there is now,        *)
(* whichever one it came from.  The codec takes a buffer that it gave out  *)
(* and refuses one that it has.                                            *)
OutOfCodec(input) ==
  g_decoder # 0 /\ input # NoInput /\ input.index \notin codecIndices

QueuedToCodec(input) ==
  /\ OutOfCodec(input)
  /\ codecIndices' = codecIndices \cup {input.index}

FeedIndex(input, frame, pts) ==
  /\ QueuedToCodec(input)
  /\ fed' = [decoder |-> g_decoder, of |-> input.decoder,
             frame |-> frame, pts |-> pts]
  /\ UNCHANGED <<g_decoder, mode, input_queue, responseFailed,
                 codecFailed>>

(* A frame that is too large: the buffer is queued empty.  No decoder, a   *)
(* buffer that the codec has, or a codec that fails and keeps neither the  *)
(* frame nor the buffer.                                                   *)
FeedIndexFails(input) ==
  /\ \/ QueuedToCodec(input) /\ UNCHANGED codecFailed
     \/ /\ UNCHANGED codecIndices
        /\ codecFailed' = (codecFailed \/ OutOfCodec(input))
  /\ UNCHANGED <<g_decoder, mode, input_queue, fed, responseFailed>>

FeedDirect ==
  /\ \/ Recv("feed", "loop") /\ FeedIndex(recvInput, arrived, recvPts)
     \/ Recv("feed", "ring") /\ FeedIndexFails(recvInput)
  /\ recvInput' = NoInput
  /\ recvPts' = 0
  /\ UNCHANGED <<g_running, flagVars, g_next_pts_us, socketVars, ring,
                 decVars, stopPc, countVars>>

(* The frame that finds the ring full is dropped. *)
WriteToRing ==
  /\ Recv("ring", "loop")
  /\ ring' = IF Len(ring) < RingSize THEN Append(ring, arrived) ELSE ring
  /\ UNCHANGED <<g_running, flagVars, g_next_pts_us, socketVars, codecVars,
                 recvInput, recvPts, decVars, stopPc, countVars,
                 ghostVars>>
-----------------------------------------------------------------------------
(* The receive thread: the end of a session.                               *)

LoopEnds ==
  /\ Recv("loop", "close")
  /\ UNCHANGED <<g_running, flagVars, g_next_pts_us, socketVars, codecVars,
                 ring, recvInput, recvPts, decVars, stopPc, countVars,
                 ghostVars>>

Close ==
  /\ Recv("close", "unconfigure")
  /\ CloseClient
  /\ UNCHANGED <<g_running, flagVars, g_next_pts_us, codecVars, ring,
                 recvInput, recvPts, decVars, stopPc, countVars,
                 ghostVars>>

(* Mutant: the decode thread is not told to pause. *)
UnconfigureSilently ==
  /\ Recv("unconfigure", "sleep")
  /\ g_next_pts_us' = 0
  /\ g_decoder_direct_submit' = FALSE
  /\ UNCHANGED <<g_running, g_decoder_configured, socketVars, codecVars,
                 ring, recvInput, recvPts, decVars, stopPc, countVars,
                 ghostVars>>

Unconfigure ==
  /\ Recv("unconfigure", "sleep")
  /\ g_decoder_configured' = FALSE
  /\ g_next_pts_us' = 0
  /\ g_decoder_direct_submit' = FALSE
  /\ UNCHANGED <<g_running, socketVars, codecVars, ring, recvInput,
                 recvPts, decVars, stopPc, countVars, ghostVars>>

Sleep ==
  /\ Recv("sleep", "reset")
  /\ PauseSuffices => \/ decPc \in {"pause", "done"}
                      \/ decPc = "test" /\ held = NoInput
  /\ UNCHANGED <<g_running, flagVars, g_next_pts_us, socketVars, codecVars,
                 ring, recvInput, recvPts, decVars, stopPc, countVars,
                 ghostVars>>

ResetRing ==
  /\ Recv("reset", "destroy")
  /\ ring' = <<>>
  /\ UNCHANGED <<g_running, flagVars, g_next_pts_us, socketVars, codecVars,
                 recvInput, recvPts, decVars, stopPc, countVars,
                 ghostVars>>

DestroyDecoder ==
  /\ Recv("destroy", "test")
  /\ NoDecoder
  /\ UNCHANGED <<g_running, flagVars, g_next_pts_us, socketVars, ring,
                 recvInput, recvPts, decVars, stopPc, countVars,
                 ghostVars>>
-----------------------------------------------------------------------------
(* The decode thread.  What it drains from the decoder is left out.        *)

Dec(from, to) == decPc = from /\ decPc' = to

DecTest ==
  /\ Dec("test", IF ~g_running THEN "done"
                 ELSE IF g_decoder_configured THEN "mode" ELSE "pause")
  /\ UNCHANGED <<g_running, flagVars, g_next_pts_us, socketVars, codecVars,
                 ring, recvVars, seen, is_async, held, decFrame, decPts,
                 stopPc, countVars, ghostVars>>

(* Mutant: the buffer number is kept over the pause. *)
UnconfiguredKeeps ==
  /\ Dec("pause", "test")
  /\ g_next_pts_us' = 0
  /\ UNCHANGED <<g_running, flagVars, socketVars, codecVars, ring,
                 recvVars, seen, is_async, held, decFrame, decPts, stopPc,
                 countVars, ghostVars>>

Unconfigured ==
  /\ Dec("pause", "test")
  /\ held' = NoInput
  /\ g_next_pts_us' = 0
  /\ UNCHANGED <<g_running, flagVars, socketVars, codecVars, ring,
                 recvVars, seen, is_async, decFrame, decPts, stopPc,
                 countVars, ghostVars>>

(* decoder_is_async(g_decoder), without the mutex: the pointer is read,    *)
(* then what it points to.                                                 *)
LoadDecoder ==
  /\ Dec("mode", "ask")
  /\ seen' = g_decoder
  /\ UNCHANGED <<g_running, flagVars, g_next_pts_us, socketVars, codecVars,
                 ring, recvVars, is_async, held, decFrame, decPts, stopPc,
                 countVars, ghostVars>>

AskMode ==
  /\ is_async' \in IF seen = 0 THEN {FALSE}
                   ELSE IF seen = g_decoder THEN {mode # "sync"} ELSE BOOLEAN
  /\ Dec("ask", IF is_async' THEN "take" ELSE "read")
  /\ seen' = 0
  /\ UNCHANGED <<g_running, flagVars, g_next_pts_us, socketVars, codecVars,
                 ring, recvVars, held, decFrame, decPts, stopPc, countVars,
                 ghostVars>>

TakeInput ==
  /\ Dec("take", "read")
  /\ g_running
  /\ \/ held # NoInput /\ UNCHANGED <<held, input_queue>>
     \/ /\ held = NoInput
        /\ g_decoder # 0 /\ input_queue # <<>>
        /\ held' = [decoder |-> g_decoder, index |-> Head(input_queue)]
        /\ input_queue' = Tail(input_queue)
  /\ UNCHANGED <<g_running, flagVars, g_next_pts_us, socketVars, g_decoder,
                 mode, codecIndices, ring, recvVars, seen, is_async,
                 decFrame, decPts, stopPc, countVars, ghostVars>>

TakeFindsNone ==
  /\ Dec("take", "test")
  /\ \/ ~g_running
     \/ held = NoInput /\ (g_decoder = 0 \/ input_queue = <<>>)
  /\ is_async' = FALSE
  /\ UNCHANGED <<g_running, flagVars, g_next_pts_us, socketVars, codecVars,
                 ring, recvVars, seen, held, decFrame, decPts, stopPc,
                 countVars, ghostVars>>

(* No frame: the input buffer is kept for the next one. *)
ReadFindsNone ==
  /\ Dec("read", "test")
  /\ ring = <<>> \/ (~is_async /\ ~g_running)
  /\ is_async' = FALSE
  /\ UNCHANGED <<g_running, flagVars, g_next_pts_us, socketVars, codecVars,
                 ring, recvVars, seen, held, decFrame, decPts, stopPc,
                 countVars, ghostVars>>

ReadFrame ==
  /\ Dec("read", "reserve")
  /\ is_async \/ g_running
  /\ ring # <<>>
  /\ decFrame' = Head(ring)
  /\ ring' = Tail(ring)
  /\ UNCHANGED <<g_running, flagVars, g_next_pts_us, socketVars, codecVars,
                 recvVars, seen, is_async, held, decPts, stopPc, countVars,
                 ghostVars>>

Reserve ==
  /\ Dec("reserve", "feed")
  /\ decPts' = g_next_pts_us
  /\ g_next_pts_us' = g_next_pts_us + 1
  /\ UNCHANGED <<g_running, flagVars, socketVars, codecVars, ring,
                 recvVars, seen, is_async, held, decFrame, stopPc,
                 countVars, ghostVars>>

FeedAsync ==
  /\ Dec("feed", "take")
  /\ is_async
  /\ FeedIndex(held, decFrame, decPts) \/ FeedIndexFails(held)
  /\ held' = NoInput
  /\ decFrame' = 0 /\ decPts' = 0
  /\ UNCHANGED <<g_running, flagVars, g_next_pts_us, socketVars, ring,
                 recvVars, seen, is_async, stopPc, countVars>>

(* decoder_feed: the frame is lost when there is no decoder, or no input   *)
(* buffer in time.                                                         *)
FeedSync ==
  /\ Dec("feed", "read")
  /\ ~is_async
  /\ \/ /\ g_decoder # 0 /\ mode = "sync"
        /\ fed' = [decoder |-> g_decoder, of |-> g_decoder,
                   frame |-> decFrame, pts |-> decPts]
     \/ UNCHANGED fed
  /\ decFrame' = 0 /\ decPts' = 0
  /\ UNCHANGED <<g_running, flagVars, g_next_pts_us, socketVars, codecVars,
                 ring, recvVars, seen, is_async, held, stopPc, countVars,
                 responseFailed, codecFailed>>

(* on_async_input, on the decoder's thread.                                *)
OnAsyncInput ==
  /\ g_decoder # 0 /\ mode # "sync"
  /\ \E i \in codecIndices :
       /\ input_queue' = Append(input_queue, i)
       /\ codecIndices' = codecIndices \ {i}
  /\ UNCHANGED <<g_running, flagVars, g_next_pts_us, socketVars, g_decoder,
                 mode, ring, recvVars, decVars, stopPc, countVars,
                 ghostVars>>
-----------------------------------------------------------------------------
(* nativeStop and nativeInit, on the thread of the activity.               *)

Stop ==
  /\ stopPc = "idle" /\ stopPc' = "close"
  /\ g_running' = FALSE
  /\ UNCHANGED <<flagVars, g_next_pts_us, socketVars, codecVars, ring,
                 recvVars, decVars, countVars, ghostVars>>

(* Mutant: the listening socket stays open. *)
StopClosesClient ==
  /\ stopPc = "close" /\ stopPc' = "join"
  /\ g_client_fd' = FALSE
  /\ UNCHANGED <<g_running, flagVars, g_next_pts_us, g_server_fd,
                 codecVars, ring, recvVars, decVars, countVars, ghostVars>>

(* A connection whose descriptor is not stored yet stays open. *)
StopCloses ==
  /\ stopPc = "close" /\ stopPc' = "join"
  /\ g_client_fd' = FALSE
  /\ g_server_fd' = FALSE
  /\ UNCHANGED <<g_running, flagVars, g_next_pts_us, codecVars, ring,
                 recvVars, decVars, countVars, ghostVars>>

StopJoins ==
  /\ stopPc = "join" /\ stopPc' = "done"
  /\ recvPc = "done" /\ decPc = "done"
  /\ NoDecoder
  /\ ring' = <<>>
  /\ g_decoder_configured' = FALSE
  /\ UNCHANGED <<g_running, g_decoder_direct_submit, g_next_pts_us,
                 socketVars, recvVars, decVars, countVars, ghostVars>>

(* The activity comes back with a new surface. *)
NativeInit ==
  /\ stopPc = "done" /\ stopPc' = "idle"
  /\ session < MaxSessions
  /\ g_running' = TRUE
  /\ g_server_fd' = TRUE
  /\ g_decoder_configured' = FALSE
  /\ recvPc' = "test" /\ decPc' = "test"
  /\ held' = NoInput
  /\ UNCHANGED <<g_decoder_direct_submit, g_next_pts_us, g_client_fd,
                 codecVars, ring, recvInput, recvPts, seen, is_async,
                 decFrame, decPts, countVars, ghostVars>>
-----------------------------------------------------------------------------
RecvThread ==
  \/ RecvTest \/ AcceptReturns \/ AcceptFails \/ AcceptStores
  \/ HandshakeFails \/ HandshakeRead \/ CreateFails \/ CreateDecoder
  \/ Publish \/ Responds \/ RespondFails
  \/ FrameArrives \/ PopFinds \/ PopFindsNone \/ ReserveDirect \/ FeedDirect
  \/ WriteToRing
  \/ LoopEnds \/ Close \/ Unconfigure \/ Sleep \/ ResetRing \/ DestroyDecoder

DecodeThread ==
  \/ DecTest \/ Unconfigured \/ LoadDecoder \/ AskMode
  \/ TakeInput \/ TakeFindsNone \/ ReadFindsNone \/ ReadFrame \/ Reserve
  \/ FeedAsync \/ FeedSync

Next ==
  \/ RecvThread \/ DecodeThread \/ OnAsyncInput
  \/ Stop \/ StopCloses \/ StopJoins \/ NativeInit

Spec == Init /\ [][Next]_vars

(* Both threads and the decoder run.  The receive thread may wait for the  *)
(* desktop for ever, but not on a socket that was closed.                  *)
FairSpec ==
  /\ Spec
  /\ WF_vars(RecvThread /\ recvPc \notin {"accept", "handshake", "loop"})
  /\ WF_vars(AcceptFails)
  /\ WF_vars(~g_client_fd /\ HandshakeFails)
  /\ WF_vars(~(g_running /\ g_client_fd) /\ LoopEnds)
  /\ WF_vars(DecodeThread)
  /\ WF_vars(OnAsyncInput)
  /\ WF_vars(StopCloses \/ StopJoins)

(* The desktop does not leave a connection open without sending anything.  *)
PeerSpeaks == WF_vars(HandshakeRead \/ HandshakeFails)
-----------------------------------------------------------------------------
(* As long as every handshake response was sent, an input buffer of the    *)
(* present decoder is with it, or offered once, or in the hands of one     *)
(* thread, so that nobody fills a buffer that the codec reads or another   *)
(* thread fills.  A thread holds a bare number, which would fit the next   *)
(* decoder too: the pause of the cleanup must have made the decode thread  *)
(* forget it (decoder.cpp:116-134, native_bridge.cpp:722-740, 836-858,     *)
(* 1081 and 1107-1167).  In its pause, and when it has ended, the decode   *)
(* thread is about to forget.                                              *)
OneOwner ==
  ~responseFailed =>
    \A i \in Indices :
      Cardinality(
        {k \in DOMAIN input_queue : input_queue[k] = i}
        \cup {x \in {"codec"} : i \in codecIndices}
        \cup {x \in {"decode"} : held.index = i /\ decPc \notin {"pause", "done"}}
        \cup {x \in {"recv"} : recvInput.index = i /\ recvPc \in {"reserve", "feed"}})
      <= 1

(* Unless the session is a direct one, the decoder gets the frames of the  *)
(* session, and no other, in the order in which they came, and while the   *)
(* session lasts with increasing presentation times (native_bridge.cpp:    *)
(* 176-183, 742-749 and 836-849: the cleanup restarts the times before the *)
(* decode thread pauses, and the frame it is at may repeat one).  In a     *)
(* direct session the receive thread may overtake a frame that the decode  *)
(* thread took from the ring.                                              *)
FedInOrder ==
  [][fed' # fed /\ mode # "direct"
      => /\ fed'.frame >= since
         /\ fed'.decoder = fed.decoder
              => /\ fed'.frame > fed.frame
                 /\ g_decoder_configured => fed'.pts > fed.pts]_vars

(* "Give decode thread time to notice and stop touching the decoder"       *)
(* (native_bridge.cpp:845): as long as every handshake response was sent,  *)
(* the decode thread looks only into a decoder that exists, and gives it   *)
(* only buffers that it offered.                                           *)
DecoderAliveIfResponded ==
  ~responseFailed =>
    /\ decPc = "ask" => seen \in {0, g_decoder}
    /\ fed.of = fed.decoder

(* nativeStop returns, if the desktop is not silent for ever: it joins the *)
(* two threads while the activity waits.                                   *)
StopReturns == PeerSpeaks => (stopPc = "join" ~> stopPc = "done")

(* The ring runs empty: the decode thread always comes by an input buffer, *)
(* even when the receive thread takes buffers too and a session ends, or   *)
(* begins, in between, unless the decoder failed on a buffer               *)
(* (native_bridge.cpp:722-749, 1107-1124 and 1170-1173).                   *)
RingDrains == ring # <<>> ~> ring = <<>> \/ codecFailed
=============================================================================
