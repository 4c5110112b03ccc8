# A TLA+ model of DroidScreen

DroidScreen shows a desktop (macOS or Windows) on an Android tablet over a USB
cable and sends touch, pen, mouse and deck input back. This directory holds
TLA+ modules for the parts of it that are concurrent or intricate and hard to
test, the TLC configurations that check them on small instances, and proofs that
hold for every value of the constants.

To check it: `tlc -config X.cfg M` for a run of `PROJECT.json` (which names the
module and the configuration of each), `tlapm M.tla` for the eight modules whose
names end in `Proofs`.

## 1. Inventory of the system

### Desktop (C++, Objective-C++)

| Part | Source | State | Operations |
|---|---|---|---|
| Pipeline, send stage | `desktop/common/src/pipeline.cpp` | `running_`, `send_queue_` (at most 4), `send_cv_`, `next_video_sequence_` | `on_packet` from the encoder, `send_loop`, `mark_failed`, `stop` |
| Pipeline, capture and encode stage | same | `capture_queue_` (newest frame only), `capture_cv_`, `last_frame` | the capture callback, `encode_loop`, `stop` |
| Pipeline, capturer restart | same | `capturer_restarting_`, `capturer_restart_thread_`, two mutexes | `handle_capturer_error`, the restart thread, `stop` |
| Pipeline, session | same | handshake results, RTT window, `write_mutex_` | `handshake`, `recv_loop`, `ping_loop`, `handle_control`, `send_deck_config`, `send_volume_state`, `send_media_state` |
| Capturers | `sck_capturer.mm`, `wgc_capturer.cpp` | `running_`, callbacks, the OS stream, the slot pool (4) | `start`, `stop`, `restart`, handlers |
| Encoders | `vt_encoder.mm` (asynchronous), `ffmpeg_encoder.cpp` (synchronous) | session, `config_sent_`, `keyframe_pending_` | `encode`, output callback, `shutdown` |
| TCP client | `server.cpp` | the socket | `connect`, `send_message`, `recv_*`, `close`, speed test |
| Deck manager, rate controller | `deck_manager.cpp`, `rate_controller.cpp` | current page, layout | actions, volume |
| Windows application | `windows/src/main.cpp` | `g_app`: `isBusy`, `isStreaming`, the objects of a stream, timers | connect, disconnect, stats and device timers, settings, quitting, speed test |
| macOS application | `macos/src/main.mm` | the same, on a serial queue | the same |
| Input injectors | `touch_injector_*`, `mouse_injector_*` | slots of live contacts, pen, buttons, repeat thread | inject touch, pen, mouse; shutdown |
| Media controller (Windows) | `win_media_controller.cpp` | session, `last_track_key`, threads | emit the state, keys, poll, init, shutdown |
| Volume, virtual display, launchers | `win_volume_controller.cpp`, `virtual_display_win.cpp`, ... | COM objects, the driver's display and its keep-alive thread | set and report the volume, plug, unplug |

### Android (Kotlin, C++)

| Part | Source | State | Operations |
|---|---|---|---|
| Native session | `native_bridge.cpp`, `tcp_server.cpp` | client socket, decoder and its flags, ring buffer, telemetry slots | receive thread, decode thread, `nativeInit`, `nativeStop`, `nativeSend*` |
| Ring buffer | `ring_buffer.h` | two positions and the bytes between them | write, read, count, reset |
| Decoder | `decoder.cpp` | MediaCodec, queues of input and output indices | callbacks, feed, drain, configure, destroy |
| Senders | `touch_sender.cpp`, `pen_sender.cpp`, `mouse_sender.cpp`, `deck_sender.cpp` | none | one message each |
| SPS patching | `sps_patch.h` | none | rewrite a parameter set in place |
| Activity, input routing | `MainActivity.kt`, `InputRouter.kt` | `activeMousePointerId`, `isDeckVisible`, settings | touch, hover and button events, life cycle |
| Deck overlay | `deck/` | the shown media state, pages | views, one message per key |

### Protocol (C)

`protocol/src` serialises the header, the handshake, touch, pen, mouse, deck
and telemetry messages; both sides link it.

### How they interact

The capturer calls the pipeline's capture callback from a thread of the
platform; the encode thread submits frames to the encoder; the encoder calls
`on_packet`, on the encode thread (FFmpeg) or on a thread of its own
(VideoToolbox); the send thread writes to the socket. The receive and ping
threads use the same socket. All share `running_`, which any of them clears
without telling the others; the application's stats timer looks at it every two
seconds and calls `stop()`, and the application destroys the pipeline
afterwards. On Android the receive thread gives frames to the decode thread
through the ring buffer, or to the decoder at once, and the UI thread writes
input events to the socket. The desktop's receive thread hands them to the
injectors, whose repeat thread injects live contacts again every 50 ms, and to
the deck manager, which answers on the same thread. Volume and media controllers
send from threads of the system. On Windows each connection and each
disconnection runs on a detached thread of its own.

### What is hard

Wakeups on a shared condition variable; ownership of frame buffers across four
threads; the order of `stop()` against callbacks that are still running; the
restart of a stream that dies again; callbacks that outlive what they refer to;
queues and pools at their limits; the decoder's life cycle against two threads;
contacts that must be released on whichever device they were pressed, through
cancellations, refused injections and teardowns; several writers and full
buffers on one socket; a dozen ways for a connection to fail half-way; snapshots
of a player that overtake each other; bit-level rewriting; and, throughout,
flags that are read and acted on later. `PROJECT.json` lists these hazards line
by line, with the properties that cover each one or the reason why none does.

## 2. The modules

| Module | Models | Run |
|---|---|---|
| `PacketChannel` | what the send stage promises: a bounded FIFO that closes | (abstract) |
| `SendQueue` | `on_packet`, `send_loop`, `mark_failed`, the end of `stop()` | `send_queue` |
| `CaptureStage` | capture callback, `encode_loop`, the slot pool, the start of `stop()` | `capture_stage` |
| `CapturerRestart` | `handle_capturer_error`, the restart thread, `SCKCapturer::restart`, two calls of `stop()` | `capturer_restart` |
| `Pipeline` | `CaptureStage` and `SendQueue` (by INSTANCE) joined by the encoder, `running_` and `stop()` | `pipeline`, `pipeline_live` |
| `MessageQueue` | what the ring buffer promises: a bounded FIFO of whole messages | (abstract) |
| `RingBuffer` | `ring_buffer.h`, byte by byte | `ring_buffer` |
| `AndroidSession` | receive thread, decode thread, decoder callbacks, `nativeInit`, `nativeStop` | `android_session` |
| `InputRouting` | `InputRouter.kt`, the wire, dispatch, the Windows injectors and their repeat thread | `input_routing` |
| `Coordinates` | `normalizePosition`, the mapping of both injectors to pixels and steps | `wire_codecs` |
| `WireMessages` | the layouts of all messages, the telemetry, the senders and the loops that read a header and then its payload | `wire_codecs` |
| `ParameterSets` | SPS patching, extraction of the encoder's parameter sets | `wire_codecs` |
| `ControlSession` | handshake, writers and readers of the one socket on both sides, `stop()` against them | `control_session` |
| `WindowsApp` | `connect_sync`, `disconnect_sync`, the message loop, both timers, the virtual display | `windows_app` |
| `MediaController` | the emitters of the media state, the controller's life, the tile | `media_controller` |
| `SendQueueProofs`, `CaptureStageProofs`, `CapturerRestartProofs`, `PipelineProofs`, `RingBufferProofs`, `AndroidSessionProofs`, `WindowsAppProofs` | proofs about the modules of the same names | tlapm |
| `ConnectionProofs` | proofs about `ControlSession`, `InputRouting`, `Coordinates` and `WireMessages` | tlapm |

`MC...` modules only give the constants their sets.

### SendQueue

One action is one critical section of `send_mutex_`, or one access to
`running_`. `waitSet` holds the threads blocked in `send_cv_.wait`; `NotifyOne`
removes any member, which is the freedom the standard gives to `notify_one`, and
`SpuriousWakeup` removes one at any time. A woken thread evaluates its predicate
again. A packet is its sequence number; `Emit` takes the number before the lock,
as `on_packet` does at line 436. Sending can fail at any time; the receive and
ping threads appear only as `ConnectionLost`, since all they do to this stage is
to clear `running_`. `stop()` is the owner's program counter: flag, notify,
close, join. `StopJoin` also waits for the callbacks, because
`encoder_->shutdown()` does. That it ever gets there is `StopCompletes` of
`Pipeline`; that a packet gets through is `EmittedIsSent`.

`PacketChannel` is what an encoder may rely on; the refinement maps `pending`
to the packet in the hands of the send thread followed by the queue, and `open`
to whether the send thread is still there. It orders packets by their queueing; their numbers are the
subject of `WireInOrder`.

### CaptureStage

Frames are known by the buffers they occupy, since this is what can go wrong
with them; `stamp` remembers which picture a buffer holds. `inUse` is the set of
the buffers nobody released. `Arrive` is the platform's handler up to its call
of the capture callback (a frame without a free buffer is dropped there, and
idle notifications carry no buffer), the three `Callback...` actions are the
callback: `running_` is read before the mutex is taken. The timed wait of
`encode_loop` can end at any time, so no notification is needed to model it.
`outlived` records the handlers that were still running when the platform's
stop returned, on which `AllReleased` depends.

### CapturerRestart

The owner calls `stop()` and then destroys the pipeline, which calls `stop()`
again; `stops` counts. Both mutexes and both program counters are explicit,
since the questions are about deadlock and about decisions that went stale. The
capturer is the one of macOS: the Windows one never reports an error. A start
that fails leaves the capturer's own flag set, as the code does.

### Pipeline

The encoder is a queue of frames that it holds (`jobs`); `async` is chosen once,
in `Init`. A synchronous encoder returns from `encode()` only when its packets
were taken; an asynchronous one emits them later, from a callback thread. Each
frame gives one packet, or two when the parameter sets go first, or none when
the encoder fails. The actions of the two stages are used as they are; the
composition adds the encoder and the order that `stop()` imposes between them.
Idle re-sends would use up any bound on the packets before the last picture came;
therefore `Spare` keeps, of the `MaxPackets` numbers, one for each picture that
no packet shows yet. The platform's `stop()` is assumed to return
(`sck_capturer.mm:535` waits without a time-out), here and in `CapturerRestart`.

### RingBuffer

The writer's and the reader's functions are split where they copy or touch a
position of the other side: the room is looked at, the length is written, the
bytes are written, the position is published; and the same on the reader's side.
Positions are counted modulo `Modulus`, the width of a `size_t`, which is a
multiple of the capacity because the code insists on a power of two. `Base` and
`HeaderSize` are the values of a byte and the bytes of a length; the length read
from the buffer is the number that the writer would have put there as these
bytes. The refinement maps `queue` to the messages that the loop of
`ring_buffer_messages_pending` finds (`Consumed`: what that loop has consumed
after each turn).
A reset happens only without a reader, as `ring_buffer.h` asks (see
"Disagreements").

### AndroidSession

One action is one critical section of `g_decoder_api_mutex`, or one access to
state that is shared without it: `g_running`, `g_decoder_configured`,
`g_next_pts_us`, the ring and, at line 1087, `g_decoder`. That read is two
actions, `LoadDecoder` and `AskMode`: the pointer, then what it points to; what
a destroyed decoder answers is arbitrary. A decoder has the number of its
session, so that an input buffer remembers who offered it; `fed` is what was
fed last, to which decoder, in whose buffer. The code remembers the bare index:
`decoder_feed_index` queues it into the decoder of the moment (`QueuedToCodec`),
which refuses an index that it has not given out. An asynchronous decoder offers its
buffers from a thread of its own (`OnAsyncInput`). A frame that cannot be fed
directly goes into the ring and is given another presentation time, as in the
code. Outputs, telemetry, configuration frames and all messages but video are
left out. `session`, `arrived` and `since` only count.

### InputRouting

A pointer event goes through `Tablet` (what `InputRouter` makes of a press, a
move, a release, a hover, a change of the stylus button or the end of a gesture,
in each of the input modes), over `wire`, and into `Dispatch`, which is the
injector's whole handler: finding a slot, overflow, the frame, whether Windows
refuses it, and the edge flags that are cleared only if it does not. The repeat
thread is `RepeaterWakes` and `RepeaterTimes`, split where it waits. `os` is what
Windows holds pressed according to what was injected. The teardown of a session
is the order of `disconnect_sync`: pipeline, touch injector (its thread joined
first), mouse. The mouse injector forgets its buttons whether Windows takes their
release or not (`ShutdownMouse`). Positions are in `Coordinates`. `orphaned`
records that a release can no longer reach Windows: the deck took it, Windows
refused it and the injector forgot it, or a session began with something pressed.
Sessions follow each other without a bound.

### Coordinates

One axis of a pointer's way: the place on the tablet, held inside its surface
(`Inside`), becomes one of 65536 fractions, which each injector makes a pixel of
the virtual desktop (`MapToVirtualDesktop`) and the mouse injector a step across
it (`MouseAbsolute`). `Point` puts the pointer somewhere else. Places are whole
numbers of some part of a pixel, and so is the length of the surface, so that
every rational place is covered; the rounding of the tablet's floats is not
modelled. What is captured is a rectangle inside the virtual desktop, which is
never longer than 65536 pixels (`PointAssumption`).

### WireMessages

Each message is a layout: a size, and for every field its offset and its width in
bytes. `Serialize` puts the fields of a message in their places with zeros
between them, as the `ds_*_serialize` functions do, and `Deserialize` reads them
back. `script` is what one end sends in a session, `Write` a sender (`Framed`:
what the sender makes of its arguments, behind a header with its length),
`TakeHeader` and `TakePayload` the loop at the other end (`recv_loop` or
`recv_thread_func`, whose cases are those of `Parsed`), and `taken` what it found
in the stream. A header that announces more than `MaxPayload`, the tablet's
buffer, is the last thing it reads; the desktop's loop has no such limit. A
write is one step, because a reader that sees a part of it waits for the rest;
writes that come between the parts of another are the subject of
`ControlSession`, and what ends a session is that of `AndroidSession`. A negative time travels as
the number its 64 bits stand for. In the run, numbers stay below 2^31, the limit
of TLC's integers; the proof has them all.

### ParameterSets

Pure operators over the bytes of a picture. A `job` is an input, one step
computes its `result`, and the property compares it with what went in or with a
reference (`SpsRbsp`, written from the order of the elements in the H.264
standard). The module declares RECURSIVE operators and is only model-checked.

### ControlSession

`toTablet` is the stream to the tablet in halves of messages, because
`send_message` writes a header and then a payload; `toDesktop` is the other
direction. The specification is `SessionSpec`, so that one module can hold the
proofs about everything but video (`ConnectionProofs`).
Both hold a few parts and then block the writer. `Locks`, `Sends` and `Returns`
are common to all writers; the receive thread is a writer when it answers
(`Reacts`), with `write_mutex_`, before it reads on. The tablet writes its PONG
before it reads on, and the answer of the handshake in two writes, before or
between which the user's events may go. `HandshakeEnds` includes what may fail
after the answer: its version, the encoder, the capturer. A connection breaks at any time, and
`Stop` may come at any time.

### WindowsApp

`thread` says what the message loop and each detached thread are doing;
`connect_sync` is one action per stage that can fail, and `Resets` lists what the
failure path of each stage destroys. `objects` are the `unique_ptr`s of `g_app`
that are set. `clash` is set when two threads are inside these unguarded objects
at once, or one destroys the pipeline whose pointer the stats timer holds
(`raw`): the behaviour of the program is undefined then, and the model ends
there. All that a failure path resets is one step, so that the stages are
checked against each other, but not the order inside one failure path. The port in the settings is fixed.

### MediaController

An emission is four or five steps: the player is read, its track is compared
under the mutex, the artwork is read if need be, the state is stored under the
mutex, and it is sent. Five threads may be in it. Events of the system are counters in `pending`: a throttled one is
lost, as in the code, and the poll every 500 ms makes up for it. `overtaken` records that one
state was stored or sent while another had already decided on its artwork, the
case in which the tile loses its artwork. `ReadsArtwork` takes every track to
have a readable thumbnail: the early returns of `win_media_controller.cpp:97-107`,
after which the key is stored and the polls do not try again, are not modelled. `dangling` is the use of the
controller after its destruction, and ends the behaviour.

## 3. What the runs show

| Run | Bounds | Shows |
|---|---|---|
| `send_queue` | 2 callbacks, queue of 3, 6 packets | every interleaving of the shared condition variable with failures and `stop()`; the queue fills and both callbacks sleep at once; refinement; each packet is sent at last |
| `capture_stage` | 1 handler, 4 buffers, 4 frames | buffers are used again, the queue drops frames, `stop()` meets every state |
| `capturer_restart` | 3 deaths of a stream | a stream dies before, during and after a restart |
| `pipeline` | 2 frames, 2 buffers, queue of 1, 3 packets, 2 frames in the encoder | order and cleanliness end to end, for both kinds of encoder; `stop()` returns |
| `pipeline_live` | 2 frames, 2 buffers, queue of 1, 3 packets, 1 frame in the encoder | the older picture is queued, dropped, refused or sent again, and the newest is written to the socket at last |
| `ring_buffer` | 8 bytes, lengths of 2 digits to base 3, positions modulo 16, messages of 1, 4, 6 and 7 bytes, a reader's buffer of 5 | every alignment of a message to the end of the buffer and to the wrap of the positions; refinement; every message is found |
| `android_session` | 2 sessions, 2 frames, 2 input buffers, 1 place in the ring | frames are dropped, overtake, meet the end of a session and `nativeStop` at every step; all three kinds of decoder |
| `input_routing` | 2 fingers and a stylus, 2 slots, an event is routed when no message is in flight (a cancellation may send two), 1 refused injection, 3 modes (touch alone, mouse alone, mouse and pen; the proofs have all) | three pointers overflow two slots; cancels, the deck, refusals and teardowns meet held contacts and the repeat thread, which lifts what was refused |
| `wire_codecs` | each field of each message at its boundary values, followed by another message, and a payload one byte too long for the buffer; all byte strings up to 5 of {0, 1, 3, 4}; about 1000 parameter sets; up to 3 pictures of an encoder; 4 lengths of the tablet, 20 desktops with displays of 1 to 2560 pixels, places at and beyond the edges | what is taken out of the stream is what was written, while writing, headers and payloads interleave; escapes; parameter sets stay the same set; pointers land edge on edge, one of them more than a pixel to the left of its place, as it may |
| `windows_app` | 2 detached threads, 1 posted message when the user acts | every failure of `connect_sync` against timers, Apply, Quit and a second connect or disconnect |
| `control_session` | 2 halves of messages down, 2 messages up | every writer blocks on a full buffer while each other waits for the mutex; the connection breaks at every step |
| `media_controller` | 1 player, 2 tracks, 1 handler, 1 change or key, 1 failed snapshot, 2 emissions at once | two emissions interleave at every step; the tile and `shutdown()` |

The bounds are enough because the state is symmetric in the contents: two
callbacks and one sender give every pair of waiters, three places and six
packets let the queue fill, drain and fill again, and four buffers are the
code's own number. The capacity of four of the code is covered by the proofs,
which do not bound it. One more pointer than slots is what overflow needs, two
detached threads are what a race needs, and two emissions what overtaking needs;
two halves of a message let a writer be interrupted between them.

No run uses symmetry. Deadlock checking is off: a pipeline stops, an
application exits, a job is done, and a bound may be reached. `wire_codecs` checks
three modules that share no state, `ParameterSets`, `WireMessages` and
`Coordinates`: a behaviour computes a job, carries messages or moves a pointer
(`MCSpec`).

### Disagreements between code and text

These are the places where the code was found to do
otherwise than a comment says, or than one would expect. No run states them:
each is in the behaviours of a module, or excluded from it by a named
assumption, as noted.

* A stream that dies again before `capturer_restarting_` is cleared
  (`pipeline.cpp:90`, `118`) is not recovered, although `pipeline.h:110` says
  "Try to recover a failed capturer stream without dropping the transport"
  (`CapturerRestart`; hence `ClaimedErrorIsHandled` speaks of claimed errors).
* An error callback that is past its `running_` check spawns a restart thread
  after the destructor's `stop()` joined the threads (`pipeline.cpp:97`;
  `CapturerRestart`).
* With VideoToolbox the output callback may run after `encode_loop` returned, and
  it refers to a local variable of it (`pipeline.cpp:490`; `Pipeline`).
* The receive thread resets the ring after a sleep, not after the decode thread
  left it (`native_bridge.cpp:850`), against `ring_buffer.h:200-203` (excluded
  by `RingBuffer` and by `PauseSuffices`).
* After a handshake whose response could not be sent the decoder stays
  configured, and the next handshake destroys it while the decode thread is
  looking at it (`native_bridge.cpp:636`; hence `DecoderAliveIfResponded`). The
  decode thread then also keeps its input index: the next decoder may offer the
  same number, and the old one is queued into it (`native_bridge.cpp:1067`,
  `1108`, `decoder.cpp:481-492`), a buffer with two owners. Hence `OneOwner`, too,
  speaks of sessions whose responses were sent.
* "If the socket blocks, it only affects this thread" (`pipeline.cpp:538-539`) is
  not so once the queue is full, since `on_packet` then waits.
* "Both modes feed ALL NALs" (`native_bridge.cpp:1032`) is not so in synchronous
  mode, where a frame is dropped when no input buffer comes within a
  millisecond. The presentation times of a direct session may go back
  (`native_bridge.cpp:724`), so `FedInOrder` speaks of the other sessions.
* Marking a stream as ended first "prevents stats timer and device timer from
  accessing objects we're about to destroy" (`main.cpp:2135-2136`): not a stats
  timer that has already taken its raw pointer (`main.cpp:2212`; `raw` and
  `clash` in `WindowsApp`).
* "Media tile - cover art, title and artist" (`README.md:83` of the
  repository): an emission overtaken by another between its comparison and the
  wire leaves the new track without its cover until the next event (`overtaken`
  in `MediaController`).
* The detached burst checks the controller's flag after its sleep, when the
  controller may be destroyed (`win_media_controller.cpp:275-283`,
  `main.cpp:2162-2165`; `dangling` in `MediaController`). `generation`, which it
  compares as well, changes only together with `running`.
* `sps_patch.h:13` speaks of Baseline sets in general; those with
  `pic_order_cnt_type` 2 get the fallback (`ParameterSets`). On Windows the first
  keyframe still carries its own, unpatched set behind the patched
  configuration packet, since only the latter is patched
  (`ffmpeg_encoder.cpp:437-451`, `native_bridge.cpp:986`).
* The contact rectangle of a touch at a right angle is inverted
  (`touch_injector_win.cpp:346-389`); areas are not modelled.
* A mouse button whose injection Windows refuses is forgotten
  (`mouse_injector_win.cpp:107-113`), and so is a release that it refuses at the
  teardown (`142-144`): the button stays pressed (`orphaned`; the properties
  about what is lifted leave it out).
* After an accepted frame `inject_touch_locked` clears the edges of the slot it
  was called for only. The edges of another pointer, whose frame was refused, were
  accepted with it, but stay and are injected again, and the repeat thread never
  clears any (`touch_injector_win.cpp:177-181`, `570-571`). `RefusedEdgesOnly`
  says how far that goes.
* A deck shown in the middle of a gesture takes the release of the finger that
  is down (`MainActivity.kt:258`; `orphaned` in `InputRouting`).
* An input event before the handshake's answer, or between its header and its
  body, makes the desktop give up the connection (`native_bridge.cpp:462`,
  `630-632`; `HandshakeEnds` in `ControlSession`).
* A PONG that the tablet cannot write while the desktop's receive thread waits
  for `write_mutex_` and its holder for the tablet: with both buffers full the
  two wait for each other until somebody stops (`Wedged` in `ControlSession`).

"Prevents interleaved header+payload from different threads" (`pipeline.h:117`)
holds: `FramesIntact`. `ds_frame_wrap`, the fraction helpers of `touch.c` and
`RateController` are used nowhere.

## 4. Fairness

Threads that can run do run: weak fairness for each thread's own actions, one
formula per thread, never per action. A write to an open socket may block for
ever; once `stop()` closed the socket it returns. The stats timer is the only
reason `stop()` is called on a pipeline that failed, so `Stop` is fair only when
`running` is false. Nothing makes frames arrive or streams die, but the platform
reports a stream that died. Where a property needs the peer to read or the
encoder to work, it says so in its own antecedent (`PeerReads`, `EncoderWorks`).

On Android the two threads run, the decode thread never waits for longer than a
millisecond, and a decoder offers again the buffers it was given. The receive
thread may wait for the desktop for ever, but not on a descriptor that was
closed. `StopReturns` assumes `PeerSpeaks`: `nativeStop` misses a connection
whose descriptor is not stored yet, and the join then depends on the desktop to
send something or to hang up. `PauseSuffices` is an assumption about time: the
5 ms that the cleanup sleeps are enough for the decode thread to reach its pause
(`native_bridge.cpp:845-846`). Without it `DecoderAliveIfResponded` and
`FedInOrder` would not hold.

`ControlSession` and `WindowsApp` have weak fairness for every thread's steps
and, for taking `write_mutex_`, strong fairness: a mutex that is released again
and again is not withheld from one waiter for ever. `MediaController` has strong
fairness per thread, because every step of an emission waits for a mutex that is
held for one reading of the artwork. Nothing makes a user, a tablet, a player, or
the device timer act; the stats timer, once set, ticks. In `InputRouting` the repeat
thread runs, which is all that `LiftedInTheEnd` asks for: that messages get
through is its antecedent. `Coordinates`, `WireMessages` and `ParameterSets`
check no liveness.

`EmittedIsSent` does not say that one callback cannot be overtaken by others for
ever: notify_one owes it nothing, and the bound on the packets hides it.
`SendQueue`'s callbacks and its sender run (`SchedulerFairness`), and the
antecedent is that the peer reads.

## 5. What is proved

`SendQueueProofs`, for every set of callbacks that is not larger than the
queue, every capacity and every number of packets:

* `InvAlways`: `Inv` is inductive. It adds to the checked properties that the
  queue stays within its capacity, that a callback in `on_packet` has a packet
  and a sleeping callback is in `on_packet` (`PushCarriesPacket`), and that
  after `stop()`'s notification nobody sleeps again (`StopSilences`).
* `NoWakeupLost` and `TypeCorrect` follow.
* The heart of the argument is `NoLostWakeup`: there are never more sleeping
  callbacks than queued packets. A pop takes one packet out and wakes one
  sleeper; because the sender is awake at that moment, that sleeper is a
  callback. A callback goes to sleep only on a full queue, and there are at most
  as many callbacks as places (`SendQueueAssumption`): with more, the property
  fails. The code has one or two callbacks and four places.
* `SendQueueImplementsChannel`: every step of the send stage is a step of
  `PacketChannel` or leaves it unchanged.
* `WireNumbersRise`: with one callback at a time (FFmpeg calls `on_packet` on the encode
  thread; for VideoToolbox, which has its own thread, it is assumed), sequence numbers increase along the wire, the packet being
  written, the queue and the packet in the callback's hands (`NumbersRise`). With
  two callbacks the one that took its number first may lose the race for the
  lock, and then it is false.

`CaptureStageProofs`, for every set of handlers, every pool and every number of
frames (`CaptureAssumption`):

* `OneHolderAlways`. The inductive invariant says that whoever is at a point of
  the code that needs a buffer has one, that no two holders have the same one,
  and that every buffer a holder has is in use. Each action moves one buffer
  from one holder to another, or releases it, so the three parts need each
  other.
* `AllReleasedAlways`: `StopInv` says what `stop()` has achieved at each of its
  steps; once no handler runs and the encode thread is gone, the places that can
  hold a buffer are empty, and by the first invariant no buffer is in use.
* `NeverBackInTimeAlways`, an action property, for one handler at a time,
  an assumption about the capturer that no lock of the code enforces (on macOS the
  sample queue is concurrent, see the hazards): the nearer a holder is to the encoder, the older its frame,
  and the retained frame is the one submitted last (`InOrder`).
* `PoolAlwaysSuffices`: with one holder per buffer, buffers in use are counted
  by their holders: one per handler, one in the queue, one with the encoder and
  one retained, hence the three that the pool needs beyond the handlers.

`CapturerRestartProofs`, for any number of deaths of streams:

* `RestartsOneAtATime`: the thread that restarts holds the claim on
  `capturer_restarting_` from its start to its end, and a callback that claims
  finds it free.
* `CaptureStops`: the invariant ties each mutex to the two program counters that
  may hold it. `stop()` clears the pipeline's flag before it takes
  `capturer_mutex_`; the restart thread looks at the flag under that mutex; so
  once `stop()` released it, no later restart starts a stream.

`PipelineProofs`, for every number of buffers, frames, packets and jobs of the
encoder, which may be synchronous or not:

* `StagesKept`: the composition implements both of its stages; each step is a
  step of either or leaves it alone, and what the send stage does to `running_`
  is a failure to the capture stage. The module instantiates the proof modules
  of the stages, so that their lemmas are used as they are (`StageInvAlways`).
* `NothingLeftAlways`: to the invariants of the stages it adds only the order of
  `stop()` (`StopOrder`): its owner is done after the capture stage is, with the
  encoder empty, and from then on nobody calls `encode()`.
* `WireInOrderAlways`, for one handler and one encoder callback at a time: along
  the sequence numbers the pictures are in order, the frames in the encoder are
  no older, and the newest frame that `encode()` was called with is no older than
  those (`PicturesInOrder`). That frame's number cannot change under the
  encoder's hands because its buffer is in use; and it does not go back, by
  `InOrder`. With `NumbersRise` this is the order on the wire.

`RingBufferProofs`, for every capacity, every width of the positions that it
divides, every base and length of the header and every set of messages:

* `NoRaceAlways`: the bytes that are used, that is `AvailableRead`, and the ones
  a write needs are never more than the capacity (`Fit`); the reader looks only
  at what was available when it began, which has only grown (`ReaderBehind`). The
  cells of the two are therefore at different distances below the capacity, and
  different modulo the capacity (`CellsApart`), although positions wrap at the
  modulus and cells at the capacity. The invariant does not mention the contents,
  so the proof holds even of garbled lengths.
* `ImplementsQueueAlways`, the refinement of `MessageQueue`. The invariant it
  adds, `Stored`, is that the used bytes are some sequence of messages, each
  behind its length, with offsets that end where the used bytes end (`Holds`);
  that the writer's copies are where it believes them to be; and that the reader
  knows the length, later the bytes, of the first message (`ReaderKnows`). A copy
  behind the used bytes leaves them alone (`BytesStay`), publishing adds one
  message at the end and releasing takes one off the front, with every offset
  shifted (`HoldsOneMore`, `HoldsOneLess`). No two lengths have the same bytes
  (`LengthBytesUnique`), so that the reader, and the loop of
  `ring_buffer_messages_pending`, read the lengths that were written: the loop
  finds exactly these messages (`PendingInIs`), and the bytes it passes are those
  the queue counts (`SumIs`). Then each action is a step of the queue or none:
  a message enters with `Publish` and leaves with `ReadReleases`; a reset discards
  with its first store.
  The lemmas are about any memory, because a lemma about `data` does not speak of
  `data'`. The prover knows nothing of `^`; the place values are the function
  `Weight`. The inductions, on offsets, turns and digits, are about sets of
  numbers (`Induction`), since the library's theorems take an operator.

`AndroidSessionProofs`, for every number of input buffers, sessions and frames
and every size of the ring:

* `OneOwnerAlways`: of the decoder, its queue of free indices, the decode thread
  and the receive thread, one at most has a given input buffer of the present
  decoder, if `PauseSuffices` and while every handshake response was sent.
  Both are needed, since an index means the same to every decoder: it is the pause
  that makes the decode thread forget the one it holds before the next decoder
  offers it, and a failed response skips the pause.
* `DecoderAliveAlways` and `FedInOrderAlways` (an action property), if
  `PauseSuffices`: between the pause and the next decoder the decode thread has
  noticed the end of the session (`Noticed`); otherwise it looks at the present
  decoder (`AliveInv`). Frames and times increase from the one fed last over
  the one in the decode thread's hands and the ring to the one just received
  (`FramesInv`, `TimesInv`). Indices are numbered from 1, so that 0 is none.

`ConnectionProofs`, about `ControlSession`, for buffers of every size:

* `FramesStayIntact`: what is in the buffer is a sequence of whole messages but
  for the last (`Paired`); a payload is owed exactly when one writer is between
  its header and its payload (`PayloadNext`), and that writer has `write_mutex_`,
  or is the owner writing the request of the handshake (`WriterHasLock`), before
  which no other writer is there (`HandshakeFirst`).

`ConnectionProofs`, about `InputRouting`, for every set of fingers and of input
modes, every number of slots of the injector, of messages in flight, of rejected
injections (`InputAssumption`). The inductive invariant `IInv`
has five parts besides the types:

* What a slot is (`OneSlotEach`): every live slot has a pointer of its own. Compaction, the
  choice of a slot, overflow, cancellation and the clearing of edges each have a
  lemma that says what they do to the pointers and the contacts of the live
  slots (`CompactedKeeps`, `PosedIs`, `OverflowIs`, `CancelledIs`,
  `ClearedKeeps`); compaction is a bijection between the live slots and the
  first places, by the ranks of their indices.
* What Windows holds, rejections included (`HeldIsRepeated` as it stands, hence
  `HeldIsRepeatedAlways`): pressed touches have a live slot, a pressed pen has
  flags, and then the repeat thread is timed or notified. A rejected frame leaves
  its slots to be repeated, and a forgotten one is `orphaned`.
* What Windows holds while nothing was rejected (`Match`): exactly the contacts
  of the slots and the buttons of the mouse injector, and no slot has an edge
  left. A repeated frame then changes nothing.
* The teardown (`Session`): each of its steps has undone what it stands for.
* What is on the wire (`Routed`, `WireSettles`): every message is for the device
  its pointer drives, and, while nothing was rejected or orphaned, whatever
  Windows holds, or a message on the wire will press, is pressed by a pointer on
  the tablet or lifted by a later message.
  Sending and receiving a message each keep that (`SettledAppend`,
  `SettledTail`). With no pointer down and an empty wire nothing is held:
  `LiftedWhenQuietAlways`.

`RefusedEdgesOnlyAlways` is about the steps: whose slots have edges afterwards is
followed through compaction (`CompactedEdges`), the choice of a slot
(`PosedEdges`), frames and overflow (`TouchEdges`) to the handler of each message
(`DispatchEdges`); an accepted frame leaves none to the pointer it was for.

`ConnectionProofs`, about `Coordinates`, for every length of the tablet, every
place and every display in a virtual desktop (`PointAssumption`):

* `PointsLandAlways`: the fraction is within half a step of the place
  (`FractionIs`), the pixel is the fraction's, cut off (`PixelIs`), and since a
  display has no more pixels than there are fractions, half a step is at most half
  a pixel (`TouchIsThere`). The bound says where truncation puts the pointer: a
  pixel stands for what is between it and the next. The mouse's step, multiplied
  back and rounded up, is the same pixel (`StepIs`, `MouseIsThere`); this is where
  65536 pixels are needed.
* `NeverBackwardsAlways`: a pointer that moves to the right never lands further
  to the left. All three roundings are monotone (`FractionRises`, `PixelRises`,
  `StepRises`), by `QuotientRises`.

`ConnectionProofs`, about `WireMessages`, for every set of scripts whose messages
have fields that fit their widths (`ScriptAssumption`) and every `MaxPayload`:

* `MessagesSurviveAlways`, in three layers. A number of 1, 2, 4 or 8 bytes is read
  back as it was written (`ReadBack`). No two fields of a layout share a byte and
  none leaves it (`LayoutsAreWellFormed`), so that `Deserialize` undoes `Serialize`,
  whatever follows in the buffer (`DeserializeBack`); with the telemetry that
  `ReceiveVideo` recognises (`VideoBack`) and the length in the header this makes
  every framed message one that the loop takes out as it was put in
  (`MessageBack`).
* The invariant (`StreamInv`) is that the stream, with the header that was already
  read, is the messages written and not yet taken, end to end (`Carries`). End to
  end is said without recursion: some sequence of tails begins with the whole
  stream and ends with the empty one, and each is a framed message in front of the
  next (`IsTails`). Writing adds a message at the end of every tail
  (`CarriesOneMore`); reading takes the first off (`CarriesFirst`).

`WindowsAppProofs`, for any number of detached threads, whatever they do at once:

* `PartsOutliveUsersAlways`: until two threads meet in the objects of `g_app`, one
  thread at a time works on them, and where it is says exactly which of them
  exist (`Ordered`, `PartsAt`); the failure path of each stage leaves the virtual
  display alone, as the path behind them expects (`StageUndoes`).
* `NothingLeftBehindAlways`: moreover the busy flag and the forward have, whenever
  they are set, a thread that will clear them (`BusyOwned`, `ForwardOwned`), or a
  stream.

Every type invariant is a part of the inductive one: `TypeOK` is stated with the
proofs or in the module, and no run repeats it. The inductive invariants were
checked by TLC, as invariants of the runs' instances, before they were proved,
all but `Stored` and `Carries`, whose sequences TLC cannot enumerate.
The assumptions on the constants are named in each module and evaluated by the
runs.

Only model-checked are:

* liveness, which the provers do not reach: `EmittedIsSent`, `StopCompletes`,
  `LiftedInTheEnd`, `PictureReachesViewer`, `LatestPictureEncoded`, `DrainsWhenQuiet`,
  `StopReturns`, `RingDrains`, `BusyIsReleased`, `DeadStreamEnds`, `StopUnblocks`,
  `AnswersUnlessWedged`, `StopReturnsAtLast`, `ClaimedErrorIsHandled`,
  `TileSettles`, `ShutdownReturns`;
* `StreamStaysDecodable` (`ParameterSets`): recursive operators over contents.

## 6. Plan

1. `CapturerRestart`: which callbacks may be past their check when `stop()`
   returns, as an invariant of its own.
2. `WindowsApp`: that a meeting of two threads (`clash`) always involves a
   connect or a stop that was let in while the busy flag was down.

## 7. Not modelled

* The macOS application: its connections and disconnections are serial, and what
  is left of the races is modelled for Windows. The macOS injectors and media and
  volume integrations: single calls of the operating system.
* The life cycle of the Android activity, its settings, views and layout.
* Device and codec set-up, bit rates, pixel formats, the speed test, dialogs, the
  deck editor and launchers, logging. `RateController` is constructed nowhere.
* The pixels and the content of pictures, but for their parameter sets; the
  measurement of round-trip times.
* The memory model below sequential consistency, except where a hazard names it.

`PROJECT.json` lists every component with its status.
