---------------------------- MODULE WireMessages ----------------------------
(***************************************************************************)
(* What one end of the connection sends and what the other end takes out   *)
(* of the byte stream: the layouts of the messages, the telemetry in front *)
(* of a picture, the header before every payload, and the loop that reads  *)
(* a header and as many bytes as it announces.  Bytes are 0..255.  A write *)
(* is one step, since a reader that sees a part of it waits for the rest.  *)
(* A negative time travels as the number its 64 bits stand for.            *)
(***************************************************************************)
EXTENDS Integers, Sequences

CONSTANTS
    Scripts,      \* what one end may send in a session: sequences of messages
    MaxPayload    \* the buffer of the other end: a longer payload ends its loop

-----------------------------------------------------------------------------
(* Numbers: little-endian, in 1, 2, 4 or 8 bytes.                          *)

\* A number, shifted right by no byte, by one byte, by two bytes ...
Shifted(v) ==
    LET q1 == v \div 256   q2 == q1 \div 256  q3 == q2 \div 256  q4 == q3 \div 256
        q5 == q4 \div 256  q6 == q5 \div 256  q7 == q6 \div 256
    IN  <<v, q1, q2, q3, q4, q5, q6, q7>>

WriteLe(v, n) == [i \in 1..n |-> Shifted(v)[i] % 256]

ReadLe(bytes) ==
    LET b == [i \in 1..8 |-> IF i \in DOMAIN bytes THEN bytes[i] ELSE 0]
    IN  b[1] + 256 * (b[2] + 256 * (b[3] + 256 * (b[4] + 256 *
            (b[5] + 256 * (b[6] + 256 * (b[7] + 256 * b[8]))))))

\* The numbers of n bytes.
HasWidth(v, n) == v \in Nat /\ Shifted(v)[n] < 256

-----------------------------------------------------------------------------
(* Layouts: every field has its offset and its width in bytes.             *)

Field(at, width) == [at |-> at, width |-> width]
Layout(size, fields) == [size |-> size, fields |-> fields]

Header == Layout(6, [type |-> Field(0, 1), flags |-> Field(1, 1), length |-> Field(2, 4)])

TouchEvent == Layout(20,
    [action |-> Field(0, 1), pointer_id |-> Field(1, 1), x_frac |-> Field(2, 2),
     y_frac |-> Field(4, 2), pressure |-> Field(6, 2), touch_major |-> Field(8, 2),
     touch_minor |-> Field(10, 2), orientation |-> Field(12, 2), timestamp_ms |-> Field(14, 4)])

PenEvent == Layout(32,
    [action |-> Field(0, 1), pointer_id |-> Field(1, 1), tool_type |-> Field(2, 1),
     x_frac |-> Field(4, 2), y_frac |-> Field(6, 2), pressure |-> Field(8, 2),
     distance |-> Field(10, 2), tilt |-> Field(12, 2), rotation |-> Field(14, 2),
     buttons |-> Field(16, 4), timestamp_ms |-> Field(20, 4)])

MouseEvent == Layout(16,
    [action |-> Field(0, 1), buttons |-> Field(1, 1), x_frac |-> Field(4, 2),
     y_frac |-> Field(6, 2), timestamp_ms |-> Field(8, 4)])

DeckAction == Layout(16,
    [action |-> Field(0, 1), button_id |-> Field(1, 1), value |-> Field(2, 2),
     timestamp_ms |-> Field(4, 4)])

VolumeState == Layout(4, [level |-> Field(0, 2), muted |-> Field(2, 1)])

(* Mutant: the frame interval is written one byte too early. *)
HandshakeReqPacked == Layout(20,
    [protocol_version |-> Field(0, 2), width |-> Field(2, 2), height |-> Field(4, 2),
     fps |-> Field(6, 1), codec |-> Field(7, 1), max_bitrate_kbps |-> Field(8, 4),
     touch_enabled |-> Field(12, 1), frame_interval_us |-> Field(12, 4),
     offered |-> Field(17, 1)])

HandshakeReq == Layout(20,
    [protocol_version |-> Field(0, 2), width |-> Field(2, 2), height |-> Field(4, 2),
     fps |-> Field(6, 1), codec |-> Field(7, 1), max_bitrate_kbps |-> Field(8, 4),
     touch_enabled |-> Field(12, 1), frame_interval_us |-> Field(13, 4),
     offered |-> Field(17, 1)])

HandshakeResp == Layout(16,
    [protocol_version |-> Field(0, 2), accepted_width |-> Field(2, 2),
     accepted_height |-> Field(4, 2), accepted_fps |-> Field(6, 1),
     accepted_codec |-> Field(7, 1), decoder_max_bitrate |-> Field(8, 4),
     touch_supported |-> Field(12, 1)])

Telemetry == Layout(56,
    [magic |-> Field(0, 4), version |-> Field(4, 2), header_size |-> Field(6, 2),
     sequence |-> Field(8, 8), capture_to_encode_us |-> Field(16, 8),
     encode_to_send_us |-> Field(24, 8), capture_to_send_us |-> Field(32, 8),
     rtt_us |-> Field(40, 8), flags |-> Field(48, 4)])

FieldsAt(layout, i) ==
    {f \in DOMAIN layout.fields : i - layout.fields[f].at \in 1..layout.fields[f].width}

\* The fields in their places, and zeros between them.
Serialize(layout, m) ==
    [i \in 1..layout.size |->
        IF FieldsAt(layout, i) = {} THEN 0
        ELSE LET f == CHOOSE f \in FieldsAt(layout, i) : TRUE
             IN  WriteLe(m[f], layout.fields[f].width)[i - layout.fields[f].at]]

Deserialize(layout, bytes) ==
    [f \in DOMAIN layout.fields |->
        LET at == layout.fields[f].at
        IN  ReadLe(SubSeq(bytes, at + 1, at + layout.fields[f].width))]

-----------------------------------------------------------------------------
(* A video message: the telemetry and the picture.                         *)

VideoFrame == 16
Magic == 1414288196     \* 0x544C5344
Version == 2
Stamps == {"magic", "version", "header_size"}
Measures == DOMAIN Telemetry.fields \ Stamps

\* ds_frame_write_telemetry: the measures, and the marks of their layout.
Stamped(telemetry) ==
    [f \in DOMAIN Telemetry.fields |->
        CASE f = "magic" -> Magic [] f = "version" -> Version
          [] f = "header_size" -> Telemetry.size [] OTHER -> telemetry[f]]

SendVideo(video) == Serialize(Telemetry, Stamped(video.telemetry)) \o video.nal

\* ds_frame_read_telemetry: the bytes of the telemetry, 0 if the payload has none.
TelemetryBytes(payload) ==
    LET t == Deserialize(Telemetry, payload)
    IN  IF /\ Len(payload) >= Telemetry.size
           /\ t.magic = Magic /\ t.version = Version
           /\ t.header_size >= Telemetry.size /\ Len(payload) >= t.header_size
        THEN t.header_size ELSE 0

\* The video case of recv_thread: what was measured, or nothing, and the picture behind it.
ReceiveVideo(payload) ==
    LET n == TelemetryBytes(payload)
        t == Deserialize(Telemetry, payload)
    IN  [telemetry |-> [f \in Measures |-> IF n = 0 THEN 0 ELSE t[f]],
         nal |-> SubSeq(payload, n + 1, Len(payload))]

-----------------------------------------------------------------------------
(* Messages: of a fixed layout, video, or bytes.                           *)

LayoutOf == [t \in {1, 2, 32, 33, 34, 65, 67, 68} |->
    CASE t = 1 -> HandshakeReq [] t = 2 -> HandshakeResp
      [] t = 32 -> TouchEvent  [] t = 33 -> PenEvent [] t = 34 -> MouseEvent
      [] t = 65 -> DeckAction  [] OTHER -> VolumeState]

\* Control, deck configuration, media state, ping and pong.
Plain == {48, 64, 66, 240, 241}

\* What a sender makes of its arguments: a deck action's value is never filled in.
Filled(m) ==
    CASE m.type = 65 -> [m.body EXCEPT !.button_id = IF @ \in 0..255 THEN @ ELSE 0, !.value = 0]
      [] m.type \in {67, 68} -> [m.body EXCEPT !.muted = IF @ # 0 THEN 1 ELSE 0]
      [] OTHER -> m.body

Payload(m) ==
    CASE m.type = VideoFrame -> SendVideo(m.body)
      [] m.type \in DOMAIN LayoutOf -> Serialize(LayoutOf[m.type], Filled(m))
      [] OTHER -> m.body

HeaderOf(m) == [type |-> m.type, flags |-> m.flags, length |-> Len(Payload(m))]

Framed(m) == Serialize(Header, HeaderOf(m)) \o Payload(m)

\* A deck action and a volume may be longer than their layout, the others may not.
Accepted(h) ==
    LET size == LayoutOf[h.type].size
    IN  IF h.type \in {65, 67, 68} THEN h.length >= size ELSE h.length = size

\* What the receiver makes of a header and its payload: a message, or nothing.
Parsed(h, payload) ==
    LET With(body) == <<[type |-> h.type, flags |-> h.flags, body |-> body]>>
    IN  CASE h.type = VideoFrame -> With(ReceiveVideo(payload))
          [] h.type \in DOMAIN LayoutOf ->
                IF Accepted(h) THEN With(Deserialize(LayoutOf[h.type], payload)) ELSE <<>>
          [] h.type \in Plain -> With(payload)
          [] OTHER -> <<>>

-----------------------------------------------------------------------------
\* Bytes, and as many of them as a header can announce.
IsPayload(b) == b \in Seq(0..255) /\ HasWidth(Len(b), 4)

IsMessage(m) ==
    /\ m.flags \in 0..255
    /\ \/ /\ m.type = VideoFrame
          /\ m.body.telemetry \in [Measures -> Nat]
          /\ \A f \in Measures : HasWidth(m.body.telemetry[f], Telemetry.fields[f].width)
          /\ m.body = [telemetry |-> m.body.telemetry, nal |-> m.body.nal]
          /\ m.body.nal \in Seq(0..255) /\ HasWidth(Telemetry.size + Len(m.body.nal), 4)
       \/ /\ m.type \in DOMAIN LayoutOf
          /\ m.body \in [DOMAIN LayoutOf[m.type].fields -> Int]
          /\ \A f \in DOMAIN m.body :
                HasWidth(Filled(m)[f], LayoutOf[m.type].fields[f].width)
       \/ m.type \in Plain /\ IsPayload(m.body)

ASSUME ScriptAssumption ==
    \A s \in Scripts : s \in Seq({s[i] : i \in DOMAIN s}) /\ \A i \in DOMAIN s : IsMessage(s[i])

VARIABLES
    script,   \* what is sent in this session
    written,  \* how many of its messages were written
    stream,   \* the bytes that were written and not read
    head,     \* the header that was read, while its payload was not
    taken     \* the messages the receiver took out of the stream

streamVars == <<script, written, stream, head, taken>>

NoHeader == [type |-> 0, flags |-> 0, length |-> 0]

StreamInit ==
    /\ script \in Scripts /\ written = 0
    /\ stream = <<>> /\ head = NoHeader /\ taken = <<>>

\* Every sender, and TCPClient::send_message.
Write ==
    /\ written < Len(script)
    /\ written' = written + 1
    /\ stream' = stream \o Framed(script[written + 1])
    /\ UNCHANGED <<script, head, taken>>

Behind(n) == SubSeq(stream, n + 1, Len(stream))

TakeHeader ==
    /\ head = NoHeader
    /\ Len(stream) >= Header.size
    /\ head' = Deserialize(Header, stream)
    /\ stream' = Behind(Header.size)
    /\ UNCHANGED <<script, written, taken>>

TakePayload ==
    /\ head # NoHeader
    /\ head.length <= MaxPayload
    /\ Len(stream) >= head.length
    /\ taken' = taken \o Parsed(head, SubSeq(stream, 1, head.length))
    /\ stream' = Behind(head.length)
    /\ head' = NoHeader
    /\ UNCHANGED <<script, written>>

StreamNext == Write \/ TakeHeader \/ TakePayload

StreamSpec == StreamInit /\ [][StreamNext]_streamVars

-----------------------------------------------------------------------------
(* What the receiver takes out of the stream is what was written, in every *)
(* field, telemetry and picture, in the order it was written; no byte of   *)
(* one message ends in another; and when nothing is left in the stream no  *)
(* message is missing.                                                     *)
MessagesSurvive ==
    /\ Len(taken) <= written
    /\ \A i \in 1..Len(taken) :
          taken[i] = [type |-> script[i].type, flags |-> script[i].flags,
                      body |-> Filled(script[i])]
    /\ stream = <<>> /\ head = NoHeader => Len(taken) = written
=============================================================================
