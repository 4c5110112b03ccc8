-------------------------- MODULE ConnectionProofs --------------------------
(***************************************************************************)
(* Proofs about what goes over the connection besides video.  First the    *)
(* control path (ControlSession), for every size of the two socket         *)
(* buffers: what the tablet reads is a sequence of whole messages.  Then   *)
(* the way of a pointer event (InputRouting), for every set of fingers and *)
(* of input settings, every number of slots of the touch injector and any  *)
(* number of messages, rejected injections and sessions: what Windows      *)
(* holds pressed is in a live slot, is lifted once the tablet is quiet,    *)
(* and no edge outlives an accepted frame of its pointer.  Then its        *)
(* place (Coordinates), for every length of the tablet and every desktop.  *)
(* Last what is in the messages (WireMessages), for everything that may be *)
(* sent: the receiver has it complete, in order and as it was.             *)
(***************************************************************************)
EXTENDS ControlSession, InputRouting, Coordinates, WireMessages, Integers,
        FiniteSetTheorems, FunctionTheorems, SequenceTheorems, TLAPS

-----------------------------------------------------------------------------
(* The control path.                                                       *)

(* The message of which a payload must follow, if p is the last part.      *)
Owed(p) ==
  IF p.part = "header" /\ HasPayload(p.message) THEN p.message ELSE Nothing

(* The message whose payload the tablet waits for at the end of what was   *)
(* written so far.                                                         *)
Awaited == IF toTablet = <<>> THEN header ELSE Owed(toTablet[Len(toTablet)])

Follows(owed, p) ==
  IF owed = Nothing THEN p.part = "header" ELSE p = Part("payload", owed)

(* FramesIntact, without the concatenation.                                *)
Paired ==
  /\ header # "ping"
  /\ toTablet # <<>> => Follows(header, toTablet[1])
  /\ \A i \in 1 .. Len(toTablet) - 1 : Follows(Owed(toTablet[i]), toTablet[i + 1])

(* As long as the owner is busy with the handshake there is no other       *)
(* writer.                                                                 *)
Handshaking ==
  \/ writing["owner"] = "request"
  \/ pc["owner"] \in {"answer", "body", "failed"}

HandshakeFirst ==
  /\ Handshaking => \A w \in Writers \ {"owner"} : pc[w] = "none"
  /\ \A w \in Writers : writing[w] = "request" => w = "owner"

(* Who is in a message has the lock, or is the owner in the handshake.     *)
WriterHasLock ==
  \A w \in Writers :
    /\ pc[w] \in {"lock", "header", "payload"} => writing[w] # Nothing
    /\ pc[w] = "payload" => HasPayload(writing[w])
    /\ pc[w] \in {"header", "payload"} =>
         write_mutex = w \/ writing[w] = "request"

(* The payload that the stream waits for is the one somebody is about to   *)
(* write; a closed connection carries nothing.                             *)
PayloadNext ==
  /\ ~open => toTablet = <<>>
  /\ open => \/ /\ Awaited = Nothing
               /\ \A w \in Writers : pc[w] # "payload"
            \/ \E w \in Writers : pc[w] = "payload" /\ Awaited = writing[w]

ControlInv ==
  SessionTypeOK /\ Paired /\ HandshakeFirst /\ WriterHasLock /\ PayloadNext
-----------------------------------------------------------------------------
(* The session starts with the header of the request to be written.        *)
LEMMA InitControlInv == SessionInit => ControlInv
<1>. SUFFICES ASSUME SessionInit PROVE ControlInv
  OBVIOUS
<1>. USE DEF SessionInit, Writers, Nothing
<1>1. SessionTypeOK
  <2>1. <<>> \in Seq(Parts) /\ <<>> \in Seq(Upward)
    BY EmptySeq
  <2>. QED  BY <2>1 DEF SessionTypeOK, Downward
<1>2. Paired
  BY DEF Paired
<1>3. HandshakeFirst /\ WriterHasLock
  BY DEF HandshakeFirst, Handshaking, WriterHasLock
<1>4. PayloadNext
  BY DEF PayloadNext, Awaited
<1>. QED  BY <1>1, <1>2, <1>3, <1>4 DEF ControlInv

(* The two streams carry parts of messages and messages.                   *)
LEMMA Streams ==
  ASSUME SessionTypeOK
  PROVE  /\ Len(toTablet) \in Nat /\ Len(toDesktop) \in Nat
         /\ toTablet # <<>> =>
              /\ Tail(toTablet) \in Seq(Parts) /\ Head(toTablet) = toTablet[1]
              /\ Head(toTablet).part \in {"header", "payload"}
              /\ Head(toTablet).message \in Downward
         /\ toDesktop # <<>> =>
              Tail(toDesktop) \in Seq(Upward) /\ Head(toDesktop) \in Upward
         /\ \A message \in Downward :
              /\ Append(toTablet, Part("header", message)) \in Seq(Parts)
              /\ Append(toTablet, Part("payload", message)) \in Seq(Parts)
         /\ \A message \in Upward : Append(toDesktop, message) \in Seq(Upward)
         /\ <<>> \in Seq(Parts) /\ <<>> \in Seq(Upward)
<1>1. toTablet \in Seq(Parts) /\ toDesktop \in Seq(Upward)
  BY DEF SessionTypeOK
<1>2. Len(toTablet) \in Nat /\ Len(toDesktop) \in Nat
  BY <1>1, LenProperties
<1>3. <<>> \in Seq(Parts) /\ <<>> \in Seq(Upward)
  BY EmptySeq
<1>4. ASSUME toTablet # <<>>
      PROVE  /\ Tail(toTablet) \in Seq(Parts) /\ Head(toTablet) = toTablet[1]
             /\ Head(toTablet).part \in {"header", "payload"}
             /\ Head(toTablet).message \in Downward
  <2>1. Head(toTablet) \in Parts /\ Tail(toTablet) \in Seq(Parts)
    BY <1>1, <1>4, HeadTailProperties
  <2>2. Head(toTablet) = toTablet[1]
    BY <1>1, <1>4
  <2>. QED  BY <2>1, <2>2 DEF Parts
<1>5. toDesktop # <<>> =>
        Tail(toDesktop) \in Seq(Upward) /\ Head(toDesktop) \in Upward
  BY <1>1, HeadTailProperties
<1>6. ASSUME NEW message \in Downward
      PROVE  /\ Append(toTablet, Part("header", message)) \in Seq(Parts)
             /\ Append(toTablet, Part("payload", message)) \in Seq(Parts)
  <2>1. Part("header", message) \in Parts /\ Part("payload", message) \in Parts
    BY DEF Part, Parts
  <2>. QED  BY <1>1, <2>1, AppendProperties
<1>7. \A message \in Upward : Append(toDesktop, message) \in Seq(Upward)
  BY <1>1, AppendProperties
<1>. QED  BY <1>2, <1>3, <1>4, <1>5, <1>6, <1>7

(* Every step keeps the types.                                             *)
LEMMA NextSessionTypeOK ==
  SessionTypeOK /\ WriterHasLock /\ [SessionNext]_sessionVars => SessionTypeOK'
<1>. SUFFICES ASSUME SessionTypeOK, WriterHasLock, [SessionNext]_sessionVars
              PROVE  SessionTypeOK'
  OBVIOUS
<1>1. {"deck", "video", "ping", "state"} \subseteq Downward
  BY DEF Downward
<1>2. {"response", "body", "pong", "event", "change"} \subseteq Upward
  BY DEF Upward
<1>. USE <1>1, <1>2, Streams
     DEF SessionTypeOK, Writers, channelVars, tabletVars, writerVars
<1>3. CASE UNCHANGED sessionVars
  BY <1>3 DEF sessionVars
<1>4. ASSUME NEW w \in Writers, Locks(w) PROVE SessionTypeOK'
  BY <1>4 DEF Locks
<1>5. ASSUME NEW w \in Writers, Sends(w) PROVE SessionTypeOK'
  <2>. USE <1>5 DEF Sends
  <2>1. writing[w] \in Downward
    BY DEF WriterHasLock
  <2>2. toTablet' \in Seq(Parts)
    BY <2>1
  <2>3. CASE pc[w] = "header" /\ HasPayload(writing[w])
    BY <2>2, <2>3
  <2>4. CASE Returns(w, Wrote(w))
    BY <2>2, <2>4 DEF Returns, Unlocks, Wrote
  <2>. QED  BY <2>3, <2>4
<1>6. ASSUME NEW w \in Writers, SendFails(w) PROVE SessionTypeOK'
  BY <1>6 DEF SendFails, Returns, Unlocks
<1>7. ASSUME NEW w \in Writers, Exits(w) PROVE SessionTypeOK'
  BY <1>7 DEF Exits
<1>8. CASE HandshakeEnds
  <2>. USE <1>8 DEF HandshakeEnds
  <2>1. toDesktop' \in Seq(Upward) /\ running' \in BOOLEAN
    OBVIOUS
  <2>2. pc' \in [Writers -> {"none", "header", "payload", "answer", "body", "failed",
                        "lock", "ready", "reading", "exited", "join", "stopped"}]
    OBVIOUS
  <2>3. writing' \in [Writers -> Downward \cup {Nothing}]
    OBVIOUS
  <2>. QED  BY <2>1, <2>2, <2>3
<1>9. CASE StartFails \/ Joins \/ Stop
  BY <1>9 DEF StartFails, Joins, Stop
<1>10. CASE Listens
  BY <1>10 DEF Listens
<1>11. CASE Receives
  BY <1>11 DEF Receives, Reacts, Begin
<1>12. CASE ReceiveFails
  BY <1>12 DEF ReceiveFails
<1>13. CASE Initiates
  BY <1>13 DEF Initiates, SendsVideo, Pings, Reports, Begin
<1>14. CASE TabletReads
  BY <1>14 DEF TabletReads
<1>15. CASE TabletAnswers
  BY <1>15 DEF TabletAnswers, TabletWrites
<1>16. CASE UserActs
  BY <1>16 DEF UserActs
<1>17. CASE ConnectionDies
  BY <1>17 DEF ConnectionDies
<1>. QED
  BY <1>3, <1>4, <1>5, <1>6, <1>7, <1>8, <1>9, <1>10, <1>11, <1>12, <1>13,
     <1>14, <1>15, <1>16, <1>17
  DEF SessionNext, DesktopThread, Owner, Recv

(* Every step leaves one writer at most in the middle of a message.        *)
LEMMA NextWriters ==
  ControlInv /\ [SessionNext]_sessionVars => HandshakeFirst' /\ WriterHasLock'
<1>. SUFFICES ASSUME ControlInv, [SessionNext]_sessionVars
              PROVE  HandshakeFirst' /\ WriterHasLock'
  OBVIOUS
<1>. SessionTypeOK'
  BY NextSessionTypeOK DEF ControlInv
<1>. USE DEF ControlInv, SessionTypeOK, HandshakeFirst, Handshaking,
             WriterHasLock, Writers, channelVars, tabletVars, writerVars
<1>1. CASE UNCHANGED sessionVars
  BY <1>1 DEF sessionVars
<1>2. ASSUME NEW w \in Writers, Locks(w)
      PROVE  HandshakeFirst' /\ WriterHasLock'
  <2>. USE <1>2 DEF Locks
  <2>1. HandshakeFirst'
    OBVIOUS
  <2>2. WriterHasLock'
    OBVIOUS
  <2>. QED  BY <2>1, <2>2
<1>3. ASSUME NEW w \in Writers, Sends(w)
      PROVE  HandshakeFirst' /\ WriterHasLock'
  <2>. USE <1>3 DEF Sends
  <2>1. CASE pc[w] = "header" /\ HasPayload(writing[w])
    BY <2>1
  <2>2. CASE Returns(w, Wrote(w))
    BY <2>2 DEF Returns, Unlocks, Wrote, Nothing
  <2>. QED  BY <2>1, <2>2
<1>4. ASSUME NEW w \in Writers, SendFails(w)
      PROVE  HandshakeFirst' /\ WriterHasLock'
  BY <1>4 DEF SendFails, Returns, Unlocks, Nothing
<1>5. ASSUME NEW w \in Writers, Exits(w)
      PROVE  HandshakeFirst' /\ WriterHasLock'
  BY <1>5 DEF Exits
<1>6. CASE HandshakeEnds
  <2>. USE <1>6 DEF HandshakeEnds
  <2>1. HandshakeFirst'
    OBVIOUS
  <2>2. \A w \in Writers : pc'[w] \notin {"header", "payload"}
    OBVIOUS
  <2>3. ASSUME NEW w \in Writers, pc'[w] = "lock" PROVE writing'[w] # Nothing
    BY <2>3 DEF Nothing
  <2>4. WriterHasLock'
    BY <2>2, <2>3
  <2>. QED  BY <2>1, <2>4
<1>7. CASE StartFails \/ Joins \/ Stop
  BY <1>7 DEF StartFails, Joins, Stop
<1>8. CASE Recv
  BY <1>8 DEF Recv, Listens, Receives, Reacts, Begin, ReceiveFails, Nothing
<1>9. CASE Initiates
  BY <1>9 DEF Initiates, SendsVideo, Pings, Reports, Begin, Nothing
<1>10. CASE TabletReads \/ TabletAnswers \/ UserActs \/ ConnectionDies
  BY <1>10 DEF TabletReads, TabletAnswers, TabletWrites, UserActs,
               ConnectionDies
<1>. QED
  BY <1>1, <1>2, <1>3, <1>4, <1>5, <1>6, <1>7, <1>8, <1>9, <1>10
  DEF SessionNext, DesktopThread, Owner

(* Two writers are never between a header and its payload.                 *)
LEMMA OneInPayload ==
  ASSUME ControlInv, NEW v \in Writers, NEW w \in Writers,
         pc[v] = "payload", pc[w] \in {"header", "payload"}
  PROVE  v = w
BY DEF ControlInv, SessionTypeOK, HandshakeFirst, Handshaking, WriterHasLock,
       Writers

(* A step that touches neither the stream nor anybody between a header and *)
(* its payload.                                                            *)
LEMMA StreamUntouched ==
  ASSUME ControlInv, UNCHANGED <<open, toTablet, header>>,
         \A w \in Writers :
           /\ pc'[w] = "payload" <=> pc[w] = "payload"
           /\ pc[w] = "payload" => writing'[w] = writing[w]
  PROVE  Paired' /\ PayloadNext'
BY DEF ControlInv, Paired, PayloadNext, Awaited

(* Every step keeps headers and payloads together.                         *)
LEMMA NextStream ==
  ControlInv /\ [SessionNext]_sessionVars => Paired' /\ PayloadNext'
<1>. SUFFICES ASSUME ControlInv, [SessionNext]_sessionVars
              PROVE  Paired' /\ PayloadNext'
  OBVIOUS
<1>. USE DEF channelVars, tabletVars, writerVars
<1>1. CASE UNCHANGED sessionVars
  BY <1>1, StreamUntouched DEF sessionVars
<1>2. ASSUME NEW w \in Writers, Locks(w) PROVE Paired' /\ PayloadNext'
  BY <1>2, StreamUntouched DEF Locks, ControlInv, SessionTypeOK
<1>3. ASSUME NEW w \in Writers, Sends(w) PROVE Paired' /\ PayloadNext'
  <2>. USE <1>3 DEF Sends
  <2> DEFINE p == Part(pc[w], writing[w])
  <2>1. /\ writing[w] \in Downward /\ writing[w] # Nothing
        /\ p.part = pc[w] /\ p.message = writing[w]
    BY DEF ControlInv, SessionTypeOK, WriterHasLock, Part
  <2>2. /\ toTablet' = Append(toTablet, p) /\ Len(toTablet) \in Nat
        /\ Len(toTablet') = Len(toTablet) + 1 /\ toTablet'[Len(toTablet) + 1] = p
        /\ \A i \in 1 .. Len(toTablet) : toTablet'[i] = toTablet[i]
        /\ toTablet' # <<>> /\ header' = header /\ open /\ open'
    <3>1. toTablet \in Seq(Parts) /\ p \in Parts
      BY <2>1 DEF ControlInv, SessionTypeOK, Part, Parts
    <3>. QED  BY <3>1, AppendProperties, LenProperties
  <2>3. Follows(Awaited, p)
    <3>1. CASE pc[w] = "payload"
      <4>1. Awaited = writing[w]
        BY <3>1, <2>2, OneInPayload DEF ControlInv, PayloadNext
      <4>. QED  BY <2>1, <3>1, <4>1 DEF Follows
    <3>2. CASE pc[w] = "header"
      <4>1. \A v \in Writers : pc[v] # "payload"
        BY <3>2, OneInPayload
      <4>2. Awaited = Nothing
        BY <2>2, <4>1 DEF ControlInv, PayloadNext
      <4>. QED  BY <2>1, <3>2, <4>2 DEF Follows
    <3>. QED  BY <3>1, <3>2
  <2>4. Paired'
    <3>1. header' # "ping"
      BY <2>2 DEF ControlInv, Paired
    <3>2. Follows(header', toTablet'[1])
      <4>1. CASE toTablet = <<>>
        BY <2>2, <2>3, <4>1 DEF Awaited
      <4>2. CASE toTablet # <<>>
        <5>1. Len(toTablet) >= 1
          BY <4>2, EmptySeq DEF ControlInv, SessionTypeOK
        <5>. QED  BY <2>2, <4>2, <5>1 DEF ControlInv, Paired
      <4>. QED  BY <4>1, <4>2
    <3>3. ASSUME NEW i \in 1 .. Len(toTablet') - 1
          PROVE  Follows(Owed(toTablet'[i]), toTablet'[i + 1])
      <4>1. CASE i = Len(toTablet)
        <5>1. toTablet # <<>>
          BY <2>2, <4>1
        <5>. QED  BY <2>2, <2>3, <4>1, <5>1 DEF Awaited
      <4>2. CASE i # Len(toTablet)
        <5>1. i \in 1 .. Len(toTablet) - 1 /\ i + 1 \in 1 .. Len(toTablet)
          BY <2>2, <4>2
        <5>. QED  BY <2>2, <5>1 DEF ControlInv, Paired
      <4>. QED  BY <4>1, <4>2
    <3>. QED  BY <3>1, <3>2, <3>3 DEF Paired
  <2>5. PayloadNext'
    <3>1. Awaited' = Owed(p)
      BY <2>2 DEF Awaited
    <3>2. CASE pc[w] = "header" /\ HasPayload(writing[w])
      <4>1. pc'[w] = "payload" /\ writing'[w] = writing[w]
        BY <3>2 DEF ControlInv, SessionTypeOK
      <4>2. Owed(p) = writing[w]
        BY <2>1, <3>2 DEF Owed
      <4>. QED  BY <2>2, <3>1, <4>1, <4>2 DEF PayloadNext
    <3>3. CASE ~(pc[w] = "header" /\ HasPayload(writing[w]))
      <4>1. Owed(p) = Nothing
        BY <2>1, <3>3 DEF Owed
      <4>2. \A v \in Writers : pc'[v] # "payload"
        BY <3>3, OneInPayload DEF Returns, Wrote, ControlInv, SessionTypeOK
      <4>. QED  BY <2>2, <3>1, <4>1, <4>2 DEF PayloadNext
    <3>. QED  BY <3>2, <3>3
  <2>. QED  BY <2>4, <2>5
<1>4. ASSUME NEW w \in Writers, SendFails(w) PROVE Paired' /\ PayloadNext'
  BY <1>4 DEF SendFails, ControlInv, Paired, PayloadNext
<1>5. ASSUME NEW w \in Writers, Exits(w) PROVE Paired' /\ PayloadNext'
  BY <1>5, StreamUntouched DEF Exits, ControlInv, SessionTypeOK
<1>6. CASE HandshakeEnds
  <2>1. \A w \in Writers : pc[w] # "payload" /\ pc'[w] # "payload"
    BY <1>6 DEF HandshakeEnds, ControlInv, SessionTypeOK, HandshakeFirst, Handshaking
  <2>. QED  BY <1>6, <2>1, StreamUntouched DEF HandshakeEnds
<1>7. CASE StartFails \/ Stop
  BY <1>7 DEF StartFails, Stop, ControlInv, Paired, PayloadNext
<1>8. CASE Joins
  BY <1>8, StreamUntouched DEF Joins, ControlInv, SessionTypeOK
<1>9. CASE Recv
  BY <1>9, StreamUntouched
  DEF Recv, Listens, Receives, Reacts, Begin, ReceiveFails, ControlInv,
      SessionTypeOK
<1>10. CASE Initiates
  BY <1>10, StreamUntouched
  DEF Initiates, SendsVideo, Pings, Reports, Begin, ControlInv, SessionTypeOK
<1>11. CASE TabletReads
  <2>. USE <1>11 DEF TabletReads
  <2>1. toTablet \in Seq(Parts) /\ toTablet # <<>>
    BY DEF ControlInv, SessionTypeOK
  <2>2. /\ Len(toTablet) \in Nat \ {0} /\ Len(toTablet') = Len(toTablet) - 1
        /\ \A i \in 1 .. Len(toTablet') : toTablet'[i] = toTablet[i + 1]
        /\ Head(toTablet) = toTablet[1] /\ toTablet[1] \in Parts
        /\ toTablet' \in Seq(Parts)
    BY <2>1, HeadTailProperties, EmptySeq, ElementOfSeq
  <2>3. header' = Owed(toTablet[1]) /\ open' = open
    BY <2>2 DEF Owed
  <2>4. Paired'
    <3>1. header' # "ping"
      BY <2>3 DEF Owed, HasPayload, Nothing
    <3>2. ASSUME toTablet' # <<>> PROVE Follows(header', toTablet'[1])
      <4>1. Len(toTablet') >= 1
        BY <2>2, <3>2, EmptySeq
      <4>2. 1 \in 1 .. Len(toTablet) - 1 /\ toTablet'[1] = toTablet[1 + 1]
        BY <2>2, <4>1
      <4>. QED  BY <2>3, <4>2 DEF ControlInv, Paired
    <3>3. ASSUME NEW i \in 1 .. Len(toTablet') - 1
          PROVE  Follows(Owed(toTablet'[i]), toTablet'[i + 1])
      BY <2>2 DEF ControlInv, Paired
    <3>. QED  BY <3>1, <3>2, <3>3 DEF Paired
  <2>5. PayloadNext'
    <3>1. Awaited' = Awaited
      <4>1. CASE toTablet' = <<>>
        <5>1. Len(toTablet') = 0
          BY <4>1, EmptySeq
        <5>2. Len(toTablet) = 1
          BY <2>2, <5>1
        <5>. QED  BY <2>1, <2>3, <4>1, <5>2 DEF Awaited
      <4>2. CASE toTablet' # <<>>
        BY <2>1, <2>2, <4>2, EmptySeq DEF Awaited
      <4>. QED  BY <4>1, <4>2
    <3>. QED  BY <2>1, <3>1 DEF ControlInv, PayloadNext
  <2>. QED  BY <2>4, <2>5
<1>12. CASE TabletAnswers \/ UserActs
  BY <1>12, StreamUntouched DEF TabletAnswers, TabletWrites, UserActs
<1>13. CASE ConnectionDies
  BY <1>13 DEF ConnectionDies, ControlInv, Paired, PayloadNext
<1>. QED
  BY <1>1, <1>2, <1>3, <1>4, <1>5, <1>6, <1>7, <1>8, <1>9, <1>10, <1>11,
     <1>12, <1>13
  DEF SessionNext, DesktopThread, Owner

(* The inductive invariant holds in every reachable state.                 *)
LEMMA ControlInvAlways == SessionSpec => []ControlInv
<1>1. ControlInv /\ [SessionNext]_sessionVars => ControlInv'
  BY NextSessionTypeOK, NextWriters, NextStream DEF ControlInv
<1>. QED  BY InitControlInv, <1>1, PTL DEF SessionSpec

(* The state of the control path always has its types.                     *)
THEOREM ControlTypeCorrect == SessionSpec => []SessionTypeOK
<1>1. ControlInv => SessionTypeOK
  BY DEF ControlInv
<1>. QED  BY <1>1, ControlInvAlways, PTL
-----------------------------------------------------------------------------
(* What is paired in the two buffers is intact in the stream.              *)
LEMMA PairedIsIntact == SessionTypeOK /\ Paired => FramesIntact
<1>. SUFFICES ASSUME SessionTypeOK, Paired PROVE FramesIntact
  OBVIOUS
<1> DEFINE read == IF header = Nothing THEN <<>> ELSE <<Part("header", header)>>
           k == Len(read)
<1>1. /\ toTablet \in Seq(Parts) /\ Len(toTablet) \in Nat
      /\ \A i \in 1 .. Len(toTablet) : toTablet[i] \in Parts
  BY LenProperties, ElementOfSeq DEF SessionTypeOK
<1>2. /\ read \in Seq(Parts) /\ k \in Nat /\ k \in {0, 1}
      /\ header = Nothing => k = 0
      /\ header # Nothing => /\ k = 1 /\ read[1] = Part("header", header)
                            /\ HasPayload(header)
  <2>1. CASE header = Nothing
    BY <2>1, EmptySeq
  <2>2. CASE header # Nothing
    <3>1. Part("header", header) \in Parts
      BY <2>2 DEF SessionTypeOK, Part, Parts
    <3>. QED  BY <2>2, <3>1 DEF Paired, HasPayload
  <2>. QED  BY <2>1, <2>2
<1>3. /\ Stream = read \o toTablet
      /\ Len(Stream) = k + Len(toTablet)
      /\ DOMAIN Stream = 1 .. k + Len(toTablet)
      /\ \A i \in 1 .. k + Len(toTablet) :
           Stream[i] = IF i <= k THEN read[i] ELSE toTablet[i - k]
  <2>1. Stream = read \o toTablet
    BY DEF Stream
  <2>. QED  BY <1>1, <1>2, <2>1, ConcatProperties, LenProperties
<1>. HIDE DEF read, k
<1>4. ASSUME NEW i \in 1 .. k + Len(toTablet) PROVE Stream[i] \in Parts
  BY <1>1, <1>2, <1>3, <1>4, ElementOfSeq
<1>5. ASSUME NEW i \in 1 .. k + Len(toTablet), i > 1
      PROVE  Follows(Owed(Stream[i - 1]), Stream[i])
  <2>1. CASE i - 1 > k
    <3>1. i - 1 - k \in 1 .. Len(toTablet) - 1
      BY <1>1, <1>2, <2>1
    <3>2. /\ i - 1 \in 1 .. k + Len(toTablet) /\ ~(i - 1 <= k) /\ ~(i <= k)
          /\ (i - 1 - k) + 1 = i - k
      BY <1>1, <1>2, <1>5, <2>1
    <3>3. Stream[i - 1] = toTablet[i - 1 - k] /\ Stream[i] = toTablet[(i - 1 - k) + 1]
      BY <1>3, <3>2
    <3>. QED  BY <3>1, <3>3 DEF Paired
  <2>2. CASE i - 1 <= k
    <3>1. k = 1 /\ i = 2 /\ header # Nothing /\ Len(toTablet) >= 1
      BY <1>1, <1>2, <1>5, <2>2
    <3>2. Stream[i - 1] = Part("header", header) /\ Stream[i] = toTablet[1]
      BY <1>1, <1>2, <1>3, <3>1
    <3>3. Owed(Stream[i - 1]) = header /\ toTablet # <<>>
      BY <1>2, <3>1, <3>2, EmptySeq DEF Owed, Part
    <3>. QED  BY <3>2, <3>3 DEF Paired
  <2>. QED  BY <1>1, <1>2, <2>1, <2>2
<1>6. ASSUME k + Len(toTablet) >= 1 PROVE Stream[1].part = "header"
  <2>1. CASE k = 1
    BY <1>2, <1>3, <1>6, <2>1 DEF Part
  <2>2. CASE k = 0
    <3>1. header = Nothing /\ toTablet # <<>> /\ Stream[1] = toTablet[1]
      BY <1>1, <1>2, <1>3, <1>6, <2>2, EmptySeq
    <3>. QED  BY <3>1 DEF Paired, Follows
  <2>. QED  BY <1>2, <2>1, <2>2
<1>7. ASSUME NEW i \in DOMAIN Stream, Stream[i].part = "payload"
      PROVE  i > 1 /\ Stream[i - 1] = Part("header", Stream[i].message)
  <2>1. i \in 1 .. k + Len(toTablet) /\ i > 1
    BY <1>1, <1>2, <1>3, <1>6, <1>7
  <2>2. Stream[i - 1] \in Parts /\ Owed(Stream[i - 1]) # Nothing
    BY <1>1, <1>2, <1>4, <1>5, <1>7, <2>1 DEF Follows
  <2>3. /\ Stream[i - 1] = Part("header", Stream[i - 1].message)
        /\ Owed(Stream[i - 1]) = Stream[i - 1].message
    BY <2>2 DEF Owed, Part, Parts
  <2>4. Follows(Owed(Stream[i - 1]), Stream[i])
    BY <1>5, <2>1
  <2>5. Stream[i].message = Owed(Stream[i - 1])
    BY <2>2, <2>4 DEF Follows, Part
  <2>. QED  BY <2>1, <2>3, <2>5
<1>8. ASSUME NEW i \in DOMAIN Stream, Stream[i].part # "payload",
             HasPayload(Stream[i].message), i < Len(Stream)
      PROVE  Stream[i + 1] = Part("payload", Stream[i].message)
  <2>1. Stream[i] \in Parts /\ Stream[i].part = "header"
    BY <1>3, <1>4, <1>8 DEF Parts
  <2>2. Owed(Stream[i]) = Stream[i].message /\ Owed(Stream[i]) # Nothing
    BY <1>8, <2>1 DEF Owed, Parts, Downward, Nothing
  <2>3. i \in 1 .. k + Len(toTablet) /\ i < k + Len(toTablet)
    BY <1>3, <1>8
  <2>4. i + 1 \in 1 .. k + Len(toTablet) /\ i + 1 > 1 /\ (i + 1) - 1 = i
    BY <1>1, <1>2, <2>3
  <2>5. Follows(Owed(Stream[i]), Stream[i + 1])
    BY <1>5, <2>4
  <2>. QED  BY <2>2, <2>5 DEF Follows
<1>. QED  BY <1>7, <1>8 DEF FramesIntact

(* "Prevents interleaved header+payload from different threads"            *)
(* (pipeline.h:117): whatever the five writers, the tablet and the         *)
(* connection do, the tablet reads whole messages.                         *)
THEOREM FramesStayIntact == SessionSpec => []FramesIntact
<1>1. ControlInv => FramesIntact
  BY PairedIsIntact DEF ControlInv
<1>. QED  BY <1>1, ControlInvAlways, PTL
-----------------------------------------------------------------------------
(* The way of a pointer event: types.                                      *)

Flags == {"range", "contact"} \cup Edges
Acts == {"hover", "down", "move", "up", "cancel", "leave", "button"}
Buttons == SUBSET {"L", "R"}

Slots == [1..MaxContacts -> [id : Pointers \cup {None}, flags : SUBSET Flags]]

PointerMessages == [kind : {"touch", "pen"}, act : Acts, id : Pointers, btn : {{}}]
CancelMessages == [kind : {"touch", "pen"}, act : {"cancelAll"}, id : {None}, btn : {{}}]
MouseMessages == [kind : {"mouse"}, act : Acts, id : Pointers \cup {None}, btn : Buttons]
Messages == PointerMessages \cup CancelMessages \cup MouseMessages

TabletTypeOK ==
  /\ mode \in Modes
  /\ down \subseteq Pointers
  /\ hovering \in BOOLEAN /\ barrel \in BOOLEAN /\ deckShown \in BOOLEAN
  /\ active \in Pointers \cup {None}
  /\ wire \in Seq(Messages)

DesktopTypeOK ==
  /\ phase \in {"up", "touch", "join", "mouse", "down"}
  /\ slots \in Slots
  /\ penFlags \subseteq Flags /\ penDevice \in BOOLEAN
  /\ buttons \in Buttons
  /\ repeater \in {"wait", "timed", "done"}
  /\ poked \in BOOLEAN /\ stopRepeat \in BOOLEAN
  /\ os \in [touch : SUBSET Pointers, pen : BOOLEAN, buttons : Buttons]
  /\ rejects \in 0..MaxRejects
  /\ orphaned \in BOOLEAN

TypeOK == TabletTypeOK /\ DesktopTypeOK
-----------------------------------------------------------------------------
(* The touch injector, seen from Windows: which pointers have a live slot, *)
(* and which of them are in contact.                                       *)

Ids(s) == {s[i].id : i \in Live(s)}
Contacts(s) == {s[i].id : i \in {j \in Live(s) : "contact" \in s[j].flags}}
OneSlotEach(s) == \A i, j \in Live(s) : s[i].id = s[j].id => i = j
NoEdges(s) == \A i \in 1..MaxContacts : s[i].flags \cap Edges = {}

(* The repeat thread, and what the steps of a teardown have achieved.      *)
Session ==
  /\ stopRepeat <=> phase = "join"
  /\ repeater = NoThread => phase \in {"join", "mouse", "down"}
  /\ phase # "up" => wire = <<>>
  /\ phase \in {"mouse", "down"} =>
       /\ repeater = NoThread
       /\ os.touch = {} /\ ~os.pen
  /\ phase = "down" => buttons = {}
  /\ ~orphaned => os.buttons = buttons
  /\ ~penDevice => penFlags = {} /\ ~os.pen

(* While nothing was rejected, Windows holds what the injectors believe    *)
(* it holds, and the frames to be repeated have no edges.                  *)
Match ==
  phase \in {"up", "touch", "join"} /\ rejects = 0 =>
    /\ os.touch = Contacts(slots) /\ NoEdges(slots)
    /\ os.pen = ("contact" \in penFlags) /\ penFlags \cap Edges = {}

InjectorInv ==
  /\ OneSlotEach(slots)
  /\ Session
  /\ HeldIsRepeated
  /\ Match
-----------------------------------------------------------------------------
(* The messages on the wire that press or lift a contact, the pen or the   *)
(* buttons of the mouse.                                                   *)

TouchPresses(p) == {m \in Messages : m.kind = "touch" /\ m.id = p /\ m.act \in {"down", "move"}}
TouchLifts(p) == {m \in Messages : /\ m.kind = "touch"
                                   /\ \/ m.act = "cancelAll"
                                      \/ m.id = p /\ m.act \notin {"down", "move", "button"}}
PenPresses == {m \in Messages : m.kind = "pen" /\ m.act \in {"down", "move"}}
PenLifts == {m \in Messages : m.kind = "pen" /\ m.act \notin {"down", "move", "button"}}

Desired(m) == IF m.act \in {"up", "cancel", "leave"} THEN {} ELSE m.btn
MousePresses == {m \in Messages : m.kind = "mouse" /\ Desired(m) # {}}
MouseLifts == {m \in Messages : m.kind = "mouse" /\ Desired(m) = {}}

(* What is held is lifted by a message of w, and so is what w presses.     *)
Settled(w, held, presses, lifts) ==
  /\ held => \E j \in DOMAIN w : w[j] \in lifts
  /\ \A k \in DOMAIN w : w[k] \in presses => \E j \in DOMAIN w : j > k /\ w[j] \in lifts

(* A pointer drives the mouse, or the button of a hovering stylus does.    *)
MouseHeld ==
  active \in down \/ (barrel /\ mode.stylus = "mouse" /\ active \in {None, Stylus})

(* Every message is for the device its pointer drives.                     *)
Routed ==
  /\ active # None => Target(active) = "mouse"
  /\ \A k \in DOMAIN wire :
       wire[k] \in PointerMessages => Target(wire[k].id) = wire[k].kind
  /\ os.touch \subseteq {p \in Pointers : Target(p) = "touch"}
  /\ Ids(slots) \subseteq {p \in Pointers : Target(p) = "touch"}
  /\ os.pen \/ penFlags # {} => mode.stylus = "pen"

(* Whatever is pressed, and is not pressed by a pointer on the tablet, is  *)
(* lifted by a message that is on its way.                                 *)
WireSettles ==
  phase = "up" /\ ~orphaned /\ rejects = 0 =>
    /\ \A p \in Pointers \ down :
         Settled(wire, p \in os.touch, TouchPresses(p), TouchLifts(p))
    /\ Stylus \notin down => Settled(wire, os.pen, PenPresses, PenLifts)
    /\ ~MouseHeld => Settled(wire, buttons # {}, MousePresses, MouseLifts)

(* The inductive invariant.                                                *)
IInv == TypeOK /\ InjectorInv /\ Routed /\ WireSettles
-----------------------------------------------------------------------------
(* Compaction: the k-th live slot.                                         *)

(* The number of slots is positive, and no pointer is None.                *)
LEMMA Sizes ==
  /\ MaxContacts \in Nat \ {0} /\ MaxRejects \in Nat
  /\ None \notin Pointers /\ Stylus \in Pointers
BY InputAssumption DEF Pointers

(* How many elements of a set of numbers are at most i.                    *)
Rank(S, i) == Cardinality({j \in S : j <= i})

(* The ranks of n numbers are numbers from 1 to n.                         *)
LEMMA RankType ==
  ASSUME NEW M \in Nat, NEW S \in SUBSET (1..M), NEW i \in S
  PROVE  Rank(S, i) \in 1..Cardinality(S) /\ Cardinality(S) <= M
<1>1. IsFiniteSet(1..M) /\ Cardinality(1..M) = M
  BY FS_Interval
<1>2. IsFiniteSet(S) /\ Cardinality(S) <= M
  BY <1>1, FS_Subset
<1>. DEFINE T == {j \in S : j <= i}
<1>3. IsFiniteSet(T) /\ Cardinality(T) <= Cardinality(S)
  BY <1>2, FS_Subset
<1>4. T # {}
  OBVIOUS
<1>. HIDE DEF T
<1>5. Cardinality(T) # 0
  BY <1>3, <1>4, FS_EmptySet
<1>6. Cardinality(T) \in Nat /\ Cardinality(S) \in Nat
  BY <1>2, <1>3, FS_CardinalityType
<1>. QED  BY <1>2, <1>3, <1>5, <1>6 DEF Rank, T

(* Different elements of a set of numbers have different ranks.            *)
LEMMA RankRises ==
  ASSUME NEW M \in Nat, NEW S \in SUBSET (1..M), NEW i \in S, NEW j \in S, i < j
  PROVE  Rank(S, i) < Rank(S, j)
<1>. DEFINE T == {k \in S : k <= i}
            U == {k \in S : k <= j}
<1>0. IsFiniteSet(1..M)
  BY FS_Interval
<1>5. \A k \in S : k \in 1..M
  OBVIOUS
<1>6. \A k \in S : k <= i => k <= j
  BY <1>5
<1>1. IsFiniteSet(S)
  BY <1>0, FS_Subset
<1>2. IsFiniteSet(U)
  BY <1>1, FS_Subset
<1>3. T \in SUBSET U /\ j \in U /\ j \notin T
  <2>1. \A k \in T : k \in U
    BY <1>6
  <2>2. j \in U /\ j \notin T
    BY <1>5
  <2>. QED  BY <2>1, <2>2
<1>. HIDE DEF T, U
<1>4. IsFiniteSet(T) /\ Cardinality(T) <= Cardinality(U)
      /\ Cardinality(T) # Cardinality(U)
  BY <1>2, <1>3, FS_Subset
<1>7. Cardinality(T) \in Nat /\ Cardinality(U) \in Nat
  BY <1>2, <1>4, FS_CardinalityType
<1>. QED  BY <1>4, <1>7 DEF Rank, T, U

(* The k-th element is the one of rank k.                                  *)
LEMMA NthIs ==
  ASSUME NEW M \in Nat, NEW S \in SUBSET (1..M), NEW k \in 1..Cardinality(S)
  PROVE  Nth(S, k) \in S /\ Rank(S, Nth(S, k)) = k
<1>. DEFINE f == [i \in S |-> Rank(S, i)]
            n == Cardinality(S)
<1>0. IsFiniteSet(1..M)
  BY FS_Interval
<1>1. IsFiniteSet(S) /\ n \in Nat
  BY <1>0, FS_Subset, FS_CardinalityType
<1>2. f \in [S -> 1..n]
  BY RankType
<1>3. \A i, j \in S : f[i] = f[j] => i = j
  <2>. SUFFICES ASSUME NEW i \in S, NEW j \in S, i # j PROVE f[i] # f[j]
    OBVIOUS
  <2>1. Rank(S, i) \in 1..n /\ Rank(S, j) \in 1..n
    BY RankType
  <2>2. i < j => Rank(S, i) < Rank(S, j)
    BY RankRises
  <2>3. j < i => Rank(S, j) < Rank(S, i)
    BY RankRises
  <2>4. i \in Int /\ j \in Int
    OBVIOUS
  <2>. QED  BY <1>1, <2>1, <2>2, <2>3, <2>4
<1>4. IsFiniteSet(1..n) /\ Cardinality(1..n) = n
  BY <1>1, FS_Interval
<1>5. f \in Injection(S, 1..n)
  BY <1>2, <1>3 DEF Injection, IsInjective
<1>. HIDE DEF f
<1>6. f \in Surjection(S, 1..n)
  BY <1>4, <1>5, FS_Injection
<1>7. \E i \in S : f[i] = k
  BY <1>6 DEF Surjection
<1>8. \E i \in S : Cardinality({j \in S : j <= i}) = k
  BY <1>7 DEF f, Rank
<1>. QED  BY <1>8 DEF Nth, Rank

(* Every element is the one of its rank.                                   *)
LEMMA NthOfRank ==
  ASSUME NEW M \in Nat, NEW S \in SUBSET (1..M), NEW i \in S
  PROVE  Nth(S, Rank(S, i)) = i
<1>. DEFINE k == Rank(S, i)
<1>1. k \in 1..Cardinality(S)
  BY RankType
<1>. HIDE DEF k
<1>2. Nth(S, k) \in S /\ Rank(S, Nth(S, k)) = k
  BY <1>1, NthIs
<1>0. \A l \in S : l \in 1..M
  OBVIOUS
<1>5. i \in 1..M /\ Nth(S, k) \in 1..M
  BY <1>0, <1>2
<1>3. CASE Nth(S, k) < i
  <2>1. Rank(S, Nth(S, k)) < Rank(S, i)
    BY <1>2, <1>3, RankRises
  <2>. QED  BY <1>1, <1>2, <2>1 DEF k
<1>4. CASE i < Nth(S, k)
  <2>1. Rank(S, i) < Rank(S, Nth(S, k))
    BY <1>2, <1>4, RankRises
  <2>. QED  BY <1>1, <1>2, <2>1 DEF k
<1>. QED  BY <1>2, <1>3, <1>4, <1>5 DEF k

(* In 1..n every number is the one of its own rank.                        *)
LEMMA NthInterval ==
  ASSUME NEW n \in Nat, NEW k \in 1..n
  PROVE  Nth(1..n, k) = k /\ Cardinality(1..n) = n
<1>1. {j \in 1..n : j <= k} = 1..k
  OBVIOUS
<1>4. k \in Nat \ {0} /\ Cardinality(1..k) = k
  BY FS_Interval
<1>2. Rank(1..n, k) = k
  BY <1>1, <1>4 DEF Rank
<1>3. Nth(1..n, Rank(1..n, k)) = k
  BY NthOfRank
<1>. QED  BY <1>2, <1>3, FS_Interval
-----------------------------------------------------------------------------
(* What compaction leaves as it was.                                       *)

LiveCount(s) == Cardinality(Live(s))

(* The slots from n on are free, and those before them are live.           *)
Packed(s, n) ==
  /\ n \in 0..MaxContacts /\ Live(s) = 1..n
  /\ \A k \in 1..MaxContacts : k > n => s[k] = FreeSlot

(* The live slots are slots.                                               *)
LEMMA LiveIs ==
  ASSUME NEW s \in Slots
  PROVE  Live(s) \in SUBSET (1..MaxContacts) /\ LiveCount(s) \in 0..MaxContacts
<1>1. Live(s) \in SUBSET (1..MaxContacts)
  BY DEF Live
<1>2. IsFiniteSet(1..MaxContacts) /\ Cardinality(1..MaxContacts) = MaxContacts
  BY Sizes, FS_Interval
<1>3. IsFiniteSet(Live(s)) /\ Cardinality(Live(s)) <= MaxContacts
  BY <1>1, <1>2, FS_Subset
<1>4. Cardinality(Live(s)) \in Nat
  BY <1>3, FS_CardinalityType
<1>. QED  BY <1>1, <1>3, <1>4, Sizes DEF LiveCount

(* A slot of the compacted slots is a live slot of the slots, or free.     *)
LEMMA CompactedIs ==
  ASSUME NEW s \in Slots
  PROVE  /\ Compacted(s) \in Slots
         /\ Packed(Compacted(s), LiveCount(s))
         /\ \A k \in 1..LiveCount(s) : Compacted(s)[k] = s[Nth(Live(s), k)]
<1>. DEFINE n == LiveCount(s)
            c == Compacted(s)
<1>1. Live(s) \in SUBSET (1..MaxContacts) /\ n \in 0..MaxContacts
  BY LiveIs
<1>2. MaxContacts \in Nat
  BY Sizes
<1>3. \A k \in 1..n : Nth(Live(s), k) \in Live(s)
  BY <1>1, <1>2, NthIs DEF LiveCount
<1>4. c = [k \in 1..MaxContacts |->
             IF k <= n THEN s[Nth(Live(s), k)] ELSE FreeSlot]
  BY DEF Compacted, LiveCount
<1>. HIDE DEF n, c
<1>5. \A k \in 1..n : k \in 1..MaxContacts /\ c[k] = s[Nth(Live(s), k)]
  BY <1>1, <1>2, <1>4
<1>6. \A k \in 1..MaxContacts : k > n => c[k] = FreeSlot
  BY <1>1, <1>4
<1>7. \A k \in 1..n : c[k].flags # {}
  BY <1>3, <1>5 DEF Live
<1>8. FreeSlot \in [id : Pointers \cup {None}, flags : SUBSET Flags]
      /\ FreeSlot.flags = {}
  BY DEF FreeSlot
<1>9. Live(c) = 1..n
  <2>1. \A k \in 1..MaxContacts : k <= n \/ k > n
    BY <1>1
  <2>2. \A k \in 1..MaxContacts : c[k].flags # {} <=> k \in 1..n
    BY <1>1, <1>6, <1>7, <1>8, <2>1
  <2>. QED  BY <2>2, <1>5 DEF Live
<1>10. c \in Slots
  <2>1. \A k \in 1..MaxContacts : (IF k <= n THEN s[Nth(Live(s), k)] ELSE FreeSlot)
          \in [id : Pointers \cup {None}, flags : SUBSET Flags]
    <3>. SUFFICES ASSUME NEW k \in 1..MaxContacts
                  PROVE  (IF k <= n THEN s[Nth(Live(s), k)] ELSE FreeSlot)
                           \in [id : Pointers \cup {None}, flags : SUBSET Flags]
      OBVIOUS
    <3>1. CASE k <= n
      <4>1. Nth(Live(s), k) \in 1..MaxContacts
        BY <1>1, <1>3, <3>1
      <4>. QED  BY <3>1, <4>1 DEF Slots
    <3>2. CASE ~(k <= n)
      BY <3>2, <1>8
    <3>. QED  BY <3>1, <3>2
  <2>. QED  BY <1>4, <2>1 DEF Slots
<1>. QED  BY <1>1, <1>5, <1>6, <1>9, <1>10 DEF Packed, n, c

(* Every live slot is in the compacted slots, once.                        *)
LEMMA CompactedHas ==
  ASSUME NEW s \in Slots, NEW i \in Live(s)
  PROVE  \E k \in Live(Compacted(s)) :
           Compacted(s)[k] = s[i] /\ Nth(Live(s), k) = i
<1>. DEFINE k == Rank(Live(s), i)
<1>1. Live(s) \in SUBSET (1..MaxContacts) /\ MaxContacts \in Nat
  BY LiveIs, Sizes
<1>2. k \in 1..LiveCount(s)
  BY <1>1, RankType DEF LiveCount
<1>3. Nth(Live(s), k) = i
  BY <1>1, NthOfRank
<1>. HIDE DEF k
<1>4. k \in Live(Compacted(s)) /\ Compacted(s)[k] = s[i]
  BY <1>2, <1>3, CompactedIs DEF Packed
<1>. QED  BY <1>3, <1>4

(* Compaction changes nothing that Windows sees.                           *)
LEMMA CompactedKeeps ==
  ASSUME NEW s \in Slots
  PROVE  /\ Ids(Compacted(s)) = Ids(s)
         /\ Contacts(Compacted(s)) = Contacts(s)
         /\ OneSlotEach(s) => OneSlotEach(Compacted(s))
         /\ NoEdges(s) => NoEdges(Compacted(s))
<1>. DEFINE c == Compacted(s)
            n == LiveCount(s)
<1>1. Live(s) \in SUBSET (1..MaxContacts) /\ n \in 0..MaxContacts /\ MaxContacts \in Nat
  BY LiveIs, Sizes
<1>2. /\ Live(c) = 1..n
      /\ \A k \in 1..n : c[k] = s[Nth(Live(s), k)]
      /\ \A k \in 1..MaxContacts : k > n => c[k] = FreeSlot
  BY CompactedIs DEF Packed
<1>3. \A k \in 1..n : Nth(Live(s), k) \in Live(s) /\ Rank(Live(s), Nth(Live(s), k)) = k
  BY <1>1, NthIs DEF LiveCount
<1>4. \A i \in Live(s) : \E k \in Live(c) : c[k] = s[i] /\ Nth(Live(s), k) = i
  BY CompactedHas
<1>. HIDE DEF c, n
<1>5. \A k \in Live(c) : \E i \in Live(s) : c[k] = s[i]
  BY <1>2, <1>3
<1>6. Ids(c) = Ids(s) /\ Contacts(c) = Contacts(s)
  BY <1>4, <1>5 DEF Ids, Contacts
<1>7. OneSlotEach(s) => OneSlotEach(c)
  <2>. SUFFICES ASSUME OneSlotEach(s), NEW k \in Live(c), NEW l \in Live(c),
                       c[k].id = c[l].id
                PROVE  k = l
    BY DEF OneSlotEach
  <2>1. Nth(Live(s), k) = Nth(Live(s), l)
    BY <1>2, <1>3 DEF OneSlotEach
  <2>. QED  BY <1>2, <1>3, <2>1
<1>8. NoEdges(s) => NoEdges(c)
  <2>. SUFFICES ASSUME NoEdges(s), NEW k \in 1..MaxContacts
                PROVE  c[k].flags \cap Edges = {}
    BY DEF NoEdges
  <2>1. CASE k <= n
    BY <1>1, <1>2, <1>3, <2>1 DEF NoEdges
  <2>2. CASE k > n
    BY <1>2, <2>2 DEF FreeSlot
  <2>. QED  BY <1>1, <2>1, <2>2
<1>. QED  BY <1>6, <1>7, <1>8 DEF c

(* Packed slots are compacted already.                                     *)
LEMMA CompactedPacked ==
  ASSUME NEW s \in Slots, NEW n, Packed(s, n)
  PROVE  Compacted(s) = s
<1>1. n \in Nat /\ n \in 0..MaxContacts /\ Live(s) = 1..n
  BY Sizes DEF Packed
<1>2. LiveCount(s) = n
  BY <1>1, FS_Interval DEF LiveCount
<1>3. \A k \in 1..n : Nth(Live(s), k) = k
  BY <1>1, NthInterval
<1>4. \A k \in 1..MaxContacts : s[k] = IF k <= n THEN s[Nth(Live(s), k)] ELSE FreeSlot
  BY <1>1, <1>3 DEF Packed
<1>5. Compacted(s) = [k \in 1..MaxContacts |->
                        IF k <= n THEN s[Nth(Live(s), k)] ELSE FreeSlot]
  BY <1>2 DEF Compacted, LiveCount
<1>6. s = [k \in 1..MaxContacts |-> s[k]]
  BY DEF Slots
<1>. QED  BY <1>4, <1>5, <1>6
-----------------------------------------------------------------------------
(* A slot that is given a pointer and populated.                           *)

(* What populate_common_pointer_info does to the flags: only down and move *)
(* make a contact, and only the button of a free slot leaves it free.      *)
LEMMA PopulateIs ==
  ASSUME NEW f \in SUBSET Flags, NEW act \in Acts
  PROVE  /\ Populate(f, act) \in SUBSET Flags
         /\ "contact" \in Populate(f, act)
              <=> act \in {"down", "move"} \/ (act = "button" /\ "contact" \in f)
         /\ Populate(f, act) = {} <=> act = "button" /\ f = {}
<1>1. CASE act = "hover"
  BY <1>1 DEF Populate, Flags, Edges
<1>2. CASE act = "down"
  BY <1>2 DEF Populate, Flags, Edges
<1>3. CASE act = "move"
  BY <1>3 DEF Populate, Flags, Edges
<1>4. CASE act = "up"
  BY <1>4 DEF Populate, Flags, Edges
<1>5. CASE act = "cancel"
  BY <1>5 DEF Populate, Flags, Edges
<1>6. CASE act = "leave"
  BY <1>6 DEF Populate, Flags, Edges
<1>7. CASE act = "button"
  BY <1>7 DEF Populate, Flags, Edges
<1>. QED  BY <1>1, <1>2, <1>3, <1>4, <1>5, <1>6, <1>7 DEF Acts

(* The slot of a pointer is its own, or the one behind the live slots.     *)
LEMMA SlotForIs ==
  ASSUME NEW s \in Slots, NEW n, Packed(s, n), NEW p, SlotFor(s, p) # 0
  PROVE  LET i == SlotFor(s, p)
         IN  /\ i \in 1..MaxContacts
             /\ \/ i \in Live(s) /\ s[i].id = p
                \/ i = n + 1 /\ i \notin Live(s) /\ s[i] = FreeSlot /\ p \notin Ids(s)
<1>. DEFINE own == {i \in Live(s) : s[i].id = p}
            free == (1..MaxContacts) \ Live(s)
            i == SlotFor(s, p)
<1>1. n \in 0..MaxContacts /\ Live(s) = 1..n /\ MaxContacts \in Nat \ {0}
  BY Sizes DEF Packed
<1>2. CASE own # {}
  <2>1. i \in own
    BY <1>2 DEF SlotFor
  <2>. QED  BY <1>1, <2>1
<1>3. CASE own = {} /\ free # {}
  <2>1. i = CHOOSE k \in free : \A j \in free : k <= j
    BY <1>3 DEF SlotFor
  <2>2. n < MaxContacts
    BY <1>1, <1>3
  <2>3. n + 1 \in free /\ \A j \in free : n + 1 <= j
    BY <1>1, <2>2
  <2>. HIDE DEF free
  <2>4. i \in free /\ \A j \in free : i <= j
    BY <2>1, <2>3, Zenon
  <2>5. i <= n + 1 /\ n + 1 <= i
    BY <2>3, <2>4
  <2>6. i = n + 1 /\ i \in 1..MaxContacts /\ i \notin Live(s)
    BY <1>1, <2>2, <2>4, <2>5 DEF free
  <2>7. s[i] = FreeSlot
    BY <1>1, <2>6 DEF Packed
  <2>8. p \notin Ids(s)
    BY <1>3 DEF Ids
  <2>. QED  BY <2>6, <2>7, <2>8
<1>4. CASE own = {} /\ free = {}
  BY <1>4 DEF SlotFor
<1>. QED  BY <1>2, <1>3, <1>4

NamedAt(s, i, p) == IF i \in Live(s) THEN s ELSE [s EXCEPT ![i] = [id |-> p, flags |-> {}]]
PosedAt(s, i, p, act) == Compacted([NamedAt(s, i, p) EXCEPT ![i].flags = Populate(@, act)])

(* Populating a slot changes that slot only, and moves none.               *)
LEMMA PosedIs ==
  ASSUME NEW s \in Slots, NEW n, Packed(s, n), NEW p \in Pointers, NEW act \in Acts,
         NEW i, i = SlotFor(s, p), i # 0
  PROVE  LET posed == PosedAt(s, i, p, act)
             f == IF i \in Live(s) THEN s[i].flags ELSE {}
         IN  /\ i \in 1..MaxContacts /\ posed \in Slots
             /\ posed[i].flags = Populate(f, act)
             /\ posed[i].flags # {} => posed[i].id = p
             /\ \A k \in 1..MaxContacts : k # i => posed[k] = s[k]
<1>. DEFINE Slot == [id : Pointers \cup {None}, flags : SUBSET Flags]
            f == IF i \in Live(s) THEN s[i].flags ELSE {}
            g == Populate(f, act)
            t == [s EXCEPT ![i] = [id |-> p, flags |-> g]]
            posed == PosedAt(s, i, p, act)
<1>1. n \in 0..MaxContacts /\ Live(s) = 1..n /\ MaxContacts \in Nat \ {0}
  BY Sizes DEF Packed
<1>2. /\ i \in 1..MaxContacts
      /\ \/ i \in Live(s) /\ s[i].id = p
         \/ i = n + 1 /\ i \notin Live(s) /\ s[i] = FreeSlot
  BY SlotForIs
<1>3. f \in SUBSET Flags /\ s[i] \in Slot
  BY <1>2 DEF Slots
<1>4. g \in SUBSET Flags
  BY <1>3, PopulateIs
<1>. HIDE DEF f, g
<1>5. t \in Slots
  BY <1>2, <1>4 DEF Slots
<1>6. [NamedAt(s, i, p) EXCEPT ![i].flags = Populate(@, act)] = t
  <2>1. CASE i \in Live(s)
    <3>1. s[i] = [id |-> p, flags |-> f]
      BY <1>2, <1>3, <2>1 DEF f
    <3>2. [s[i] EXCEPT !.flags = Populate(@, act)] = [id |-> p, flags |-> g]
      BY <3>1 DEF g
    <3>. QED  BY <2>1, <3>2 DEF NamedAt
  <2>2. CASE i \notin Live(s)
    <3>1. NamedAt(s, i, p) = [s EXCEPT ![i] = [id |-> p, flags |-> {}]]
      BY <2>2 DEF NamedAt
    <3>2. g = Populate({}, act)
      BY <2>2 DEF f, g
    <3>3. NamedAt(s, i, p)[i] = [id |-> p, flags |-> {}]
      BY <1>2, <3>1 DEF Slots
    <3>4. [NamedAt(s, i, p)[i] EXCEPT !.flags = Populate(@, act)] = [id |-> p, flags |-> g]
      BY <3>2, <3>3
    <3>5. [NamedAt(s, i, p) EXCEPT ![i] = [id |-> p, flags |-> g]] = t
      BY <1>2, <3>1 DEF Slots
    <3>. QED  BY <3>4, <3>5
  <2>. QED  BY <2>1, <2>2
<1>10. t[i] = [id |-> p, flags |-> g] /\ \A k \in 1..MaxContacts : k # i => t[k] = s[k]
  BY <1>2 DEF Slots
<1>7. posed = Compacted(t)
  BY <1>6 DEF PosedAt
<1>. HIDE DEF t, posed
<1>8. ASSUME g # {} PROVE posed = t
  <2>1. Live(t) = Live(s) \cup {i}
    BY <1>2, <1>8, <1>10 DEF Live
  <2>2. Packed(t, IF i \in Live(s) THEN n ELSE n + 1)
    <3>1. CASE i \in Live(s)
      <4>1. Live(t) = 1..n
        BY <1>1, <2>1, <3>1
      <4>2. \A k \in 1..MaxContacts : k > n => k # i
        BY <1>1, <3>1
      <4>3. \A k \in 1..MaxContacts : k > n => t[k] = FreeSlot
        BY <1>10, <4>2 DEF Packed
      <4>. QED  BY <1>1, <3>1, <4>1, <4>3 DEF Packed
    <3>2. CASE i \notin Live(s)
      <4>1. i = n + 1 /\ n + 1 \in 0..MaxContacts
        BY <1>1, <1>2, <3>2
      <4>2. Live(t) = 1..(n + 1)
        <5>1. 1..(n + 1) = (1..n) \cup {n + 1}
          BY <1>1
        <5>. QED  BY <1>1, <2>1, <4>1, <5>1
      <4>3. \A k \in 1..MaxContacts : k > n + 1 => t[k] = FreeSlot
        BY <1>1, <1>10, <4>1 DEF Packed
      <4>. QED  BY <3>2, <4>1, <4>2, <4>3 DEF Packed
    <3>. QED  BY <3>1, <3>2
  <2>. QED  BY <1>5, <1>7, <2>2, CompactedPacked
<1>9. ASSUME g = {} PROVE posed = s /\ posed[i].flags = g
  <2>1. i \notin Live(s)
    BY <1>2, <1>3, <1>9, PopulateIs DEF f, g, Live
  <2>2. Live(t) = Live(s)
    BY <1>2, <1>9, <1>10, <2>1 DEF Live
  <2>3. s[i] = FreeSlot
    BY <1>2, <2>1
  <2>4. \A k \in 1..n : k # i /\ t[k] = s[k]
    BY <1>1, <1>10, <2>1
  <2>5. Compacted(t) = s
    <3>1. LiveCount(t) = n
      BY <1>1, <2>2, FS_Interval DEF LiveCount
    <3>2. \A k \in 1..n : Nth(Live(t), k) = k
      BY <1>1, <2>2, NthInterval
    <3>3. /\ Compacted(t) \in Slots
          /\ \A k \in 1..n : Compacted(t)[k] = t[Nth(Live(t), k)]
          /\ Packed(Compacted(t), n)
      BY <1>5, <3>1, CompactedIs
    <3>4. \A k \in 1..n : Compacted(t)[k] = s[k]
      BY <2>4, <3>2, <3>3
    <3>5. \A k \in 1..MaxContacts : k > n => Compacted(t)[k] = s[k]
      BY <3>3 DEF Packed
    <3>6. \A k \in 1..MaxContacts : Compacted(t)[k] = s[k]
      BY <1>1, <3>4, <3>5
    <3>7. /\ s = [k \in 1..MaxContacts |-> s[k]]
          /\ Compacted(t) = [k \in 1..MaxContacts |-> Compacted(t)[k]]
      BY <3>3 DEF Slots
    <3>. QED  BY <3>6, <3>7
  <2>. QED  BY <1>7, <1>9, <2>3, <2>5 DEF FreeSlot
<1>11. /\ posed \in Slots /\ posed[i].flags = g
       /\ posed[i].flags # {} => posed[i].id = p
       /\ \A k \in 1..MaxContacts : k # i => posed[k] = s[k]
  <2>1. CASE g # {}
    <3>1. posed = t
      BY <1>8, <2>1
    <3>. QED  BY <1>5, <1>10, <3>1
  <2>2. CASE g = {}
    BY <1>9, <2>2
  <2>. QED  BY <2>1, <2>2
<1>. QED  BY <1>2, <1>11 DEF f, g, posed
-----------------------------------------------------------------------------
(* What a frame does to what Windows sees.                                 *)

(* A contact has a slot.                                                   *)
LEMMA ContactsHaveIds == ASSUME NEW s PROVE Contacts(s) \subseteq Ids(s)
BY DEF Contacts, Ids

(* Once the frame is accepted, Windows holds its contacts, and what it held*)
(* of pointers that have no slot.                                          *)
LEMMA FrameIs ==
  ASSUME NEW s, NEW pressed
  PROVE  /\ AfterTouchFrame(pressed, s) = (pressed \ Ids(s)) \cup Contacts(s)
         /\ pressed \subseteq Ids(s) => AfterTouchFrame(pressed, s) = Contacts(s)
<1>1. AfterTouchFrame(pressed, s) = (pressed \ Ids(s)) \cup Contacts(s)
  BY DEF AfterTouchFrame, Ids, Contacts
<1>. QED  BY <1>1

(* A populated slot changes the contact of its pointer only.               *)
LEMMA PosedContacts ==
  ASSUME NEW s \in Slots, NEW n, Packed(s, n), OneSlotEach(s), NEW p \in Pointers,
         NEW act \in Acts, NEW i, i = SlotFor(s, p), i # 0
  PROVE  LET posed == PosedAt(s, i, p, act)
         IN  /\ OneSlotEach(posed)
             /\ Ids(s) \subseteq Ids(posed) /\ Ids(posed) \subseteq Ids(s) \cup {p}
             /\ act \in {"down", "move"} => Contacts(posed) = Contacts(s) \cup {p}
             /\ act = "button" => Contacts(posed) = Contacts(s)
             /\ act \notin {"down", "move", "button"} => Contacts(posed) = Contacts(s) \ {p}
<1>. DEFINE posed == PosedAt(s, i, p, act)
            f == IF i \in Live(s) THEN s[i].flags ELSE {}
<1>1. /\ i \in 1..MaxContacts /\ posed \in Slots
      /\ posed[i].flags = Populate(f, act)
      /\ posed[i].flags # {} => posed[i].id = p
      /\ \A k \in 1..MaxContacts : k # i => posed[k] = s[k]
  BY PosedIs
<1>2. \/ i \in Live(s) /\ s[i].id = p
      \/ i \notin Live(s) /\ p \notin Ids(s)
  BY SlotForIs
<1>3. f \in SUBSET Flags
  BY <1>1 DEF Slots
<1>4. /\ "contact" \in posed[i].flags
           <=> act \in {"down", "move"} \/ (act = "button" /\ "contact" \in f)
      /\ posed[i].flags = {} <=> act = "button" /\ f = {}
  <2>1. posed[i].flags = Populate(f, act)
    BY <1>1
  <2>. HIDE DEF posed, f
  <2>2. /\ "contact" \in Populate(f, act)
             <=> act \in {"down", "move"} \/ (act = "button" /\ "contact" \in f)
        /\ Populate(f, act) = {} <=> act = "button" /\ f = {}
    BY <1>3, PopulateIs
  <2>. QED  BY <2>1, <2>2
<1>. HIDE DEF posed
<1>5. Live(s) \subseteq Live(posed) /\ Live(posed) \subseteq Live(s) \cup {i}
  BY <1>1, <1>4 DEF Live
<1>6. \A k \in Live(s) : k # i => posed[k] = s[k] /\ s[k].id # p
  <2>. SUFFICES ASSUME NEW k \in Live(s), k # i PROVE posed[k] = s[k] /\ s[k].id # p
    OBVIOUS
  <2>1. posed[k] = s[k]
    BY <1>1 DEF Live
  <2>2. s[k].id # p
    BY <1>2 DEF OneSlotEach, Ids
  <2>. QED  BY <2>1, <2>2
<1>7. i \in Live(posed) => posed[i].id = p
  BY <1>1 DEF Live
<1>8. OneSlotEach(posed)
  <2>. SUFFICES ASSUME NEW k \in Live(posed), NEW l \in Live(posed),
                       posed[k].id = posed[l].id
                PROVE  k = l
    BY DEF OneSlotEach
  <2>1. CASE k = i \/ l = i
    BY <1>5, <1>6, <1>7, <2>1
  <2>2. CASE k # i /\ l # i
    BY <1>5, <1>6, <2>2 DEF OneSlotEach
  <2>. QED  BY <2>1, <2>2
<1>9. Ids(s) \subseteq Ids(posed)
  <2>. SUFFICES ASSUME NEW k \in Live(s) PROVE s[k].id \in Ids(posed)
    BY DEF Ids
  <2>1. s[k].id = posed[k].id
    BY <1>2, <1>5, <1>6, <1>7
  <2>. QED  BY <1>5, <2>1 DEF Ids
<1>10. Ids(posed) \subseteq Ids(s) \cup {p}
  <2>. SUFFICES ASSUME NEW k \in Live(posed) PROVE posed[k].id \in Ids(s) \cup {p}
    BY DEF Ids
  <2>. QED  BY <1>5, <1>6, <1>7 DEF Ids
<1>11. \A q : q # p => (q \in Contacts(posed) <=> q \in Contacts(s))
  <2>. SUFFICES ASSUME NEW q, q # p PROVE q \in Contacts(posed) <=> q \in Contacts(s)
    OBVIOUS
  <2>1. ASSUME q \in Contacts(posed) PROVE q \in Contacts(s)
    <3>1. PICK k \in Live(posed) : q = posed[k].id /\ "contact" \in posed[k].flags
      BY <2>1 DEF Contacts
    <3>2. k # i
      BY <1>7, <3>1
    <3>. QED  BY <1>5, <1>6, <3>1, <3>2 DEF Contacts
  <2>2. ASSUME q \in Contacts(s) PROVE q \in Contacts(posed)
    <3>1. PICK k \in Live(s) : q = s[k].id /\ "contact" \in s[k].flags
      BY <2>2 DEF Contacts
    <3>2. k # i
      BY <1>2, <3>1
    <3>. QED  BY <1>5, <1>6, <3>1, <3>2 DEF Contacts
  <2>. QED  BY <2>1, <2>2
<1>12. p \in Contacts(posed) <=> "contact" \in posed[i].flags
  <2>1. ASSUME p \in Contacts(posed) PROVE "contact" \in posed[i].flags
    <3>1. PICK k \in Live(posed) : p = posed[k].id /\ "contact" \in posed[k].flags
      BY <2>1 DEF Contacts
    <3>2. k = i
      BY <1>5, <1>6, <3>1
    <3>. QED  BY <3>1, <3>2
  <2>2. ASSUME "contact" \in posed[i].flags PROVE p \in Contacts(posed)
    <3>1. i \in Live(posed)
      BY <1>1, <2>2 DEF Live
    <3>. QED  BY <1>7, <2>2, <3>1 DEF Contacts
  <2>. QED  BY <2>1, <2>2
<1>13. p \in Contacts(s) <=> "contact" \in f
  <2>1. CASE i \in Live(s)
    <3>1. ASSUME p \in Contacts(s) PROVE "contact" \in s[i].flags
      <4>1. PICK k \in Live(s) : p = s[k].id /\ "contact" \in s[k].flags
        BY <3>1 DEF Contacts
      <4>. QED  BY <1>6, <4>1
    <3>. QED  BY <1>2, <2>1, <3>1 DEF Contacts
  <2>2. CASE i \notin Live(s)
    BY <1>2, <2>2, ContactsHaveIds
  <2>. QED  BY <2>1, <2>2
<1>. HIDE DEF f
<1>14. act \in {"down", "move"} => Contacts(posed) = Contacts(s) \cup {p}
  BY <1>4, <1>11, <1>12
<1>15. act = "button" => Contacts(posed) = Contacts(s)
  BY <1>4, <1>11, <1>12, <1>13
<1>16. act \notin {"down", "move", "button"} => Contacts(posed) = Contacts(s) \ {p}
  BY <1>4, <1>11, <1>12
<1>. QED  BY <1>8, <1>9, <1>10, <1>14, <1>15, <1>16 DEF posed

(* Clearing the edges of one slot takes no contact away.                   *)
LEMMA ClearedKeeps ==
  ASSUME NEW s \in Slots, NEW i \in 1..MaxContacts
  PROVE  LET cleared == ClearEdges(s, i)
         IN  /\ cleared \in Slots
             /\ OneSlotEach(s) => OneSlotEach(cleared)
             /\ Contacts(cleared) = Contacts(s) /\ Ids(cleared) \subseteq Ids(s)
             /\ (\A k \in 1..MaxContacts : k # i => s[k].flags \cap Edges = {})
                  => NoEdges(cleared)
<1>. DEFINE c == ClearEdges(s, i)
<1>1. s[i].flags \in SUBSET Flags
  BY DEF Slots
<1>2. /\ c \in Slots
      /\ c[i].flags = s[i].flags \ Edges /\ c[i].id = s[i].id
      /\ \A k \in 1..MaxContacts : k # i => c[k] = s[k]
  BY <1>1 DEF ClearEdges, Slots
<1>. HIDE DEF c
<1>3. \A k \in 1..MaxContacts : /\ c[k].id = s[k].id
                                /\ c[k].flags \subseteq s[k].flags
                                /\ "contact" \in c[k].flags <=> "contact" \in s[k].flags
  BY <1>2 DEF Edges
<1>4. Live(c) \subseteq Live(s)
  BY <1>3 DEF Live
<1>5. OneSlotEach(s) => OneSlotEach(c)
  BY <1>3, <1>4 DEF OneSlotEach, Live
<1>6. Ids(c) \subseteq Ids(s)
  BY <1>3, <1>4 DEF Ids, Live
<1>7. Contacts(c) = Contacts(s)
  <2>1. \A k \in 1..MaxContacts : "contact" \in s[k].flags => k \in Live(c) /\ k \in Live(s)
    BY <1>3 DEF Live
  <2>. QED  BY <1>3, <1>4, <2>1 DEF Contacts, Live
<1>8. (\A k \in 1..MaxContacts : k # i => s[k].flags \cap Edges = {}) => NoEdges(c)
  <2>. SUFFICES ASSUME \A k \in 1..MaxContacts : k # i => s[k].flags \cap Edges = {},
                       NEW k \in 1..MaxContacts
                PROVE  c[k].flags \cap Edges = {}
    BY DEF NoEdges
  <2>1. CASE k = i
    BY <1>2, <2>1
  <2>2. CASE k # i
    BY <1>2, <2>2
  <2>. QED  BY <2>1, <2>2
<1>. QED  BY <1>2, <1>5, <1>6, <1>7, <1>8 DEF c
-----------------------------------------------------------------------------
(* What one touch message does.                                            *)

(* A rejection counts, and the count has a bound.                          *)
LEMMA CountIs ==
  ASSUME rejects \in 0..MaxRejects, NEW ok1 \in BOOLEAN, NEW ok2 \in BOOLEAN, Count(ok1, ok2)
  PROVE  /\ rejects' \in 0..MaxRejects /\ (rejects' = 0 => rejects = 0 /\ ok1 /\ ok2)
         /\ rejects' = rejects => ok1 /\ ok2
<1>. DEFINE S == {i \in 1..2 : ~<<ok1, ok2>>[i]}
<1>1. IsFiniteSet(S) /\ Cardinality(S) \in Nat
  <2>. DEFINE two == 2
  <2>4. two \in Nat
    OBVIOUS
  <2>. HIDE DEF two
  <2>5. IsFiniteSet(1..two)
    BY <2>4, FS_Interval
  <2>1. IsFiniteSet(1..2)
    BY <2>5 DEF two
  <2>2. S \in SUBSET (1..2)
    OBVIOUS
  <2>. HIDE DEF S
  <2>3. IsFiniteSet(S)
    BY <2>1, <2>2, FS_Subset
  <2>. QED  BY <2>3, FS_CardinalityType
<1>2. ~ok1 => 1 \in S
  OBVIOUS
<1>3. ~ok2 => 2 \in S
  OBVIOUS
<1>. HIDE DEF S
<1>4. Cardinality(S) = 0 => S = {}
  BY <1>1, FS_EmptySet
<1>5. rejects' = rejects + Cardinality(S) /\ rejects' <= MaxRejects
  BY DEF Count, S
<1>. QED  BY <1>1, <1>2, <1>3, <1>4, <1>5, Sizes

Pressed == [touch : SUBSET Pointers, pen : BOOLEAN, buttons : Buttons]

(* A touch message of pointer p, or a cancellation, with every injection   *)
(* accepted or not.                                                        *)
TouchStep(p, act, ok) ==
  /\ slots' \in Slots /\ OneSlotEach(slots')
  /\ Ids(slots') \subseteq (Ids(slots) \cup {p}) \cap Pointers
  /\ os' \in Pressed /\ os'.pen = os.pen /\ os'.buttons = os.buttons
  /\ os'.touch \subseteq os.touch \cup ((Ids(slots) \cup {p}) \cap Pointers)
  /\ rejects' \in 0..MaxRejects /\ (rejects' = 0 => rejects = 0)
  /\ orphaned' \in BOOLEAN /\ (orphaned => orphaned')
  /\ ~orphaned' /\ os.touch \subseteq Ids(slots) =>
       /\ os'.touch \subseteq Ids(slots')
       /\ ok \/ act = "cancelAll" \/ os'.touch \subseteq os.touch
  /\ rejects' = 0 /\ os.touch = Contacts(slots) /\ NoEdges(slots) =>
       /\ os'.touch = Contacts(slots') /\ NoEdges(slots')
       /\ os'.touch \subseteq os.touch \cup (IF act \in {"down", "move"} THEN {p} ELSE {})
       /\ act \notin {"down", "move", "button"} => p \notin os'.touch
       /\ act = "cancelAll" => os'.touch = {}

(* Free slots hold nothing.                                                *)
LEMMA AllFreeIs ==
  /\ AllFree \in Slots /\ OneSlotEach(AllFree) /\ NoEdges(AllFree)
  /\ Ids(AllFree) = {} /\ Contacts(AllFree) = {} /\ Packed(AllFree, 0)
<1>1. \A i \in 1..MaxContacts : AllFree[i] = FreeSlot
  BY DEF AllFree
<1>2. FreeSlot.flags = {} /\ FreeSlot \in [id : Pointers \cup {None}, flags : SUBSET Flags]
  BY DEF FreeSlot
<1>3. Live(AllFree) = {}
  BY <1>1, <1>2 DEF Live
<1>4. AllFree \in Slots
  BY <1>2 DEF AllFree, Slots
<1>5. NoEdges(AllFree)
  BY <1>1, <1>2 DEF NoEdges
<1>6. 1..0 = {} /\ 0 \in 0..MaxContacts
  BY Sizes
<1>. QED  BY <1>1, <1>3, <1>4, <1>5, <1>6 DEF OneSlotEach, Ids, Contacts, Packed

(* A cancelled slot stays live and is no contact.                          *)
LEMMA CancelledIs ==
  ASSUME NEW s \in Slots
  PROVE  /\ Ids(Cancelled(s)) = Ids(s) /\ Contacts(Cancelled(s)) = {}
<1>. DEFINE c == Cancelled(s)
<1>0. "cancel" \in Acts
  BY DEF Acts
<1>1. \A i \in Live(s) : /\ c[i].id = s[i].id
                         /\ c[i].flags # {} /\ "contact" \notin c[i].flags
  <2>. SUFFICES ASSUME NEW i \in Live(s)
                PROVE  c[i].id = s[i].id /\ c[i].flags # {} /\ "contact" \notin c[i].flags
    OBVIOUS
  <2>1. i \in 1..MaxContacts /\ s[i] \in [id : Pointers \cup {None}, flags : SUBSET Flags]
    BY DEF Live, Slots
  <2>2. c[i] = [s[i] EXCEPT !.flags = Populate(@, "cancel")]
    BY <2>1 DEF Cancelled
  <2>3. c[i].id = s[i].id /\ c[i].flags = Populate(s[i].flags, "cancel")
    BY <2>1, <2>2
  <2>4. s[i].flags \in SUBSET Flags
    BY <2>1
  <2>5. Populate(s[i].flags, "cancel") # {} /\ "contact" \notin Populate(s[i].flags, "cancel")
    BY <1>0, <2>4, PopulateIs
  <2>. QED  BY <2>3, <2>5
<1>2. \A i \in (1..MaxContacts) \ Live(s) : c[i].flags = {}
  BY DEF Cancelled, Live
<1>3. Live(s) \subseteq 1..MaxContacts
  BY DEF Live
<1>. HIDE DEF c
<1>4. Live(c) = Live(s)
  <2>1. \A i \in 1..MaxContacts : c[i].flags # {} <=> i \in Live(s)
    BY <1>1, <1>2
  <2>. QED  BY <1>3, <2>1 DEF Live
<1>. QED  BY <1>1, <1>4 DEF Ids, Contacts, c

(* The cancellation of every touch.                                        *)
LEMMA CancelAllIs ==
  ASSUME slots \in Slots, os \in Pressed, rejects \in 0..MaxRejects, orphaned \in BOOLEAN,
         NEW ok \in BOOLEAN, CancelAllTouches(ok), Count(ok, TRUE)
  PROVE  TouchStep(None, "cancelAll", ok)
<1>1. slots' \in Slots /\ OneSlotEach(slots') /\ NoEdges(slots')
      /\ Ids(slots') = {} /\ Contacts(slots') = {}
  BY AllFreeIs DEF CancelAllTouches
<1>2. rejects' \in 0..MaxRejects /\ (rejects' = 0 => rejects = 0 /\ ok)
  BY CountIs
<1>. DEFINE after == AfterTouchFrame(os.touch, Cancelled(slots))
<1>3. after = os.touch \ Ids(slots)
  BY CancelledIs, FrameIs
<1>4. os' = IF ok THEN [os EXCEPT !.touch = after] ELSE os
  BY DEF CancelAllTouches
<1>. HIDE DEF after
<1>5. /\ os' \in Pressed /\ os'.pen = os.pen /\ os'.buttons = os.buttons
      /\ os'.touch = IF ok THEN os.touch \ Ids(slots) ELSE os.touch
  BY <1>3, <1>4 DEF Pressed
<1>6. orphaned' = (orphaned \/ (~ok /\ os.touch # {}))
  BY DEF CancelAllTouches
<1>7. Contacts(slots) \subseteq Ids(slots)
  BY ContactsHaveIds
<1>8. ~orphaned' /\ os.touch \subseteq Ids(slots) => os'.touch \subseteq Ids(slots')
  BY <1>1, <1>5, <1>6
<1>9. rejects' = 0 /\ os.touch = Contacts(slots) => os'.touch = {}
  BY <1>2, <1>5, <1>7
<1>. QED  BY <1>1, <1>2, <1>5, <1>6, <1>8, <1>9 DEF TouchStep

(* A pointer that has a slot.                                              *)
LEMMA InjectSlotIs ==
  ASSUME slots \in Slots, os \in Pressed, rejects \in 0..MaxRejects, orphaned \in BOOLEAN,
         OneSlotEach(slots), Ids(slots) \subseteq Pointers,
         NEW ok \in BOOLEAN, NEW p \in Pointers, NEW act \in Acts,
         NEW i, i = SlotFor(Compacted(slots), p), i # 0,
         InjectSlot(Compacted(slots), i, p, act, ok), Count(ok, TRUE)
  PROVE  TouchStep(p, act, ok)
<1>. DEFINE s == Compacted(slots)
            posed == PosedAt(s, i, p, act)
            c == ClearEdges(posed, i)
<1>1. /\ s \in Slots /\ Packed(s, LiveCount(slots)) /\ OneSlotEach(s)
      /\ Ids(s) = Ids(slots) /\ Contacts(s) = Contacts(slots)
      /\ NoEdges(slots) => NoEdges(s)
  BY CompactedIs, CompactedKeeps
<1>2. rejects' \in 0..MaxRejects /\ (rejects' = 0 => rejects = 0 /\ ok)
  BY CountIs
<1>3. /\ slots' = IF ok THEN c ELSE posed
      /\ os' = IF ok THEN [os EXCEPT !.touch = AfterTouchFrame(@, posed)] ELSE os
      /\ orphaned' = orphaned
  BY DEF InjectSlot, PosedAt, NamedAt
<1>. HIDE DEF s
<1>4. /\ i \in 1..MaxContacts /\ posed \in Slots
      /\ \A k \in 1..MaxContacts : k # i => posed[k] = s[k]
  BY <1>1, PosedIs DEF s
<1>5. /\ OneSlotEach(posed)
      /\ Ids(s) \subseteq Ids(posed) /\ Ids(posed) \subseteq Ids(s) \cup {p}
      /\ act \in {"down", "move"} => Contacts(posed) = Contacts(s) \cup {p}
      /\ act = "button" => Contacts(posed) = Contacts(s)
      /\ act \notin {"down", "move", "button"} => Contacts(posed) = Contacts(s) \ {p}
  BY <1>1, PosedContacts DEF s
<1>. HIDE DEF posed
<1>6. /\ c \in Slots /\ OneSlotEach(c)
      /\ Contacts(c) = Contacts(posed) /\ Ids(c) \subseteq Ids(posed)
      /\ NoEdges(s) => NoEdges(c)
  <2>1. NoEdges(s) => \A k \in 1..MaxContacts : k # i => posed[k].flags \cap Edges = {}
    BY <1>4 DEF NoEdges
  <2>. QED  BY <1>4, <1>5, <2>1, ClearedKeeps
<1>. HIDE DEF c
<1>7. /\ AfterTouchFrame(os.touch, posed) = (os.touch \ Ids(posed)) \cup Contacts(posed)
      /\ Contacts(posed) \subseteq Ids(posed) /\ Contacts(c) \subseteq Ids(c)
  BY FrameIs, ContactsHaveIds
<1>8. /\ os' \in Pressed /\ os'.pen = os.pen /\ os'.buttons = os.buttons
      /\ os'.touch = IF ok THEN (os.touch \ Ids(posed)) \cup Contacts(posed) ELSE os.touch
  <2>1. (os.touch \ Ids(posed)) \cup Contacts(posed) \subseteq Pointers
    BY <1>1, <1>5, <1>7 DEF Pressed
  <2>. QED  BY <1>3, <1>7, <2>1 DEF Pressed
<1>9. slots' \in Slots /\ OneSlotEach(slots') /\ Ids(slots') \subseteq Ids(posed)
  BY <1>3, <1>4, <1>5, <1>6
<1>10. Ids(slots') \subseteq (Ids(slots) \cup {p}) \cap Pointers
  BY <1>1, <1>5, <1>9
<1>11. os'.touch \subseteq os.touch \cup ((Ids(slots) \cup {p}) \cap Pointers)
  BY <1>1, <1>5, <1>7, <1>8
<1>12. os.touch \subseteq Ids(slots) =>
         os'.touch \subseteq Ids(slots') /\ (ok \/ os'.touch \subseteq os.touch)
  BY <1>1, <1>3, <1>5, <1>6, <1>7, <1>8
<1>13. ASSUME rejects' = 0, os.touch = Contacts(slots), NoEdges(slots)
       PROVE  /\ os'.touch = Contacts(slots') /\ NoEdges(slots')
              /\ os'.touch \subseteq os.touch \cup (IF act \in {"down", "move"} THEN {p} ELSE {})
              /\ act \notin {"down", "move", "button"} => p \notin os'.touch
  <2>1. ok /\ slots' = c
    BY <1>2, <1>3, <1>13
  <2>2. Contacts(s) \subseteq Ids(s)
    BY ContactsHaveIds
  <2>3. os'.touch = Contacts(posed)
    BY <1>1, <1>5, <1>8, <1>13, <2>1, <2>2
  <2>. QED  BY <1>1, <1>5, <1>6, <1>13, <2>1, <2>3
<1>14. act # "cancelAll"
  BY DEF Acts
<1>. QED
  <2>1. orphaned' \in BOOLEAN /\ (orphaned => orphaned')
    BY <1>3
  <2>. QED  BY <1>2, <1>8, <1>9, <1>10, <1>11, <1>12, <1>13, <1>14, <2>1 DEF TouchStep

(* No free slot: every contact is cancelled, and the pointer is alone.     *)
LEMMA OverflowIs ==
  ASSUME slots \in Slots, os \in Pressed, rejects \in 0..MaxRejects, orphaned \in BOOLEAN,
         NEW ok \in BOOLEAN, NEW cancelled \in BOOLEAN, NEW p \in Pointers, NEW act \in Acts,
         InjectAfterOverflow(p, act, cancelled, ok), Count(ok, cancelled)
  PROVE  TouchStep(p, act, ok)
<1>. DEFINE g == Populate({}, act)
            posed == [AllFree EXCEPT ![1] = [id |-> p, flags |-> g]]
            c == ClearEdges(posed, 1)
            left == IF cancelled THEN AfterTouchFrame(os.touch, Cancelled(slots)) ELSE os.touch
<1>1. rejects' \in 0..MaxRejects /\ (rejects' = 0 => rejects = 0 /\ ok /\ cancelled)
  BY CountIs
<1>2. /\ slots' = IF ok THEN c ELSE posed
      /\ os' = [os EXCEPT !.touch = IF ok THEN AfterTouchFrame(left, posed) ELSE left]
      /\ orphaned' = (orphaned \/ ~cancelled)
  BY DEF InjectAfterOverflow
<1>3. /\ g \in SUBSET Flags /\ ("contact" \in g <=> act \in {"down", "move"})
  <2>1. {} \in SUBSET Flags
    OBVIOUS
  <2>. HIDE DEF g
  <2>2. /\ Populate({}, act) \in SUBSET Flags
        /\ "contact" \in Populate({}, act)
              <=> act \in {"down", "move"} \/ (act = "button" /\ "contact" \in {})
    BY <2>1, PopulateIs
  <2>. QED  BY <2>2 DEF g
<1>4. left = IF cancelled THEN os.touch \ Ids(slots) ELSE os.touch
  <2>1. AfterTouchFrame(os.touch, Cancelled(slots)) = os.touch \ Ids(slots)
    BY CancelledIs, FrameIs
  <2>. QED  BY <2>1
<1>. HIDE DEF g, left
<1>5. 1 \in 1..MaxContacts /\ AllFree \in Slots
  BY Sizes, AllFreeIs
<1>6. /\ posed \in Slots /\ posed[1] = [id |-> p, flags |-> g]
      /\ \A k \in 1..MaxContacts : k # 1 => posed[k] = FreeSlot
  BY <1>3, <1>5 DEF Slots, AllFree
<1>. HIDE DEF posed
<1>7. Live(posed) \subseteq {1}
  <2>1. FreeSlot.flags = {}
    BY DEF FreeSlot
  <2>. QED  BY <1>6, <2>1 DEF Live
<1>8. /\ OneSlotEach(posed) /\ Ids(posed) \subseteq {p}
      /\ Contacts(posed) = IF act \in {"down", "move"} THEN {p} ELSE {}
  <2>1. OneSlotEach(posed)
    BY <1>7 DEF OneSlotEach
  <2>2. Ids(posed) \subseteq {p}
    BY <1>6, <1>7 DEF Ids
  <2>3. act \in {"down", "move"} => 1 \in Live(posed) /\ "contact" \in posed[1].flags
    BY <1>3, <1>5, <1>6 DEF Live
  <2>4. \A k \in Live(posed) : "contact" \in posed[k].flags => act \in {"down", "move"}
    BY <1>3, <1>6, <1>7
  <2>5. Contacts(posed) \subseteq {p}
    BY <2>2, ContactsHaveIds
  <2>6. act \in {"down", "move"} => p \in Contacts(posed)
    BY <1>6, <2>3 DEF Contacts
  <2>7. ~(act \in {"down", "move"}) => Contacts(posed) = {}
    BY <2>4 DEF Contacts
  <2>. QED  BY <2>1, <2>2, <2>5, <2>6, <2>7
<1>9. \A k \in 1..MaxContacts : k # 1 => posed[k].flags \cap Edges = {}
  BY <1>6 DEF FreeSlot
<1>10. /\ c \in Slots /\ OneSlotEach(c) /\ NoEdges(c)
       /\ Contacts(c) = Contacts(posed) /\ Ids(c) \subseteq Ids(posed)
  BY <1>5, <1>6, <1>8, <1>9, ClearedKeeps
<1>. HIDE DEF c
<1>11. /\ AfterTouchFrame(left, posed) = (left \ Ids(posed)) \cup Contacts(posed)
       /\ Contacts(posed) \subseteq Ids(posed) /\ Contacts(c) \subseteq Ids(c)
       /\ Contacts(slots) \subseteq Ids(slots)
  BY FrameIs, ContactsHaveIds
<1>12. left \subseteq os.touch
  BY <1>4
<1>13. /\ os' \in Pressed /\ os'.pen = os.pen /\ os'.buttons = os.buttons
       /\ os'.touch = IF ok THEN (left \ Ids(posed)) \cup Contacts(posed) ELSE left
  <2>1. left \subseteq Pointers /\ (left \ Ids(posed)) \cup Contacts(posed) \subseteq Pointers
    BY <1>8, <1>12 DEF Pressed
  <2>. QED  BY <1>2, <1>11, <2>1 DEF Pressed
<1>14. /\ slots' \in Slots /\ OneSlotEach(slots')
       /\ Ids(slots') \subseteq (Ids(slots) \cup {p}) \cap Pointers
  BY <1>2, <1>6, <1>8, <1>10
<1>15. os'.touch \subseteq os.touch \cup ((Ids(slots) \cup {p}) \cap Pointers)
  BY <1>8, <1>12, <1>13
<1>16. ~orphaned' /\ os.touch \subseteq Ids(slots) =>
         os'.touch \subseteq Ids(slots') /\ (ok \/ os'.touch \subseteq os.touch)
  <2>1. ~orphaned' /\ os.touch \subseteq Ids(slots) => left = {}
    BY <1>2, <1>4
  <2>. QED  BY <1>2, <1>10, <1>11, <1>13, <2>1
<1>17. ASSUME rejects' = 0, os.touch = Contacts(slots), NoEdges(slots)
       PROVE  /\ os'.touch = Contacts(slots') /\ NoEdges(slots')
              /\ os'.touch \subseteq os.touch \cup (IF act \in {"down", "move"} THEN {p} ELSE {})
              /\ act \notin {"down", "move", "button"} => p \notin os'.touch
  <2>1. ok /\ cancelled /\ slots' = c
    BY <1>1, <1>2, <1>17
  <2>2. left = {}
    BY <1>4, <1>11, <1>17, <2>1
  <2>. QED  BY <1>8, <1>10, <1>13, <2>1, <2>2
<1>18. act # "cancelAll"
  BY DEF Acts
<1>. QED
  <2>1. orphaned' \in BOOLEAN /\ (orphaned => orphaned')
    BY <1>2
  <2>. QED  BY <1>1, <1>13, <1>14, <1>15, <1>16, <1>17, <1>18, <2>1 DEF TouchStep

(* Whichever of these a touch message does, it is a step of its pointer,   *)
(* and the repeat thread is notified unless nothing was accepted.          *)
LEMMA InjectTouchIs ==
  ASSUME slots \in Slots, os \in Pressed, rejects \in 0..MaxRejects, orphaned \in BOOLEAN,
         OneSlotEach(slots), Ids(slots) \subseteq Pointers, NEW ok \in BOOLEAN,
         NEW m \in PointerMessages \cup CancelMessages, InjectTouch(m, ok)
  PROVE  /\ TouchStep(m.id, m.act, ok)
         /\ poked' = IF ok \/ m.act = "cancelAll" THEN TRUE ELSE poked
         /\ UNCHANGED <<penFlags, buttons>>
<1>1. /\ poked' = IF ok \/ m.act = "cancelAll" THEN TRUE ELSE poked
      /\ UNCHANGED <<penFlags, buttons>>
  BY DEF InjectTouch, NotifyRepeater
<1>2. m.act = "cancelAll" => m.id = None
  BY DEF PointerMessages, CancelMessages, Acts
<1>3. m.act # "cancelAll" => m.id \in Pointers /\ m.act \in Acts
  BY DEF PointerMessages, CancelMessages
<1>. DEFINE s == Compacted(slots)
            i == SlotFor(s, m.id)
<1>4. CASE m.act = "cancelAll" /\ CancelAllTouches(ok) /\ Count(ok, TRUE)
  <2>1. TouchStep(None, "cancelAll", ok)
    BY <1>4, CancelAllIs
  <2>. QED  BY <1>1, <1>2, <1>4, <2>1
<1>5. CASE m.act # "cancelAll" /\ i # 0 /\ InjectSlot(s, i, m.id, m.act, ok) /\ Count(ok, TRUE)
  <2>1. TouchStep(m.id, m.act, ok)
    BY <1>3, <1>5, InjectSlotIs
  <2>. QED  BY <1>1, <2>1
<1>6. ASSUME m.act # "cancelAll", NEW cancelled \in BOOLEAN,
             InjectAfterOverflow(m.id, m.act, cancelled, ok), Count(ok, cancelled)
      PROVE  TouchStep(m.id, m.act, ok)
  BY <1>3, <1>6, OverflowIs
<1>. QED  BY <1>1, <1>4, <1>5, <1>6 DEF InjectTouch
-----------------------------------------------------------------------------
(* What one pen or mouse message does, and the repeat thread.              *)

PenStep(act, ok) ==
  /\ penFlags' \subseteq Flags
  /\ os' \in Pressed /\ os'.touch = os.touch /\ os'.buttons = os.buttons
  /\ rejects' \in 0..MaxRejects /\ (rejects' = 0 => rejects = 0)
  /\ orphaned' \in BOOLEAN /\ (orphaned => orphaned')
  /\ act = "cancelAll" => penFlags' = {} /\ (os'.pen => os.pen)
  /\ ~orphaned' /\ (os.pen => penFlags # {}) =>
       /\ os'.pen => penFlags' # {}
       /\ ok \/ act = "cancelAll" \/ os'.pen = os.pen
  /\ rejects' = 0 /\ os.pen = ("contact" \in penFlags) /\ penFlags \cap Edges = {} =>
       /\ os'.pen = ("contact" \in penFlags') /\ penFlags' \cap Edges = {}
       /\ os'.pen => act \in {"down", "move"} \/ (act = "button" /\ os.pen)

(* A pen message: the flags of the pen are those of a slot of its own.     *)
LEMMA InjectPenIs ==
  ASSUME penFlags \subseteq Flags, os \in Pressed, rejects \in 0..MaxRejects,
         orphaned \in BOOLEAN, NEW ok \in BOOLEAN,
         NEW m \in PointerMessages \cup CancelMessages, InjectPen(m, ok)
  PROVE  /\ PenStep(m.act, ok)
         /\ poked' = IF ok \/ m.act = "cancelAll" THEN TRUE ELSE poked
         /\ UNCHANGED <<slots, buttons>>
<1>. DEFINE posed == IF m.act = "cancelAll"
                     THEN IF penFlags = {} THEN {} ELSE Populate(penFlags, "cancel")
                     ELSE Populate(penFlags, m.act)
<1>1. /\ os' = IF ok /\ posed # {} THEN [os EXCEPT !.pen = "contact" \in posed] ELSE os
      /\ penFlags' = IF m.act = "cancelAll" THEN {}
                     ELSE IF ok THEN posed \ Edges ELSE posed
      /\ orphaned' = (orphaned \/ (m.act = "cancelAll" /\ ~ok /\ os.pen))
      /\ poked' = IF ok \/ m.act = "cancelAll" THEN TRUE ELSE poked
      /\ UNCHANGED <<slots, buttons>> /\ Count(ok, TRUE)
  BY DEF InjectPen, NotifyRepeater
<1>2. rejects' \in 0..MaxRejects /\ (rejects' = 0 => rejects = 0 /\ ok)
  BY <1>1, CountIs
<1>3. m.act = "cancelAll" \/ m.act \in Acts
  BY DEF PointerMessages, CancelMessages
<1>4. "cancel" \in Acts /\ "cancelAll" \notin Acts
  BY DEF Acts
<1>5. m.act = "cancelAll" =>
        posed \subseteq Flags /\ "contact" \notin posed /\ (posed = {} <=> penFlags = {})
  BY <1>4, PopulateIs
<1>6. m.act \in Acts =>
        /\ posed \subseteq Flags
        /\ "contact" \in posed
             <=> m.act \in {"down", "move"} \/ (m.act = "button" /\ "contact" \in penFlags)
        /\ posed = {} <=> m.act = "button" /\ penFlags = {}
  BY <1>4, PopulateIs
<1>7. "contact" \notin Edges
  BY DEF Edges
<1>. HIDE DEF posed
<1>8. /\ os' \in Pressed /\ os'.touch = os.touch /\ os'.buttons = os.buttons
      /\ os'.pen = IF ok /\ posed # {} THEN "contact" \in posed ELSE os.pen
  <2>1. CASE ok /\ posed # {}
    <3>1. os' = [os EXCEPT !.pen = "contact" \in posed]
      BY <1>1, <2>1
    <3>2. ("contact" \in posed) \in BOOLEAN
      OBVIOUS
    <3>. QED  BY <2>1, <3>1, <3>2 DEF Pressed
  <2>2. CASE ~(ok /\ posed # {})
    BY <1>1, <2>2
  <2>. QED  BY <2>1, <2>2
<1>9. penFlags' \subseteq Flags
  BY <1>1, <1>3, <1>5, <1>6
<1>10. orphaned' \in BOOLEAN /\ (orphaned => orphaned')
  BY <1>1
<1>11. m.act = "cancelAll" => penFlags' = {} /\ (os'.pen => os.pen)
  BY <1>1, <1>5, <1>8
<1>12. ~orphaned' /\ (os.pen => penFlags # {}) =>
         /\ os'.pen => penFlags' # {}
         /\ ok \/ m.act = "cancelAll" \/ os'.pen = os.pen
  <2>. SUFFICES ASSUME ~orphaned', os.pen => penFlags # {}
                PROVE  /\ os'.pen => penFlags' # {}
                       /\ ok \/ m.act = "cancelAll" \/ os'.pen = os.pen
    OBVIOUS
  <2>1. CASE m.act = "cancelAll"
    BY <1>1, <1>5, <1>8, <2>1
  <2>2. CASE m.act # "cancelAll" /\ ok
    <3>1. penFlags' = posed \ Edges
      BY <1>1, <2>2
    <3>. QED  BY <1>3, <1>6, <1>7, <1>8, <2>2, <3>1
  <2>3. CASE m.act # "cancelAll" /\ ~ok
    <3>1. penFlags' = posed /\ os'.pen = os.pen
      BY <1>1, <1>8, <2>3
    <3>. QED  BY <1>3, <1>6, <2>3, <3>1
  <2>. QED  BY <2>1, <2>2, <2>3
<1>13. ASSUME rejects' = 0, os.pen = ("contact" \in penFlags), penFlags \cap Edges = {}
       PROVE  /\ os'.pen = ("contact" \in penFlags') /\ penFlags' \cap Edges = {}
              /\ os'.pen => m.act \in {"down", "move"} \/ (m.act = "button" /\ os.pen)
  <2>1. ok
    BY <1>2, <1>13
  <2>2. CASE m.act = "cancelAll"
    <3>1. penFlags' = {} /\ ~os'.pen
      BY <1>1, <1>5, <1>8, <1>13, <2>1, <2>2
    <3>. QED  BY <1>8, <3>1 DEF Pressed
  <2>3. CASE m.act # "cancelAll"
    <3>1. penFlags' = posed \ Edges
      BY <1>1, <2>1, <2>3
    <3>2. posed = {} => ~("contact" \in penFlags)
      BY <1>3, <1>6, <2>3
    <3>3. os'.pen <=> "contact" \in posed
      BY <1>8, <1>13, <2>1, <3>2
    <3>4. os'.pen <=> "contact" \in penFlags'
      BY <1>7, <3>1, <3>3
    <3>5. os'.pen = ("contact" \in penFlags')
      BY <1>8, <3>4 DEF Pressed
    <3>6. penFlags' \cap Edges = {}
      BY <3>1
    <3>7. os'.pen => m.act \in {"down", "move"} \/ (m.act = "button" /\ os.pen)
      BY <1>3, <1>6, <1>13, <2>3, <3>3
    <3>. QED  BY <3>5, <3>6, <3>7
  <2>. QED  BY <2>2, <2>3
<1>. QED  BY <1>1, <1>2, <1>8, <1>9, <1>10, <1>11, <1>12, <1>13 DEF PenStep

(* A mouse message: what Windows holds follows what the injector wants,    *)
(* unless an injection was rejected.                                       *)
LEMMA InjectMouseIs ==
  ASSUME buttons \in Buttons, os \in Pressed, rejects \in 0..MaxRejects, orphaned \in BOOLEAN,
         NEW ok \in BOOLEAN, NEW m \in MouseMessages, InjectMouse(m, ok)
  PROVE  /\ buttons' \in Buttons /\ buttons' = Desired(m)
         /\ os' \in Pressed /\ os'.touch = os.touch /\ os'.pen = os.pen
         /\ rejects' \in 0..MaxRejects /\ (rejects' = 0 => rejects = 0)
         /\ orphaned' \in BOOLEAN /\ (orphaned => orphaned')
         /\ ~orphaned' /\ os.buttons = buttons => os'.buttons = buttons'
         /\ UNCHANGED <<slots, penFlags, poked>>
<1>. DEFINE desired == Desired(m)
            after == (os.buttons \ (buttons \ desired)) \cup (desired \ buttons)
<1>1. desired \in Buttons
  BY DEF Desired, MouseMessages, Buttons
<1>2. /\ buttons' = desired
      /\ os' = IF ok THEN [os EXCEPT !.buttons = after] ELSE os
      /\ orphaned' = (orphaned \/ (~ok /\ buttons # desired))
      /\ UNCHANGED <<slots, penFlags, poked>> /\ Count(ok, TRUE)
  BY DEF InjectMouse, Desired
<1>3. rejects' \in 0..MaxRejects /\ (rejects' = 0 => rejects = 0 /\ ok)
  BY <1>2, CountIs
<1>. HIDE DEF desired
<1>4. after \in Buttons /\ (os.buttons = buttons => after = desired)
  BY <1>1 DEF Pressed, Buttons
<1>. HIDE DEF after
<1>5. /\ os' \in Pressed /\ os'.touch = os.touch /\ os'.pen = os.pen
      /\ os'.buttons = IF ok THEN after ELSE os.buttons
  BY <1>2, <1>4 DEF Pressed
<1>6. orphaned' \in BOOLEAN /\ (orphaned => orphaned')
  BY <1>2
<1>7. ~orphaned' /\ os.buttons = buttons => os'.buttons = buttons'
  BY <1>2, <1>4, <1>5
<1>8. buttons' \in Buttons /\ buttons' = Desired(m)
  BY <1>1, <1>2 DEF desired
<1>. QED  BY <1>2, <1>3, <1>5, <1>6, <1>7, <1>8

(* The live contacts injected again: what Windows holds is in the frame,   *)
(* and if it was injected before, nothing changes.                         *)
LEMMA RepeatFramesIs ==
  ASSUME slots \in Slots, penFlags \subseteq Flags, os \in Pressed, rejects \in 0..MaxRejects,
         OneSlotEach(slots), Ids(slots) \subseteq Pointers, RepeatFrames
  PROVE  /\ slots' \in Slots /\ OneSlotEach(slots') /\ Ids(slots') = Ids(slots)
         /\ Contacts(slots') = Contacts(slots) /\ (NoEdges(slots) => NoEdges(slots'))
         /\ os' \in Pressed /\ os'.buttons = os.buttons
         /\ os'.touch \subseteq os.touch \cup Ids(slots)
         /\ os.touch \subseteq Ids(slots) => os'.touch \subseteq Ids(slots)
         /\ os'.pen => os.pen \/ penFlags # {}
         /\ rejects' \in 0..MaxRejects /\ (rejects' = 0 => rejects = 0)
         /\ rejects' = 0 /\ os.touch = Contacts(slots) /\ os.pen = ("contact" \in penFlags)
              => os' = os
<1>1. PICK ok \in BOOLEAN, penOk \in BOOLEAN :
        /\ Count(ok, penOk)
        /\ slots' = Compacted(slots)
        /\ os' = [os EXCEPT
             !.touch = IF ok THEN AfterTouchFrame(@, slots) ELSE @,
             !.pen = IF penOk /\ penFlags # {} THEN "contact" \in penFlags ELSE @]
  BY DEF RepeatFrames
<1>2. rejects' \in 0..MaxRejects /\ (rejects' = 0 => rejects = 0 /\ ok /\ penOk)
  BY <1>1, CountIs
<1>3. /\ slots' \in Slots /\ OneSlotEach(slots') /\ Ids(slots') = Ids(slots)
      /\ Contacts(slots') = Contacts(slots) /\ (NoEdges(slots) => NoEdges(slots'))
  BY <1>1, CompactedIs, CompactedKeeps
<1>. DEFINE t == IF ok THEN AfterTouchFrame(os.touch, slots) ELSE os.touch
            b == IF penOk /\ penFlags # {} THEN "contact" \in penFlags ELSE os.pen
<1>4. AfterTouchFrame(os.touch, slots) = (os.touch \ Ids(slots)) \cup Contacts(slots)
      /\ Contacts(slots) \subseteq Ids(slots)
  BY FrameIs, ContactsHaveIds
<1>5. os' = [os EXCEPT !.touch = t, !.pen = b]
  BY <1>1
<1>6. t \subseteq os.touch \cup Ids(slots) /\ t \subseteq Pointers
  BY <1>4 DEF Pressed
<1>7. b \in BOOLEAN
  <2>1. os.pen \in BOOLEAN
    BY DEF Pressed
  <2>2. ("contact" \in penFlags) \in BOOLEAN
    OBVIOUS
  <2>. QED  BY <2>1, <2>2, Zenon
<1>8. b => os.pen \/ penFlags # {}
  OBVIOUS
<1>9. os.touch = Contacts(slots) => t = os.touch
  BY <1>4
<1>10. ASSUME os.pen = ("contact" \in penFlags) PROVE b = os.pen
  <2>1. b \in {"contact" \in penFlags, os.pen}
    OBVIOUS
  <2>. QED  BY <2>1, <1>10
<1>. HIDE DEF t, b
<1>11. os' \in Pressed /\ os'.touch = t /\ os'.pen = b /\ os'.buttons = os.buttons
  BY <1>5, <1>6, <1>7 DEF Pressed
<1>12. t = os.touch /\ b = os.pen => os' = os
  BY <1>5 DEF Pressed
<1>13. os.touch \subseteq Ids(slots) => os'.touch \subseteq Ids(slots)
  BY <1>6, <1>11
<1>. QED  BY <1>2, <1>3, <1>6, <1>8, <1>9, <1>10, <1>11, <1>12, <1>13
-----------------------------------------------------------------------------
(* Messages sent and received keep the wire settled.                       *)

(* The first message is received: what is held afterwards was held and not *)
(* lifted by it, or is pressed by it.                                      *)
LEMMA SettledTail ==
  ASSUME NEW T, NEW w \in Seq(T), w # <<>>, NEW presses, NEW lifts, NEW held, NEW next,
         Settled(w, held, presses, lifts),
         next => (held /\ Head(w) \notin lifts) \/ Head(w) \in presses
  PROVE  Settled(Tail(w), next, presses, lifts)
<1>1. /\ Len(w) \in Nat \ {0} /\ DOMAIN w = 1..Len(w)
      /\ Head(w) = w[1]
      /\ Tail(w) \in Seq(T) /\ Len(Tail(w)) = Len(w) - 1
      /\ \A j \in 1..(Len(w) - 1) : Tail(w)[j] = w[j + 1]
  BY HeadTailProperties, LenProperties
<1>2. DOMAIN Tail(w) = 1..(Len(w) - 1)
  BY <1>1, LenProperties
<1>. DEFINE n == Len(w)
            t == Tail(w)
<1>3. \A j \in DOMAIN w : j > 1 => j - 1 \in DOMAIN t /\ t[j - 1] = w[j]
  <2>. SUFFICES ASSUME NEW j \in 1..n, j > 1 PROVE j - 1 \in 1..(n - 1) /\ t[j - 1] = w[j]
    BY <1>1, <1>2
  <2>1. j - 1 \in 1..(n - 1) /\ (j - 1) + 1 = j
    BY <1>1
  <2>. QED  BY <1>1, <2>1
<1>4. \A j \in DOMAIN t : j + 1 \in DOMAIN w /\ t[j] = w[j + 1]
  BY <1>1, <1>2
<1>5. 1 \in DOMAIN w
  BY <1>1
<1>6. \A j \in DOMAIN w : j \in Nat
  BY <1>1
<1>7. \A j \in DOMAIN t : j \in Nat
  BY <1>2
<1>. HIDE DEF t, n
<1>8. next => \E j \in DOMAIN t : t[j] \in lifts
  <2>. SUFFICES ASSUME next PROVE \E j \in DOMAIN t : t[j] \in lifts
    OBVIOUS
  <2>1. \E j \in DOMAIN w : j > 1 /\ w[j] \in lifts
    <3>1. CASE held /\ w[1] \notin lifts
      <4>1. PICK j \in DOMAIN w : w[j] \in lifts
        BY <3>1 DEF Settled
      <4>2. j \in 1..Len(w) /\ j # 1
        BY <1>1, <3>1, <4>1
      <4>3. j > 1
        BY <1>1, <4>2
      <4>. QED  BY <4>1, <4>3
    <3>2. CASE w[1] \in presses
      BY <1>5, <3>2 DEF Settled
    <3>. QED  BY <1>1, <3>1, <3>2
  <2>2. PICK j \in DOMAIN w : j > 1 /\ w[j] \in lifts
    BY <2>1
  <2>. QED  BY <1>3, <2>2
<1>9. ASSUME NEW k \in DOMAIN t, t[k] \in presses
      PROVE  \E j \in DOMAIN t : j > k /\ t[j] \in lifts
  <2>1. k + 1 \in DOMAIN w /\ w[k + 1] \in presses
    BY <1>4, <1>9
  <2>2. PICK j \in DOMAIN w : j > k + 1 /\ w[j] \in lifts
    BY <2>1 DEF Settled
  <2>3. j > 1 /\ j - 1 > k /\ j \in Nat
    BY <1>6, <1>7, <2>2
  <2>. QED  BY <1>3, <2>2, <2>3
<1>. QED  BY <1>8, <1>9 DEF Settled, t

(* Messages that press nothing are sent: what is held afterwards was held, *)
(* or one of the messages lifts it.                                        *)
LEMMA SettledAppend ==
  ASSUME NEW T, NEW w \in Seq(T), NEW ms \in Seq(T), NEW presses, NEW lifts, NEW held,
         \A k \in DOMAIN ms : ms[k] \notin presses,
         Settled(w, held, presses, lifts) \/ \E k \in DOMAIN ms : ms[k] \in lifts
  PROVE  Settled(w \o ms, held, presses, lifts)
<1>. DEFINE v == w \o ms
            n == Len(w)
<1>1. /\ n \in Nat /\ Len(ms) \in Nat /\ DOMAIN w = 1..n /\ DOMAIN ms = 1..Len(ms)
      /\ v \in Seq(T) /\ Len(v) = n + Len(ms)
      /\ \A k \in 1..(n + Len(ms)) : v[k] = IF k <= n THEN w[k] ELSE ms[k - n]
  BY LenProperties, ConcatProperties
<1>2. DOMAIN v = 1..(n + Len(ms))
  BY <1>1, LenProperties
<1>. HIDE DEF v, n
<1>3. \A k \in DOMAIN w : k \in DOMAIN v /\ v[k] = w[k]
  BY <1>1, <1>2
<1>4. \A k \in DOMAIN ms : k + n \in DOMAIN v /\ v[k + n] = ms[k]
  <2>. SUFFICES ASSUME NEW k \in 1..Len(ms) PROVE k + n \in 1..(n + Len(ms)) /\ v[k + n] = ms[k]
    BY <1>1, <1>2
  <2>1. k + n \in 1..(n + Len(ms)) /\ ~(k + n <= n) /\ (k + n) - n = k
    BY <1>1
  <2>. QED  BY <1>1, <2>1
<1>5. \A k \in DOMAIN v : v[k] \in presses => k \in DOMAIN w /\ w[k] \in presses
  <2>. SUFFICES ASSUME NEW k \in 1..(n + Len(ms)), v[k] \in presses
                PROVE  k \in 1..n /\ w[k] \in presses
    BY <1>1, <1>2
  <2>1. CASE k <= n
    BY <1>1, <2>1
  <2>2. CASE ~(k <= n)
    <3>1. k - n \in 1..Len(ms)
      BY <1>1, <2>2
    <3>. QED  BY <1>1, <2>2, <3>1
  <2>. QED  BY <2>1, <2>2
<1>6. CASE Settled(w, held, presses, lifts)
  BY <1>3, <1>5, <1>6 DEF Settled, v
<1>7. CASE \E k \in DOMAIN ms : ms[k] \in lifts
  <2>1. PICK k \in DOMAIN ms : ms[k] \in lifts
    BY <1>7
  <2>2. k + n \in DOMAIN v /\ v[k + n] \in lifts
    BY <1>4, <2>1
  <2>3. \A l \in DOMAIN w : k + n > l
    BY <1>1, <2>1
  <2>. QED  BY <1>5, <2>2, <2>3 DEF Settled, v
<1>. QED  BY <1>6, <1>7
-----------------------------------------------------------------------------
(* What the tablet sends.                                                  *)

(* What the pen drives is never what a finger drives.                      *)
LEMMA TargetIs ==
  ASSUME mode \in Modes, NEW p \in Pointers
  PROVE  /\ Target(p) \in {"touch", "pen", "mouse"}
         /\ Target(p) = "pen" => p = Stylus /\ mode.stylus = "pen"
         /\ Target(Stylus) = mode.stylus
BY InputAssumption DEF Target, Pointers

(* A routed pointer is one message for the device it drives, or none, when *)
(* another pointer drives the mouse.                                       *)
LEMMA RouteIs ==
  ASSUME mode \in Modes, barrel' \in BOOLEAN, NEW p \in Pointers, NEW act \in Acts
  PROVE  /\ RoutePointer(p, act) \in Seq(Messages)
         /\ \A k \in DOMAIN RoutePointer(p, act) :
              LET m == RoutePointer(p, act)[k]
              IN  /\ m \in Messages /\ m.kind = Target(p) /\ m.id = p /\ m.act = act
                  /\ m.kind = "mouse" => DrivesMouse(p, act) /\ m.btn = DesiredButtons(p, act)
         /\ Target(p) # "mouse" \/ DrivesMouse(p, act) => 1 \in DOMAIN RoutePointer(p, act)
<1>1. Target(p) \in {"touch", "pen", "mouse"}
  BY TargetIs
<1>2. DesiredButtons(p, act) \in Buttons
  <2>1. CASE p # Stylus
    BY <2>1 DEF DesiredButtons, Buttons
  <2>2. CASE p = Stylus
    BY <2>2 DEF DesiredButtons, Buttons
  <2>. QED  BY <2>1, <2>2
<1>3. CASE Target(p) = "touch"
  <2>. DEFINE m == Message("touch", act, p, {})
  <2>1. m \in Messages /\ m.kind = "touch" /\ m.id = p /\ m.act = act
    BY DEF Message, Messages, PointerMessages
  <2>2. RoutePointer(p, act) = <<m>>
    BY <1>3 DEF RoutePointer
  <2>. HIDE DEF m
  <2>. QED  BY <1>3, <2>1, <2>2
<1>4. CASE Target(p) = "pen"
  <2>. DEFINE m == Message("pen", act, p, {})
  <2>1. m \in Messages /\ m.kind = "pen" /\ m.id = p /\ m.act = act
    BY DEF Message, Messages, PointerMessages
  <2>2. RoutePointer(p, act) = <<m>>
    BY <1>4 DEF RoutePointer
  <2>. HIDE DEF m
  <2>. QED  BY <1>4, <2>1, <2>2
<1>5. CASE Target(p) = "mouse" /\ DrivesMouse(p, act)
  <2>. DEFINE b == DesiredButtons(p, act)
              m == Message("mouse", act, p, b)
  <2>2. RoutePointer(p, act) = <<m>>
    BY <1>5 DEF RoutePointer
  <2>. HIDE DEF b
  <2>1. m \in Messages /\ m.kind = "mouse" /\ m.id = p /\ m.act = act /\ m.btn = b
    BY <1>2 DEF Message, Messages, MouseMessages, b
  <2>. HIDE DEF m
  <2>. QED  BY <1>5, <2>1, <2>2 DEF b
<1>6. CASE Target(p) = "mouse" /\ ~DrivesMouse(p, act)
  <2>1. RoutePointer(p, act) = <<>>
    BY <1>6 DEF RoutePointer
  <2>. QED  BY <1>6, <2>1
<1>. QED  BY <1>1, <1>3, <1>4, <1>5, <1>6

(* What is sent goes to the device of its pointer, ...                     *)
Fits(ms) ==
  /\ ms \in Seq(Messages)
  /\ \A k \in DOMAIN ms : ms[k] \in PointerMessages => Target(ms[k].id) = ms[k].kind

(* ... presses nothing unless a pointer on the tablet does, and lifts what *)
(* the pointers pressed that leave it.                                     *)
Lifts(ms) ==
  /\ \A p \in Pointers \ down' : Target(p) = "touch" =>
       /\ \A k \in DOMAIN ms : ms[k] \notin TouchPresses(p)
       /\ p \in down => \E k \in DOMAIN ms : ms[k] \in TouchLifts(p)
  /\ Stylus \notin down' /\ mode.stylus = "pen" =>
       /\ \A k \in DOMAIN ms : ms[k] \notin PenPresses
       /\ Stylus \in down => \E k \in DOMAIN ms : ms[k] \in PenLifts
  /\ ~MouseHeld' =>
       /\ \A k \in DOMAIN ms : ms[k] \notin MousePresses
       /\ MouseHeld => \E k \in DOMAIN ms : ms[k] \in MouseLifts

(* A step of the tablet that sends such messages keeps the invariant.      *)
LEMMA TabletStep ==
  ASSUME IInv, NEW ms, Fits(ms), orphaned' \/ Lifts(ms),
         wire' = IF phase = "up" THEN wire \o ms ELSE wire,
         UNCHANGED <<NotAndroid, mode>>,
         down' \subseteq Pointers, hovering' \in BOOLEAN, barrel' \in BOOLEAN,
         deckShown' \in BOOLEAN, active' \in Pointers \cup {None},
         active' # None => Target(active') = "mouse",
         orphaned' \in BOOLEAN, orphaned => orphaned'
  PROVE  IInv'
<1>. USE DEF NotAndroid, touchVars, threadVars
<1>0. wire \in Seq(Messages) /\ ms \in Seq(Messages)
  BY DEF IInv, TypeOK, TabletTypeOK, Fits
<1>1. wire' \in Seq(Messages)
  BY <1>0, ConcatProperties
<1>2. TypeOK'
  BY <1>1 DEF IInv, TypeOK, TabletTypeOK, DesktopTypeOK
<1>3. InjectorInv'
  <2>1. OneSlotEach(slots)'
    BY DEF IInv, InjectorInv
  <2>2. Session'
    BY DEF IInv, InjectorInv, Session
  <2>3. HeldIsRepeated'
    BY DEF IInv, InjectorInv, HeldIsRepeated
  <2>4. Match'
    BY DEF IInv, InjectorInv, Match
  <2>. QED  BY <2>1, <2>2, <2>3, <2>4 DEF InjectorInv
<1>4. Routed'
  <2>1. \A k \in DOMAIN wire' :
          wire'[k] \in PointerMessages => Target(wire'[k].id) = wire'[k].kind
    <3>1. CASE phase = "up"
      <4>1. /\ Len(wire) \in Nat /\ Len(ms) \in Nat
            /\ DOMAIN wire = 1..Len(wire) /\ DOMAIN ms = 1..Len(ms)
            /\ DOMAIN (wire \o ms) = 1..(Len(wire) + Len(ms))
            /\ \A k \in 1..(Len(wire) + Len(ms)) :
                 (wire \o ms)[k] = IF k <= Len(wire) THEN wire[k] ELSE ms[k - Len(wire)]
        BY <1>0, LenProperties, ConcatProperties
      <4>. SUFFICES ASSUME NEW k \in 1..(Len(wire) + Len(ms)),
                           (wire \o ms)[k] \in PointerMessages
                    PROVE  Target((wire \o ms)[k].id) = (wire \o ms)[k].kind
        BY <3>1, <4>1
      <4>2. CASE k <= Len(wire)
        <5>1. k \in DOMAIN wire /\ (wire \o ms)[k] = wire[k]
          BY <4>1, <4>2
        <5>. QED  BY <5>1 DEF IInv, Routed
      <4>3. CASE ~(k <= Len(wire))
        <5>1. k - Len(wire) \in DOMAIN ms /\ (wire \o ms)[k] = ms[k - Len(wire)]
          BY <4>1, <4>3
        <5>. QED  BY <5>1 DEF Fits
      <4>. QED  BY <4>2, <4>3
    <3>2. CASE phase # "up"
      BY <3>2 DEF IInv, Routed
    <3>. QED  BY <3>1, <3>2
  <2>2. \A p : Target(p)' = Target(p)
    BY DEF Target
  <2>. QED  BY <2>1, <2>2 DEF IInv, Routed, Target
<1>5. WireSettles'
  <2>. SUFFICES ASSUME phase = "up", ~orphaned', rejects = 0
                PROVE  /\ \A p \in Pointers \ down' :
                            Settled(wire', p \in os.touch, TouchPresses(p), TouchLifts(p))
                       /\ Stylus \notin down' => Settled(wire', os.pen, PenPresses, PenLifts)
                       /\ ~MouseHeld' =>
                            Settled(wire', buttons # {}, MousePresses, MouseLifts)
    BY DEF WireSettles
  <2>1. /\ wire' = wire \o ms /\ Lifts(ms) /\ ~orphaned
        /\ Match /\ phase \in {"up", "touch", "join"}
    BY DEF IInv, InjectorInv
  <2>2. /\ \A p \in Pointers \ down :
             Settled(wire, p \in os.touch, TouchPresses(p), TouchLifts(p))
        /\ Stylus \notin down => Settled(wire, os.pen, PenPresses, PenLifts)
        /\ ~MouseHeld => Settled(wire, buttons # {}, MousePresses, MouseLifts)
    BY <2>1 DEF IInv, WireSettles
  <2>3. ASSUME NEW p \in Pointers \ down'
        PROVE  Settled(wire', p \in os.touch, TouchPresses(p), TouchLifts(p))
    <3>1. CASE Target(p) = "touch"
      <4>1. \A k \in DOMAIN ms : ms[k] \notin TouchPresses(p)
        BY <2>1, <2>3, <3>1 DEF Lifts
      <4>2. \/ Settled(wire, p \in os.touch, TouchPresses(p), TouchLifts(p))
            \/ \E k \in DOMAIN ms : ms[k] \in TouchLifts(p)
        BY <2>1, <2>2, <2>3, <3>1 DEF Lifts
      <4>. QED  BY <1>0, <2>1, <4>1, <4>2, SettledAppend
    <3>2. CASE Target(p) # "touch"
      <4>1. p \notin os.touch
        BY <3>2 DEF IInv, Routed
      <4>2. \A k \in DOMAIN wire' : wire'[k] \notin TouchPresses(p)
        <5>. SUFFICES ASSUME NEW k \in DOMAIN wire', wire'[k] \in TouchPresses(p) PROVE FALSE
          OBVIOUS
        <5>1. /\ wire'[k] \in Messages /\ wire'[k].kind = "touch" /\ wire'[k].id = p
              /\ wire'[k].act # "cancelAll"
          BY DEF TouchPresses
        <5>2. wire'[k] \in PointerMessages
          BY <5>1 DEF Messages, MouseMessages, CancelMessages
        <5>3. Target(p)' = "touch"
          BY <1>4, <5>1, <5>2 DEF Routed
        <5>. QED  BY <3>2, <5>3 DEF Target
      <4>. QED  BY <4>1, <4>2 DEF Settled
    <3>. QED  BY <3>1, <3>2
  <2>4. ASSUME Stylus \notin down'
        PROVE  Settled(wire', os.pen, PenPresses, PenLifts)
    <3>1. CASE mode.stylus = "pen"
      <4>1. \A k \in DOMAIN ms : ms[k] \notin PenPresses
        BY <2>1, <2>4, <3>1 DEF Lifts
      <4>2. \/ Settled(wire, os.pen, PenPresses, PenLifts)
            \/ \E k \in DOMAIN ms : ms[k] \in PenLifts
        BY <2>1, <2>2, <2>4, <3>1 DEF Lifts
      <4>. QED  BY <1>0, <2>1, <4>1, <4>2, SettledAppend
    <3>2. CASE mode.stylus # "pen"
      <4>1. ~os.pen
        BY <3>2 DEF IInv, Routed
      <4>2. \A k \in DOMAIN wire' : wire'[k] \notin PenPresses
        <5>. SUFFICES ASSUME NEW k \in DOMAIN wire', wire'[k] \in PenPresses PROVE FALSE
          OBVIOUS
        <5>1. /\ wire'[k] \in Messages /\ wire'[k].kind = "pen" /\ wire'[k].act # "cancelAll"
          BY DEF PenPresses
        <5>2. wire'[k] \in PointerMessages
          BY <5>1 DEF Messages, MouseMessages, CancelMessages
        <5>3. PICK q \in Pointers : q = wire'[k].id
          BY <5>2 DEF PointerMessages
        <5>4. Target(q) = "pen"
          BY <1>4, <5>1, <5>2, <5>3 DEF Routed, Target
        <5>5. mode \in Modes
          BY DEF IInv, TypeOK, TabletTypeOK
        <5>. QED  BY <3>2, <5>3, <5>4, <5>5, TargetIs
      <4>. QED  BY <4>1, <4>2 DEF Settled
    <3>. QED  BY <3>1, <3>2
  <2>5. ASSUME ~MouseHeld'
        PROVE  Settled(wire', buttons # {}, MousePresses, MouseLifts)
    <3>1. \A k \in DOMAIN ms : ms[k] \notin MousePresses
      BY <2>1, <2>5 DEF Lifts
    <3>2. \/ Settled(wire, buttons # {}, MousePresses, MouseLifts)
          \/ \E k \in DOMAIN ms : ms[k] \in MouseLifts
      BY <2>1, <2>2, <2>5 DEF Lifts
    <3>. QED  BY <1>0, <2>1, <3>1, <3>2, SettledAppend
  <2>. QED  BY <2>3, <2>4, <2>5
<1>. QED  BY <1>2, <1>3, <1>4, <1>5 DEF IInv

(* A pointer goes down.                                                    *)
LEMMA PressKeeps ==
  ASSUME IInv, NEW p \in Pointers, Press(p)
  PROVE  IInv'
<1>. USE DEF NotAndroid, touchVars, threadVars
<1>1. /\ mode \in Modes /\ barrel' = barrel /\ barrel \in BOOLEAN
      /\ down \subseteq Pointers /\ down' = down \cup {p} /\ p \notin down
      /\ wire \in Seq(Messages) /\ active \in Pointers \cup {None}
      /\ active # None => Target(active) = "mouse"
  BY DEF IInv, TypeOK, TabletTypeOK, Routed, Press
<1>2. /\ UNCHANGED <<NotAndroid, mode, hovering, deckShown>>
      /\ "down" \in Acts
  BY DEF Press, Touched, Acts
<1>. DEFINE route == RoutePointer(p, "down")
<1>3. CASE deckShown
  <2>1. wire' = wire /\ active' = active /\ orphaned' = (orphaned \/ FALSE)
    BY <1>3 DEF Press, Touched
  <2>2. wire \o <<>> = wire /\ <<>> \in Seq(Messages) /\ DOMAIN <<>> = {}
    BY <1>1, ConcatEmptySeq, EmptySeq
  <2>3. Fits(<<>>)
    BY <2>2 DEF Fits
  <2>4. MouseHeld => MouseHeld'
    BY <1>1, <1>2, <2>1 DEF MouseHeld
  <2>5. Lifts(<<>>)
    BY <1>1, <2>2, <2>4 DEF Lifts
  <2>6. wire' = IF phase = "up" THEN wire \o <<>> ELSE wire
    BY <2>1, <2>2
  <2>7. orphaned' \in BOOLEAN /\ (orphaned => orphaned')
    BY <2>1
  <2>8. /\ down' \subseteq Pointers /\ hovering' \in BOOLEAN /\ barrel' \in BOOLEAN
        /\ deckShown' \in BOOLEAN /\ active' \in Pointers \cup {None}
        /\ active' # None => Target(active') = "mouse"
    BY <1>1, <1>2, <2>1 DEF IInv, TypeOK, TabletTypeOK
  <2>. QED  BY <1>2, <2>3, <2>5, <2>6, <2>7, <2>8, TabletStep
<1>4. CASE ~deckShown
  <2>1. /\ wire' = IF phase = "up" THEN wire \o route ELSE wire
        /\ active' = ActiveAfter(p, "down") /\ orphaned' = orphaned
    BY <1>4 DEF Press, Touched, Transmit
  <2>2. /\ route \in Seq(Messages)
        /\ \A k \in DOMAIN route :
             /\ route[k] \in Messages /\ route[k].kind = Target(p)
             /\ route[k].id = p /\ route[k].act = "down"
             /\ route[k].kind = "mouse" => DrivesMouse(p, "down")
        /\ Target(p) # "mouse" \/ DrivesMouse(p, "down") => 1 \in DOMAIN route
    BY <1>1, <1>2, RouteIs
  <2>. HIDE DEF route
  <2>3. Fits(route)
    BY <2>2 DEF Fits
  <2>4. Target(p) = "mouse" /\ DrivesMouse(p, "down") => active' = p
    BY <2>1 DEF ActiveAfter
  <2>5. ~(Target(p) = "mouse" /\ DrivesMouse(p, "down")) => active' = active
    BY <2>1 DEF ActiveAfter
  <2>6. MouseHeld => MouseHeld'
    BY <1>1, <1>2, <2>4, <2>5 DEF MouseHeld
  <2>7. Target(p) = "mouse" /\ DrivesMouse(p, "down") => MouseHeld'
    BY <1>1, <2>4 DEF MouseHeld
  <2>8. Lifts(route)
    <3>1. \A q \in Pointers \ down' : Target(q) = "touch" =>
            /\ \A k \in DOMAIN route : route[k] \notin TouchPresses(q)
            /\ q \notin down
      BY <1>1, <2>2 DEF TouchPresses
    <3>2. Stylus \notin down' /\ mode.stylus = "pen" =>
            /\ \A k \in DOMAIN route : route[k] \notin PenPresses
            /\ Stylus \notin down
      BY <1>1, <2>2, TargetIs DEF PenPresses
    <3>3. ~MouseHeld' => \A k \in DOMAIN route : route[k] \notin MousePresses
      BY <2>2, <2>7 DEF MousePresses
    <3>. QED  BY <2>6, <3>1, <3>2, <3>3 DEF Lifts
  <2>9. /\ down' \subseteq Pointers /\ hovering' \in BOOLEAN /\ barrel' \in BOOLEAN
        /\ deckShown' \in BOOLEAN /\ active' \in Pointers \cup {None}
        /\ active' # None => Target(active') = "mouse"
    BY <1>1, <1>2, <2>4, <2>5 DEF IInv, TypeOK, TabletTypeOK
  <2>10. orphaned' \in BOOLEAN /\ (orphaned => orphaned')
    BY <2>1 DEF IInv, TypeOK, DesktopTypeOK
  <2>. QED  BY <1>2, <2>1, <2>3, <2>8, <2>9, <2>10, TabletStep
<1>. QED  BY <1>3, <1>4

(* A pointer leaves the tablet, or its gesture is cancelled.               *)
LEMMA ReleaseKeeps ==
  ASSUME IInv, NEW p \in Pointers, Release(p)
  PROVE  IInv'
<1>. USE DEF NotAndroid, touchVars, threadVars
<1>0. PICK act \in {"up", "cancel"} : Touched(p, act)
  BY DEF Release
<1>1. /\ mode \in Modes /\ barrel' = barrel /\ barrel \in BOOLEAN
      /\ down \subseteq Pointers /\ down' = down \ {p} /\ p \in down
      /\ wire \in Seq(Messages) /\ active \in Pointers \cup {None}
      /\ active # None => Target(active) = "mouse"
      /\ orphaned \in BOOLEAN
  BY DEF IInv, TypeOK, TabletTypeOK, DesktopTypeOK, Routed, Release
<1>2. /\ UNCHANGED <<NotAndroid, mode, hovering, deckShown>>
      /\ act \in Acts /\ act \notin {"down", "move", "button"}
  BY <1>0 DEF Touched, Acts
<1>. DEFINE route == RoutePointer(p, act)
<1>3. CASE deckShown
  <2>1. wire' = wire /\ active' = active /\ orphaned'
    BY <1>0, <1>3 DEF Touched
  <2>2. wire \o <<>> = wire /\ <<>> \in Seq(Messages) /\ DOMAIN <<>> = {}
    BY <1>1, ConcatEmptySeq, EmptySeq
  <2>3. Fits(<<>>)
    BY <2>2 DEF Fits
  <2>6. wire' = IF phase = "up" THEN wire \o <<>> ELSE wire
    BY <2>1, <2>2
  <2>7. orphaned' \in BOOLEAN
    <3>1. orphaned' = (orphaned \/ act \in {"up", "cancel"})
      BY <1>0, <1>3 DEF Touched
    <3>. QED  BY <3>1
  <2>8. /\ down' \subseteq Pointers /\ hovering' \in BOOLEAN /\ barrel' \in BOOLEAN
        /\ deckShown' \in BOOLEAN /\ active' \in Pointers \cup {None}
        /\ active' # None => Target(active') = "mouse"
    BY <1>1, <1>2, <2>1 DEF IInv, TypeOK, TabletTypeOK
  <2>. QED  BY <1>2, <2>1, <2>3, <2>6, <2>7, <2>8, TabletStep
<1>4. CASE ~deckShown
  <2>1. /\ wire' = IF phase = "up" THEN wire \o route ELSE wire
        /\ active' = ActiveAfter(p, act) /\ orphaned' = orphaned
    BY <1>0, <1>4 DEF Touched, Transmit
  <2>2. /\ route \in Seq(Messages)
        /\ \A k \in DOMAIN route :
             /\ route[k] \in Messages /\ route[k].kind = Target(p)
             /\ route[k].id = p /\ route[k].act = act
        /\ Target(p) # "mouse" \/ DrivesMouse(p, act) => 1 \in DOMAIN route
    BY <1>1, <1>2, RouteIs
  <2>. HIDE DEF route
  <2>3. Fits(route)
    BY <2>2 DEF Fits
  <2>4. active' # active => active' = None
    BY <1>0, <2>1 DEF ActiveAfter
  <2>5. DrivesMouse(p, act) <=> active = p
    BY <1>0 DEF DrivesMouse
  <2>6. p # None
    BY Sizes
  <2>7. active = p => 1 \in DOMAIN route /\ route[1].kind = "mouse"
    BY <1>1, <2>2, <2>5, <2>6
  <2>8. active # p => active' = active
    BY <2>1, <2>5 DEF ActiveAfter
  <2>9. Lifts(route)
    <3>1. \A q \in Pointers \ down' : Target(q) = "touch" =>
            /\ \A k \in DOMAIN route : route[k] \notin TouchPresses(q)
            /\ q \in down => \E k \in DOMAIN route : route[k] \in TouchLifts(q)
      <4>. SUFFICES ASSUME NEW q \in Pointers \ down', Target(q) = "touch"
                    PROVE  /\ \A k \in DOMAIN route : route[k] \notin TouchPresses(q)
                           /\ q \in down => \E k \in DOMAIN route : route[k] \in TouchLifts(q)
        OBVIOUS
      <4>1. \A k \in DOMAIN route : route[k] \notin TouchPresses(q)
        BY <1>2, <2>2 DEF TouchPresses
      <4>2. ASSUME q \in down PROVE 1 \in DOMAIN route /\ route[1] \in TouchLifts(q)
        <5>1. q = p
          BY <1>1, <4>2
        <5>2. 1 \in DOMAIN route
          BY <2>2, <5>1
        <5>. QED  BY <1>2, <2>2, <5>1, <5>2 DEF TouchLifts
      <4>. QED  BY <4>1, <4>2
    <3>2. Stylus \notin down' /\ mode.stylus = "pen" =>
            /\ \A k \in DOMAIN route : route[k] \notin PenPresses
            /\ Stylus \in down => \E k \in DOMAIN route : route[k] \in PenLifts
      <4>. SUFFICES ASSUME Stylus \notin down', mode.stylus = "pen"
                    PROVE  /\ \A k \in DOMAIN route : route[k] \notin PenPresses
                           /\ Stylus \in down => \E k \in DOMAIN route : route[k] \in PenLifts
        OBVIOUS
      <4>1. \A k \in DOMAIN route : route[k] \notin PenPresses
        BY <1>2, <2>2 DEF PenPresses
      <4>2. ASSUME Stylus \in down PROVE 1 \in DOMAIN route /\ route[1] \in PenLifts
        <5>1. p = Stylus
          BY <1>1, <4>2
        <5>2. Target(p) = "pen"
          BY <1>1, <5>1, TargetIs
        <5>3. 1 \in DOMAIN route
          BY <2>2, <5>2
        <5>. QED  BY <1>2, <2>2, <5>2, <5>3 DEF PenLifts
      <4>. QED  BY <4>1, <4>2
    <3>3. \A k \in DOMAIN route : Desired(route[k]) = {}
      BY <1>0, <2>2 DEF Desired
    <3>4. ASSUME ~MouseHeld', MouseHeld
          PROVE  \E k \in DOMAIN route : route[k] \in MouseLifts
      <4>1. CASE active = p
        BY <2>2, <2>7, <3>3, <4>1 DEF MouseLifts
      <4>2. CASE active # p
        <5>1. active' = active /\ (active \in down => active \in down')
          BY <1>1, <2>8, <4>2
        <5>. QED  BY <1>1, <1>2, <3>4, <5>1 DEF MouseHeld
      <4>. QED  BY <4>1, <4>2
    <3>. QED  BY <3>1, <3>2, <3>3, <3>4 DEF Lifts, MousePresses
  <2>10. /\ down' \subseteq Pointers /\ hovering' \in BOOLEAN /\ barrel' \in BOOLEAN
         /\ deckShown' \in BOOLEAN /\ active' \in Pointers \cup {None}
         /\ active' # None => Target(active') = "mouse"
    BY <1>1, <1>2, <2>4 DEF IInv, TypeOK, TabletTypeOK
  <2>. QED  BY <1>1, <1>2, <2>1, <2>3, <2>9, <2>10, TabletStep
<1>. QED  BY <1>3, <1>4

(* A pointer moves.                                                        *)
LEMMA MoveKeeps ==
  ASSUME IInv, NEW p \in Pointers, Move(p)
  PROVE  IInv'
<1>. DEFINE route == RoutePointer(p, "move")
<1>1. /\ mode \in Modes /\ barrel' = barrel /\ barrel \in BOOLEAN
      /\ p \in down /\ "move" \in Acts
      /\ active \in Pointers \cup {None}
      /\ active # None => Target(active) = "mouse"
      /\ UNCHANGED <<NotAndroid, mode, down, hovering, active, deckShown, orphaned>>
      /\ wire' = IF phase = "up" THEN wire \o route ELSE wire
  BY DEF IInv, TypeOK, TabletTypeOK, Routed, Move, Transmit, Acts
<1>2. /\ route \in Seq(Messages)
      /\ \A k \in DOMAIN route :
           /\ route[k] \in Messages /\ route[k].kind = Target(p)
           /\ route[k].id = p /\ route[k].act = "move"
           /\ route[k].kind = "mouse" => DrivesMouse(p, "move")
  BY <1>1, RouteIs
<1>. HIDE DEF route
<1>3. Fits(route)
  BY <1>2 DEF Fits
<1>4. DrivesMouse(p, "move") => MouseHeld'
  BY <1>1 DEF DrivesMouse, MouseHeld
<1>5. MouseHeld' <=> MouseHeld
  BY <1>1 DEF MouseHeld
<1>6. Lifts(route)
  <2>1. \A q \in Pointers \ down' : Target(q) = "touch" =>
          /\ \A k \in DOMAIN route : route[k] \notin TouchPresses(q)
          /\ q \notin down
    BY <1>1, <1>2 DEF TouchPresses
  <2>2. Stylus \notin down' /\ mode.stylus = "pen" =>
          /\ \A k \in DOMAIN route : route[k] \notin PenPresses
          /\ Stylus \notin down
    <3>. SUFFICES ASSUME Stylus \notin down', NEW k \in DOMAIN route PROVE route[k] \notin PenPresses
      BY <1>1
    <3>1. p # Stylus
      BY <1>1
    <3>2. Target(p) # "pen"
      BY <1>1, <3>1, TargetIs
    <3>. QED  BY <1>2, <3>2 DEF PenPresses
  <2>3. ~MouseHeld' => \A k \in DOMAIN route : route[k] \notin MousePresses
    BY <1>2, <1>4 DEF MousePresses
  <2>. QED  BY <1>5, <2>1, <2>2, <2>3 DEF Lifts
<1>7. /\ down' \subseteq Pointers /\ hovering' \in BOOLEAN /\ barrel' \in BOOLEAN
      /\ deckShown' \in BOOLEAN /\ active' \in Pointers \cup {None}
      /\ active' # None => Target(active') = "mouse"
      /\ orphaned' \in BOOLEAN /\ (orphaned => orphaned')
  BY <1>1 DEF IInv, TypeOK, TabletTypeOK, DesktopTypeOK
<1>8. UNCHANGED <<NotAndroid, mode>>
  BY <1>1
<1>. QED  BY <1>1, <1>3, <1>6, <1>7, <1>8, TabletStep

(* The deck is shown or hidden: nothing is sent.                           *)
LEMMA ToggleDeckKeeps ==
  ASSUME IInv, ToggleDeck
  PROVE  IInv'
<1>1. /\ UNCHANGED <<wire, NotAndroid, mode, down, hovering, barrel, active, orphaned>>
      /\ deckShown' = ~deckShown /\ wire \in Seq(Messages)
  BY DEF IInv, TypeOK, TabletTypeOK, ToggleDeck
<1>2. wire \o <<>> = wire /\ <<>> \in Seq(Messages) /\ DOMAIN <<>> = {}
  BY <1>1, ConcatEmptySeq, EmptySeq
<1>3. Fits(<<>>)
  BY <1>2 DEF Fits
<1>4. MouseHeld' <=> MouseHeld
  BY <1>1 DEF MouseHeld
<1>5. Lifts(<<>>)
  BY <1>1, <1>2, <1>4 DEF Lifts
<1>6. wire' = IF phase = "up" THEN wire \o <<>> ELSE wire
  BY <1>1, <1>2
<1>7. /\ down' \subseteq Pointers /\ hovering' \in BOOLEAN /\ barrel' \in BOOLEAN
      /\ deckShown' \in BOOLEAN /\ active' \in Pointers \cup {None}
      /\ active' # None => Target(active') = "mouse"
      /\ orphaned' \in BOOLEAN /\ (orphaned => orphaned')
  BY <1>1 DEF IInv, TypeOK, TabletTypeOK, DesktopTypeOK, Routed
<1>8. UNCHANGED <<NotAndroid, mode>>
  BY <1>1
<1>. QED  BY <1>3, <1>5, <1>6, <1>7, <1>8, TabletStep

(* ACTION_CANCEL: one cancellation for each device a pointer drives.       *)
LEMMA RouteCancelAllIs ==
  /\ RouteCancelAll \in Seq(CancelMessages \cup MouseMessages)
  /\ \A k \in DOMAIN RouteCancelAll :
       /\ RouteCancelAll[k].act \in {"cancelAll", "cancel"}
       /\ RouteCancelAll[k].id = None
       /\ RouteCancelAll[k].kind # "mouse" => RouteCancelAll[k].act = "cancelAll"
  /\ \A kind \in {"touch", "pen", "mouse"} : kind \in {Target(p) : p \in down} =>
       \E k \in DOMAIN RouteCancelAll :
         /\ RouteCancelAll[k].kind = kind
         /\ kind # "mouse" => RouteCancelAll[k].act = "cancelAll"
         /\ kind = "mouse" => RouteCancelAll[k].act = "cancel"
<1>. DEFINE targets == {Target(p) : p \in down}
            C == CancelMessages \cup MouseMessages
            t == Message("touch", "cancelAll", None, {})
            q == Message("pen", "cancelAll", None, {})
            m == Message("mouse", "cancel", None, {})
            a == IF "touch" \in targets THEN <<t>> ELSE <<>>
            b == IF "pen" \in targets THEN <<q>> ELSE <<>>
            c == IF "mouse" \in targets THEN <<m>> ELSE <<>>
<1>1. RouteCancelAll = (a \o b) \o c
  BY DEF RouteCancelAll
<1>2. t \in C /\ q \in C
  BY DEF Message, CancelMessages
<1>3. m \in C
  BY DEF Message, MouseMessages, Acts, Buttons
<1>4. /\ t.kind = "touch" /\ t.act = "cancelAll" /\ t.id = None
      /\ q.kind = "pen" /\ q.act = "cancelAll" /\ q.id = None
      /\ m.kind = "mouse" /\ m.act = "cancel" /\ m.id = None
  BY DEF Message
<1>. HIDE DEF targets, t, q, m, C
<1>5. /\ a \in Seq(C) /\ b \in Seq(C) /\ c \in Seq(C)
  BY <1>2, <1>3
<1>6. /\ Len(a) \in {0, 1} /\ ("touch" \in targets => Len(a) = 1 /\ a[1] = t)
      /\ \A k \in 1..Len(a) : a[k] = t
  BY <1>2
<1>7. /\ Len(b) \in {0, 1} /\ ("pen" \in targets => Len(b) = 1 /\ b[1] = q)
      /\ \A k \in 1..Len(b) : b[k] = q
  BY <1>2
<1>8. /\ Len(c) \in {0, 1} /\ ("mouse" \in targets => Len(c) = 1 /\ c[1] = m)
      /\ \A k \in 1..Len(c) : c[k] = m
  BY <1>3
<1>. HIDE DEF a, b, c
<1>. DEFINE r == (a \o b) \o c
<1>9. /\ r \in Seq(C) /\ DOMAIN r = 1..(Len(a) + Len(b) + Len(c))
      /\ \A k \in 1..Len(a) : r[k] = a[k]
      /\ \A k \in 1..Len(b) : r[Len(a) + k] = b[k]
      /\ \A k \in 1..Len(c) : r[Len(a) + Len(b) + k] = c[k]
  <2>1. /\ a \o b \in Seq(C) /\ Len(a \o b) = Len(a) + Len(b)
        /\ \A k \in 1..(Len(a) + Len(b)) :
             (a \o b)[k] = IF k <= Len(a) THEN a[k] ELSE b[k - Len(a)]
    BY <1>5, ConcatProperties
  <2>2. /\ r \in Seq(C) /\ Len(r) = Len(a \o b) + Len(c)
        /\ \A k \in 1..(Len(a \o b) + Len(c)) :
             r[k] = IF k <= Len(a \o b) THEN (a \o b)[k] ELSE c[k - Len(a \o b)]
    BY <1>5, <2>1, ConcatProperties
  <2>3. DOMAIN r = 1..Len(r)
    BY <2>2, LenProperties
  <2>. HIDE DEF r
  <2>4. \A k \in 1..Len(a) : r[k] = a[k]
    BY <1>6, <1>7, <1>8, <2>1, <2>2
  <2>5. \A k \in 1..Len(b) : r[Len(a) + k] = b[k]
    <3>. SUFFICES ASSUME NEW k \in 1..Len(b) PROVE r[Len(a) + k] = b[k]
      OBVIOUS
    <3>1. /\ Len(a) + k \in 1..(Len(a) + Len(b)) /\ ~(Len(a) + k <= Len(a))
          /\ Len(a) + k \in 1..(Len(a) + Len(b) + Len(c)) /\ Len(a) + k - Len(a) = k
      BY <1>6, <1>7, <1>8
    <3>. QED  BY <2>1, <2>2, <3>1
  <2>6. \A k \in 1..Len(c) : r[Len(a) + Len(b) + k] = c[k]
    <3>. SUFFICES ASSUME NEW k \in 1..Len(c) PROVE r[Len(a) + Len(b) + k] = c[k]
      OBVIOUS
    <3>1. /\ Len(a) + Len(b) + k \in 1..(Len(a) + Len(b) + Len(c))
          /\ ~(Len(a) + Len(b) + k <= Len(a) + Len(b))
          /\ Len(a) + Len(b) + k - (Len(a) + Len(b)) = k
      BY <1>6, <1>7, <1>8
    <3>. QED  BY <2>1, <2>2, <3>1
  <2>. QED  BY <2>1, <2>2, <2>3, <2>4, <2>5, <2>6
<1>. HIDE DEF r
<1>10. \A k \in DOMAIN r : r[k] \in {t, q, m}
  <2>. SUFFICES ASSUME NEW k \in 1..(Len(a) + Len(b) + Len(c)) PROVE r[k] \in {t, q, m}
    BY <1>9
  <2>1. CASE k \in 1..Len(a)
    BY <1>6, <1>9, <2>1
  <2>2. CASE k - Len(a) \in 1..Len(b)
    <3>1. k = Len(a) + (k - Len(a))
      BY <1>6
    <3>. QED  BY <1>7, <1>9, <2>2, <3>1
  <2>3. CASE k - Len(a) - Len(b) \in 1..Len(c)
    <3>1. k = Len(a) + Len(b) + (k - Len(a) - Len(b))
      BY <1>6, <1>7
    <3>. QED  BY <1>8, <1>9, <2>3, <3>1
  <2>4. k \in 1..Len(a) \/ k - Len(a) \in 1..Len(b) \/ k - Len(a) - Len(b) \in 1..Len(c)
    BY <1>6, <1>7, <1>8
  <2>. QED  BY <2>1, <2>2, <2>3, <2>4
<1>11. "touch" \in targets => 1 \in DOMAIN r /\ r[1] = t
  BY <1>6, <1>7, <1>8, <1>9
<1>12. "pen" \in targets => Len(a) + 1 \in DOMAIN r /\ r[Len(a) + 1] = q
  BY <1>6, <1>7, <1>8, <1>9
<1>13. "mouse" \in targets => Len(a) + Len(b) + 1 \in DOMAIN r /\ r[Len(a) + Len(b) + 1] = m
  BY <1>6, <1>7, <1>8, <1>9
<1>. QED  BY <1>1, <1>4, <1>9, <1>10, <1>11, <1>12, <1>13 DEF r, targets, C

(* The gesture of every pointer ends at once.                              *)
LEMMA CancelGestureKeeps ==
  ASSUME IInv, CancelGesture
  PROVE  IInv'
<1>. USE DEF NotAndroid, touchVars, threadVars
<1>1. /\ mode \in Modes /\ barrel \in BOOLEAN /\ hovering \in BOOLEAN /\ deckShown \in BOOLEAN
      /\ down \subseteq Pointers /\ down' = {}
      /\ wire \in Seq(Messages) /\ active \in Pointers \cup {None}
      /\ active # None => Target(active) = "mouse"
      /\ orphaned \in BOOLEAN
      /\ UNCHANGED <<NotAndroid, mode, hovering, barrel, deckShown>>
  BY DEF IInv, TypeOK, TabletTypeOK, DesktopTypeOK, Routed, CancelGesture
<1>2. /\ down' \subseteq Pointers /\ hovering' \in BOOLEAN /\ barrel' \in BOOLEAN
      /\ deckShown' \in BOOLEAN
  BY <1>1
<1>. DEFINE route == RouteCancelAll
<1>3. CASE deckShown
  <2>1. wire' = wire /\ active' = active /\ orphaned'
    BY <1>3 DEF CancelGesture
  <2>2. wire \o <<>> = wire /\ <<>> \in Seq(Messages) /\ DOMAIN <<>> = {}
    BY <1>1, ConcatEmptySeq, EmptySeq
  <2>3. Fits(<<>>)
    BY <2>2 DEF Fits
  <2>4. wire' = IF phase = "up" THEN wire \o <<>> ELSE wire
    BY <2>1, <2>2
  <2>5. orphaned' \in BOOLEAN
    BY <1>3 DEF CancelGesture
  <2>6. active' \in Pointers \cup {None} /\ (active' # None => Target(active') = "mouse")
    BY <1>1, <2>1
  <2>. QED  BY <1>1, <1>2, <2>1, <2>3, <2>4, <2>5, <2>6, TabletStep
<1>4. CASE ~deckShown
  <2>1. /\ wire' = IF phase = "up" THEN wire \o route ELSE wire
        /\ active' = None /\ orphaned' = orphaned
    BY <1>4 DEF CancelGesture, Transmit
  <2>2. /\ route \in Seq(CancelMessages \cup MouseMessages)
        /\ \A k \in DOMAIN route :
             /\ route[k].act \in {"cancelAll", "cancel"} /\ route[k].id = None
             /\ route[k].kind # "mouse" => route[k].act = "cancelAll"
        /\ \A kind \in {"touch", "pen", "mouse"} : kind \in {Target(p) : p \in down} =>
             \E k \in DOMAIN route :
               /\ route[k].kind = kind
               /\ kind # "mouse" => route[k].act = "cancelAll"
               /\ kind = "mouse" => route[k].act = "cancel"
    BY RouteCancelAllIs
  <2>. HIDE DEF route
  <2>3. \A k \in DOMAIN route : route[k] \in CancelMessages \cup MouseMessages
    BY <2>2, ElementOfSeq
  <2>4. \A k \in DOMAIN route : /\ route[k] \in Messages /\ route[k] \notin PointerMessages
                                /\ Desired(route[k]) = {}
    <3>1. \A x \in CancelMessages \cup MouseMessages : x \in Messages
      BY DEF Messages
    <3>2. \A x \in PointerMessages : x.id # None
      BY Sizes DEF PointerMessages
    <3>3. \A x \in CancelMessages : x.btn = {}
      BY DEF CancelMessages
    <3>4. \A x \in MouseMessages : x.act \in Acts /\ x.act # "cancelAll"
      BY DEF MouseMessages, Acts
    <3>. QED  BY <2>2, <2>3, <3>1, <3>2, <3>3, <3>4 DEF Desired
  <2>5. route \in Seq(Messages)
    <3>1. CancelMessages \cup MouseMessages \subseteq Messages
      BY DEF Messages
    <3>2. route \in Seq(Messages)
      BY <2>2, <2>4, SeqDef, LenProperties
    <3>. QED  BY <3>2
  <2>6. Fits(route)
    BY <2>4, <2>5 DEF Fits
  <2>7. Lifts(route)
    <3>1. \A q \in Pointers \ down' : Target(q) = "touch" =>
            /\ \A k \in DOMAIN route : route[k] \notin TouchPresses(q)
            /\ q \in down => \E k \in DOMAIN route : route[k] \in TouchLifts(q)
      BY <2>2, <2>4 DEF TouchPresses, TouchLifts
    <3>2. Stylus \notin down' /\ mode.stylus = "pen" =>
            /\ \A k \in DOMAIN route : route[k] \notin PenPresses
            /\ Stylus \in down => \E k \in DOMAIN route : route[k] \in PenLifts
      <4>1. mode.stylus = "pen" => Target(Stylus) = "pen"
        BY <1>1, Sizes, TargetIs
      <4>. QED  BY <2>2, <2>4, <4>1 DEF PenPresses, PenLifts
    <3>3. ASSUME ~MouseHeld', MouseHeld
          PROVE  \E k \in DOMAIN route : route[k] \in MouseLifts
      <4>1. active \in down
        BY <1>1, <2>1, <3>3 DEF MouseHeld
      <4>2. Target(active) = "mouse"
        BY <1>1, <4>1, Sizes
      <4>. QED  BY <2>2, <2>4, <4>1, <4>2 DEF MouseLifts
    <3>4. \A k \in DOMAIN route : route[k] \notin MousePresses
      BY <2>4 DEF MousePresses
    <3>. QED  BY <3>1, <3>2, <3>3, <3>4 DEF Lifts
  <2>8. active' \in Pointers \cup {None} /\ (active' # None => Target(active') = "mouse")
    BY <2>1
  <2>. QED  BY <1>1, <1>2, <2>1, <2>6, <2>7, <2>8, TabletStep
<1>. QED  BY <1>3, <1>4

(* The stylus hovers, leaves, or its button changes.                       *)
LEMMA GenericKeeps ==
  ASSUME IInv, NEW act \in {"hover", "leave", "button"}, Generic(act),
         hovering' \in BOOLEAN, barrel' \in BOOLEAN,
         act # "button" => Stylus \notin down /\ barrel' = barrel,
         act = "button" => barrel' = ~barrel
  PROVE  IInv'
<1>. DEFINE route == RoutePointer(Stylus, act)
<1>1. /\ mode \in Modes /\ barrel \in BOOLEAN /\ deckShown \in BOOLEAN
      /\ down \subseteq Pointers /\ act \in Acts /\ Stylus \in Pointers
      /\ active \in Pointers \cup {None}
      /\ active # None => Target(active) = "mouse"
      /\ orphaned \in BOOLEAN
      /\ UNCHANGED <<NotAndroid, mode, down, active, deckShown, orphaned>>
      /\ wire' = IF phase = "up" THEN wire \o route ELSE wire
  BY Sizes DEF IInv, TypeOK, TabletTypeOK, DesktopTypeOK, Routed, Generic, Transmit, Acts
<1>2. /\ route \in Seq(Messages)
      /\ \A k \in DOMAIN route :
           /\ route[k] \in Messages /\ route[k].kind = Target(Stylus)
           /\ route[k].id = Stylus /\ route[k].act = act
           /\ route[k].kind = "mouse" =>
                DrivesMouse(Stylus, act) /\ route[k].btn = DesiredButtons(Stylus, act)
      /\ Target(Stylus) # "mouse" \/ DrivesMouse(Stylus, act) => 1 \in DOMAIN route
  BY <1>1, RouteIs
<1>. HIDE DEF route
<1>3. Fits(route)
  BY <1>2 DEF Fits
<1>4. Target(Stylus) = mode.stylus
  BY <1>1, TargetIs
<1>5. DrivesMouse(Stylus, act) <=> active \in {None, Stylus}
  BY DEF DrivesMouse
<1>6. DesiredButtons(Stylus, act) # {} => barrel'
  BY DEF DesiredButtons
<1>7. barrel' /\ mode.stylus = "mouse" /\ active \in {None, Stylus} => MouseHeld'
  BY <1>1 DEF MouseHeld
<1>8. ASSUME ~MouseHeld', MouseHeld
      PROVE  \E k \in DOMAIN route : route[k] \in MouseLifts
  <2>1. act = "button" /\ barrel /\ ~barrel' /\ mode.stylus = "mouse" /\ active \in {None, Stylus}
    BY <1>1, <1>8 DEF MouseHeld
  <2>2. 1 \in DOMAIN route /\ route[1].kind = "mouse" /\ route[1] \in Messages
        /\ route[1].btn = {}
    BY <1>2, <1>4, <1>5, <1>6, <2>1
  <2>3. Desired(route[1]) = {}
    BY <2>2 DEF Desired
  <2>. QED  BY <2>2, <2>3 DEF MouseLifts
<1>9. Lifts(route)
  <2>1. \A q \in Pointers \ down' : Target(q) = "touch" =>
          /\ \A k \in DOMAIN route : route[k] \notin TouchPresses(q)
          /\ q \notin down
    BY <1>1, <1>2 DEF TouchPresses
  <2>2. Stylus \notin down' /\ mode.stylus = "pen" =>
          /\ \A k \in DOMAIN route : route[k] \notin PenPresses
          /\ Stylus \notin down
    BY <1>1, <1>2 DEF PenPresses
  <2>3. ASSUME ~MouseHeld', NEW k \in DOMAIN route PROVE route[k] \notin MousePresses
    <3>. SUFFICES ASSUME route[k].kind = "mouse" PROVE Desired(route[k]) = {}
      BY DEF MousePresses
    <3>1. route[k].btn = {}
      BY <1>2, <1>4, <1>5, <1>6, <1>7, <2>3
    <3>. QED  BY <3>1 DEF Desired
  <2>. QED  BY <1>8, <2>1, <2>2, <2>3 DEF Lifts
<1>10. /\ down' \subseteq Pointers /\ deckShown' \in BOOLEAN /\ active' \in Pointers \cup {None}
       /\ active' # None => Target(active') = "mouse"
       /\ orphaned' \in BOOLEAN /\ (orphaned => orphaned')
  <2>1. orphaned' = orphaned /\ orphaned' \in BOOLEAN
    BY <1>1
  <2>2. active' = active
    BY <1>1
  <2>3. active' # None => Target(active') = "mouse"
    BY <1>1, <2>2
  <2>4. down' \subseteq Pointers /\ deckShown' \in BOOLEAN /\ active' \in Pointers \cup {None}
    BY <1>1
  <2>. QED  BY <2>1, <2>3, <2>4
<1>11. UNCHANGED <<NotAndroid, mode>>
  BY <1>1
<1>. QED  BY <1>1, <1>3, <1>9, <1>10, <1>11, TabletStep

(* Every action of the tablet keeps the invariant.                         *)
LEMMA TabletKeeps ==
  ASSUME IInv, Tablet
  PROVE  IInv'
<1>0. hovering \in BOOLEAN /\ barrel \in BOOLEAN
  BY DEF IInv, TypeOK, TabletTypeOK
<1>1. ASSUME NEW p \in Pointers, Press(p) PROVE IInv'
  BY <1>1, PressKeeps
<1>2. ASSUME NEW p \in Pointers, Release(p) PROVE IInv'
  BY <1>2, ReleaseKeeps
<1>3. ASSUME NEW p \in Pointers, Move(p) PROVE IInv'
  BY <1>3, MoveKeeps
<1>4. CASE CancelGesture
  BY <1>4, CancelGestureKeeps
<1>5. CASE Hover
  <2>1. CASE hovering' = TRUE /\ Generic("hover")
    <3>1. Stylus \notin down /\ barrel' = barrel
      BY <1>5 DEF Hover
    <3>. QED  BY <1>0, <2>1, <3>1, GenericKeeps
  <2>2. CASE hovering' = FALSE /\ Generic("leave")
    <3>1. Stylus \notin down /\ barrel' = barrel
      BY <1>5 DEF Hover
    <3>. QED  BY <1>0, <2>2, <3>1, GenericKeeps
  <2>. QED  BY <1>5, <2>1, <2>2 DEF Hover
<1>6. CASE BarrelButton
  <2>1. barrel' = ~barrel /\ hovering' = hovering /\ Generic("button")
    BY <1>6 DEF BarrelButton
  <2>2. barrel' \in BOOLEAN /\ hovering' \in BOOLEAN
    BY <1>0, <2>1
  <2>. QED  BY <2>1, <2>2, GenericKeeps
<1>7. CASE ToggleDeck
  BY <1>7, ToggleDeckKeeps
<1>. QED  BY <1>1, <1>2, <1>3, <1>4, <1>5, <1>6, <1>7 DEF Tablet
-----------------------------------------------------------------------------
(* What the desktop does.                                                  *)

(* What the invariant says of a message that is about to be received.      *)
LEMMA HeadIs ==
  ASSUME IInv, wire # <<>>
  PROVE  /\ wire \in Seq(Messages) /\ Head(wire) \in Messages
         /\ Tail(wire) \in Seq(Messages)
         /\ Head(wire) \in PointerMessages => Target(Head(wire).id) = Head(wire).kind
         /\ \A k \in DOMAIN Tail(wire) : Tail(wire)[k] \in PointerMessages =>
              Target(Tail(wire)[k].id) = Tail(wire)[k].kind
<1>1. wire \in Seq(Messages)
  BY DEF IInv, TypeOK, TabletTypeOK
<1>2. /\ Head(wire) \in Messages /\ Tail(wire) \in Seq(Messages)
      /\ Len(Tail(wire)) = Len(wire) - 1
      /\ \A j \in 1..Len(Tail(wire)) : Tail(wire)[j] = wire[j + 1]
      /\ Head(wire) = wire[1] /\ Len(wire) \in Nat \ {0}
      /\ DOMAIN wire = 1..Len(wire) /\ DOMAIN Tail(wire) = 1..Len(Tail(wire))
  <2>1. /\ Head(wire) \in Messages /\ Tail(wire) \in Seq(Messages)
        /\ Len(Tail(wire)) = Len(wire) - 1
        /\ \A j \in 1..Len(Tail(wire)) : Tail(wire)[j] = wire[j + 1]
    BY <1>1, HeadTailProperties
  <2>2. Head(wire) = wire[1] /\ Len(wire) \in Nat \ {0}
    BY <1>1
  <2>. QED  BY <1>1, <2>1, <2>2, LenProperties
<1>3. \A k \in DOMAIN Tail(wire) : k + 1 \in DOMAIN wire /\ Tail(wire)[k] = wire[k + 1]
  BY <1>2
<1>4. 1 \in DOMAIN wire
  BY <1>2
<1>5. \A k \in DOMAIN wire : wire[k] \in PointerMessages => Target(wire[k].id) = wire[k].kind
  BY DEF IInv, Routed
<1>6. Head(wire) \in PointerMessages => Target(Head(wire).id) = Head(wire).kind
  BY <1>2, <1>4, <1>5
<1>7. \A k \in DOMAIN Tail(wire) : Tail(wire)[k] \in PointerMessages =>
        Target(Tail(wire)[k].id) = Tail(wire)[k].kind
  BY <1>3, <1>5
<1>. QED  BY <1>1, <1>2, <1>6, <1>7

(* A message received: the wire stays settled if what is held afterwards   *)
(* was held and not lifted, or is pressed by it.                           *)
LEMMA WireTail ==
  ASSUME IInv, phase = "up", wire # <<>>, wire' = Tail(wire), UNCHANGED <<android, phase>>,
         orphaned => orphaned', rejects' = 0 => rejects = 0,
         ~orphaned' /\ rejects' = 0 =>
           LET m == Head(wire)
           IN  /\ \A p \in Pointers :
                    p \in os'.touch => \/ p \in os.touch /\ m \notin TouchLifts(p)
                                       \/ m \in TouchPresses(p)
               /\ os'.pen => (os.pen /\ m \notin PenLifts) \/ m \in PenPresses
               /\ buttons' # {} => (buttons # {} /\ m \notin MouseLifts) \/ m \in MousePresses
  PROVE  WireSettles'
<1>. SUFFICES ASSUME ~orphaned', rejects' = 0
              PROVE  /\ \A p \in Pointers \ down :
                          Settled(Tail(wire), p \in os'.touch, TouchPresses(p), TouchLifts(p))
                     /\ Stylus \notin down => Settled(Tail(wire), os'.pen, PenPresses, PenLifts)
                     /\ ~MouseHeld =>
                          Settled(Tail(wire), buttons' # {}, MousePresses, MouseLifts)
  BY DEF WireSettles, MouseHeld, android
<1>1. wire \in Seq(Messages)
  BY HeadIs
<1>2. /\ \A p \in Pointers \ down :
           Settled(wire, p \in os.touch, TouchPresses(p), TouchLifts(p))
      /\ Stylus \notin down => Settled(wire, os.pen, PenPresses, PenLifts)
      /\ ~MouseHeld => Settled(wire, buttons # {}, MousePresses, MouseLifts)
  BY DEF IInv, WireSettles
<1>3. ASSUME NEW p \in Pointers \ down
      PROVE  Settled(Tail(wire), p \in os'.touch, TouchPresses(p), TouchLifts(p))
  <2>1. Settled(wire, p \in os.touch, TouchPresses(p), TouchLifts(p))
    BY <1>2, <1>3
  <2>2. p \in os'.touch => \/ p \in os.touch /\ Head(wire) \notin TouchLifts(p)
                           \/ Head(wire) \in TouchPresses(p)
    BY <1>3
  <2>. QED  BY <1>1, <2>1, <2>2, SettledTail
<1>4. ASSUME Stylus \notin down
      PROVE  Settled(Tail(wire), os'.pen, PenPresses, PenLifts)
  <2>1. Settled(wire, os.pen, PenPresses, PenLifts)
    BY <1>2, <1>4
  <2>. QED  BY <1>1, <2>1, SettledTail
<1>5. ASSUME ~MouseHeld
      PROVE  Settled(Tail(wire), buttons' # {}, MousePresses, MouseLifts)
  <2>1. Settled(wire, buttons # {}, MousePresses, MouseLifts)
    BY <1>2, <1>5
  <2>. QED  BY <1>1, <2>1, SettledTail
<1>. QED  BY <1>3, <1>4, <1>5

(* The state of the desktop, as far as the messages change it.             *)
LEMMA DesktopIs ==
  ASSUME IInv
  PROVE  /\ slots \in Slots /\ os \in Pressed /\ rejects \in 0..MaxRejects
         /\ orphaned \in BOOLEAN /\ penFlags \subseteq Flags /\ buttons \in Buttons
         /\ poked \in BOOLEAN /\ mode \in Modes
         /\ OneSlotEach(slots) /\ Ids(slots) \subseteq Pointers
BY DEF IInv, TypeOK, TabletTypeOK, DesktopTypeOK, InjectorInv, Routed, Pressed

(* A touch message.                                                        *)
LEMMA DispatchTouch ==
  ASSUME IInv, phase = "up", wire # <<>>, wire' = Tail(wire),
         NEW ok \in BOOLEAN, Head(wire).kind = "touch", InjectTouch(Head(wire), ok),
         UNCHANGED <<android, phase, penDevice, repeater, stopRepeat>>
  PROVE  IInv'
<1>. DEFINE m == Head(wire)
<1>1. /\ m \in Messages /\ m.kind = "touch" /\ Tail(wire) \in Seq(Messages)
      /\ m \in PointerMessages => Target(m.id) = m.kind
      /\ \A k \in DOMAIN Tail(wire) : Tail(wire)[k] \in PointerMessages =>
           Target(Tail(wire)[k].id) = Tail(wire)[k].kind
  BY HeadIs
<1>2. m \in PointerMessages \cup CancelMessages
  BY <1>1 DEF Messages, MouseMessages
<1>3. InjectTouch(m, ok)
  OBVIOUS
<1>. HIDE DEF m
<1>4. /\ TouchStep(m.id, m.act, ok)
      /\ poked' = IF ok \/ m.act = "cancelAll" THEN TRUE ELSE poked
      /\ UNCHANGED <<penFlags, buttons>>
  BY <1>2, <1>3, DesktopIs, InjectTouchIs
<1>5. m.id \in Pointers => Target(m.id) = "touch"
  BY <1>1, <1>2, Sizes DEF CancelMessages
<1>6. /\ slots' \in Slots /\ OneSlotEach(slots')
      /\ Ids(slots') \subseteq (Ids(slots) \cup {m.id}) \cap Pointers
      /\ os' \in Pressed /\ os'.pen = os.pen /\ os'.buttons = os.buttons
      /\ os'.touch \subseteq os.touch \cup ((Ids(slots) \cup {m.id}) \cap Pointers)
      /\ rejects' \in 0..MaxRejects /\ (rejects' = 0 => rejects = 0)
      /\ orphaned' \in BOOLEAN /\ (orphaned => orphaned')
  BY <1>4 DEF TouchStep
<1>7. TypeOK'
  <2>1. poked' \in BOOLEAN
    BY <1>4, DesktopIs
  <2>. QED  BY <1>1, <1>4, <1>6, <2>1 DEF IInv, TypeOK, TabletTypeOK, DesktopTypeOK, Pressed, android
<1>8. HeldIsRepeated'
  <2>1. ASSUME ~orphaned'
        PROVE  /\ os'.touch \subseteq Ids(slots')
               /\ os'.pen => penFlags' # {}
               /\ os'.touch # {} \/ os'.pen => repeater' = "timed" \/ poked'
    <3>1. ~orphaned
      BY <1>6, <2>1
    <3>2. /\ os.touch \subseteq Ids(slots) /\ (os.pen => penFlags # {})
          /\ os.touch # {} \/ os.pen => repeater = "timed" \/ poked
      BY <3>1 DEF IInv, InjectorInv, HeldIsRepeated, Ids
    <3>3. /\ os'.touch \subseteq Ids(slots')
          /\ ok \/ m.act = "cancelAll" \/ os'.touch \subseteq os.touch
      BY <1>4, <2>1, <3>2 DEF TouchStep
    <3>4. os'.pen => penFlags' # {}
      BY <1>4, <1>6, <3>2
    <3>5. os'.touch # {} \/ os'.pen => repeater' = "timed" \/ poked'
      BY <1>4, <1>6, <3>2, <3>3
    <3>. QED  BY <3>3, <3>4, <3>5
  <2>. QED  BY <1>6, <2>1 DEF HeldIsRepeated, OneSlotEach, Ids
<1>9. rejects' = 0 => os.touch = Contacts(slots) /\ NoEdges(slots)
  BY <1>6 DEF IInv, InjectorInv, Match
<1>10. InjectorInv'
  <2>1. Session'
    BY <1>4, <1>6 DEF IInv, InjectorInv, Session
  <2>2. Match'
    <3>1. rejects' = 0 => os'.touch = Contacts(slots') /\ NoEdges(slots')
      BY <1>4, <1>9 DEF TouchStep
    <3>. QED  BY <1>4, <1>6, <3>1 DEF IInv, InjectorInv, Match
  <2>. QED  BY <1>6, <1>8, <2>1, <2>2 DEF InjectorInv
<1>11. Routed'
  BY <1>1, <1>4, <1>5, <1>6 DEF IInv, Routed, Target, android
<1>12. WireSettles'
  <2>1. ASSUME rejects' = 0, NEW p \in Pointers, p \in os'.touch
        PROVE  (p \in os.touch /\ m \notin TouchLifts(p)) \/ m \in TouchPresses(p)
    <3>1. /\ os'.touch \subseteq os.touch \cup (IF m.act \in {"down", "move"} THEN {m.id} ELSE {})
          /\ m.act \notin {"down", "move", "button"} => m.id \notin os'.touch
          /\ m.act = "cancelAll" => os'.touch = {}
      BY <1>4, <1>9, <2>1 DEF TouchStep
    <3>2. CASE m.act \in {"down", "move"} /\ p = m.id
      BY <1>1, <3>2 DEF TouchPresses
    <3>3. CASE ~(m.act \in {"down", "move"} /\ p = m.id)
      <4>1. p \in os.touch
        BY <2>1, <3>1, <3>3
      <4>2. m \notin TouchLifts(p)
        BY <2>1, <3>1 DEF TouchLifts
      <4>. QED  BY <4>1, <4>2
    <3>. QED  BY <3>2, <3>3
  <2>2. m \notin PenLifts /\ m \notin MouseLifts
    BY <1>1 DEF PenLifts, MouseLifts
  <2>. QED  BY <1>4, <1>6, <2>1, <2>2, WireTail DEF m
<1>. QED  BY <1>7, <1>10, <1>11, <1>12 DEF IInv

(* A pen message.                                                          *)
LEMMA DispatchPen ==
  ASSUME IInv, phase = "up", wire # <<>>, wire' = Tail(wire), penDevice,
         NEW ok \in BOOLEAN, Head(wire).kind = "pen", InjectPen(Head(wire), ok),
         UNCHANGED <<android, phase, penDevice, repeater, stopRepeat>>
  PROVE  IInv'
<1>. DEFINE m == Head(wire)
<1>1. /\ m \in Messages /\ m.kind = "pen" /\ Tail(wire) \in Seq(Messages)
      /\ m \in PointerMessages => Target(m.id) = m.kind
      /\ \A k \in DOMAIN Tail(wire) : Tail(wire)[k] \in PointerMessages =>
           Target(Tail(wire)[k].id) = Tail(wire)[k].kind
  BY HeadIs
<1>2. m \in PointerMessages \cup CancelMessages
  BY <1>1 DEF Messages, MouseMessages
<1>3. InjectPen(m, ok)
  OBVIOUS
<1>. HIDE DEF m
<1>4. /\ PenStep(m.act, ok)
      /\ poked' = IF ok \/ m.act = "cancelAll" THEN TRUE ELSE poked
      /\ UNCHANGED <<slots, buttons>>
  BY <1>2, <1>3, DesktopIs, InjectPenIs
<1>5. m.act # "cancelAll" => mode.stylus = "pen"
  <2>. SUFFICES ASSUME m.act # "cancelAll" PROVE mode.stylus = "pen"
    OBVIOUS
  <2>1. m \in PointerMessages
    BY <1>2 DEF CancelMessages
  <2>2. m.id \in Pointers /\ Target(m.id) = "pen"
    BY <1>1, <2>1 DEF PointerMessages
  <2>. QED  BY <2>2, DesktopIs, TargetIs
<1>6. /\ penFlags' \subseteq Flags
      /\ os' \in Pressed /\ os'.touch = os.touch /\ os'.buttons = os.buttons
      /\ rejects' \in 0..MaxRejects /\ (rejects' = 0 => rejects = 0)
      /\ orphaned' \in BOOLEAN /\ (orphaned => orphaned')
      /\ m.act = "cancelAll" => penFlags' = {} /\ (os'.pen => os.pen)
  BY <1>4 DEF PenStep
<1>7. TypeOK'
  <2>1. poked' \in BOOLEAN
    BY <1>4, DesktopIs
  <2>. QED  BY <1>1, <1>4, <1>6, <2>1 DEF IInv, TypeOK, TabletTypeOK, DesktopTypeOK, Pressed, android
<1>8. HeldIsRepeated'
  <2>1. ASSUME ~orphaned'
        PROVE  /\ os'.touch \subseteq Ids(slots)
               /\ os'.pen => penFlags' # {}
               /\ os'.touch # {} \/ os'.pen => repeater' = "timed" \/ poked'
    <3>1. ~orphaned
      BY <1>6, <2>1
    <3>2. /\ os.touch \subseteq Ids(slots) /\ (os.pen => penFlags # {})
          /\ os.touch # {} \/ os.pen => repeater = "timed" \/ poked
      BY <3>1 DEF IInv, InjectorInv, HeldIsRepeated, Ids
    <3>3. /\ os'.pen => penFlags' # {}
          /\ ok \/ m.act = "cancelAll" \/ os'.pen = os.pen
      BY <1>4, <2>1, <3>2 DEF PenStep
    <3>5. os'.touch # {} \/ os'.pen => repeater' = "timed" \/ poked'
      BY <1>4, <1>6, <3>2, <3>3
    <3>. QED  BY <1>6, <3>2, <3>3, <3>5
  <2>2. OneSlotEach(slots)
    BY DesktopIs
  <2>. QED  BY <1>4, <2>1, <2>2 DEF HeldIsRepeated, OneSlotEach, Ids
<1>9. rejects' = 0 => os.pen = ("contact" \in penFlags) /\ penFlags \cap Edges = {}
  BY <1>6 DEF IInv, InjectorInv, Match
<1>10. InjectorInv'
  <2>1. Session'
    BY <1>4, <1>6 DEF IInv, InjectorInv, Session
  <2>2. Match'
    <3>1. rejects' = 0 => os'.pen = ("contact" \in penFlags') /\ penFlags' \cap Edges = {}
      BY <1>4, <1>9 DEF PenStep
    <3>. QED  BY <1>4, <1>6, <3>1 DEF IInv, InjectorInv, Match
  <2>3. OneSlotEach(slots)'
    BY <1>4, DesktopIs
  <2>. QED  BY <1>8, <2>1, <2>2, <2>3 DEF InjectorInv
<1>11. Routed'
  <2>1. os'.pen \/ penFlags' # {} => mode.stylus = "pen"
    BY <1>5, <1>6 DEF IInv, Routed
  <2>. QED  BY <1>1, <1>4, <1>6, <2>1 DEF IInv, Routed, Target, android
<1>12. WireSettles'
  <2>1. ASSUME rejects' = 0, os'.pen
        PROVE  (os.pen /\ m \notin PenLifts) \/ m \in PenPresses
    <3>1. m.act \in {"down", "move"} \/ (m.act = "button" /\ os.pen)
      BY <1>4, <1>9, <2>1 DEF PenStep
    <3>. QED  BY <1>1, <3>1 DEF PenPresses, PenLifts
  <2>2. /\ m \notin MouseLifts
        /\ \A p : m \notin TouchLifts(p)
    BY <1>1 DEF TouchLifts, MouseLifts
  <2>. QED  BY <1>4, <1>6, <2>1, <2>2, WireTail DEF m
<1>. QED  BY <1>7, <1>10, <1>11, <1>12 DEF IInv

(* A message that leaves the injectors of touch and pen alone: one of the  *)
(* mouse, or one of the pen where the pen device is missing.               *)
LEMMA DispatchOther ==
  ASSUME IInv, phase = "up", wire # <<>>, wire' = Tail(wire),
         NEW ok \in BOOLEAN,
         \/ Head(wire).kind = "mouse" /\ InjectMouse(Head(wire), ok)
         \/ /\ Head(wire).kind = "pen" /\ ~penDevice
            /\ UNCHANGED <<slots, penFlags, buttons, os, rejects, orphaned, poked>>,
         UNCHANGED <<android, phase, penDevice, repeater, stopRepeat>>
  PROVE  IInv'
<1>. DEFINE m == Head(wire)
<1>1. /\ m \in Messages /\ Tail(wire) \in Seq(Messages)
      /\ \A k \in DOMAIN Tail(wire) : Tail(wire)[k] \in PointerMessages =>
           Target(Tail(wire)[k].id) = Tail(wire)[k].kind
  BY HeadIs
<1>. HIDE DEF m
<1>2. /\ buttons' \in Buttons
      /\ os' \in Pressed /\ os'.touch = os.touch /\ os'.pen = os.pen
      /\ rejects' \in 0..MaxRejects /\ (rejects' = 0 => rejects = 0)
      /\ orphaned' \in BOOLEAN /\ (orphaned => orphaned')
      /\ ~orphaned' /\ os.buttons = buttons => os'.buttons = buttons'
      /\ UNCHANGED <<slots, penFlags, poked>>
      /\ \/ m.kind = "mouse" /\ buttons' = Desired(m)
         \/ m.kind = "pen" /\ ~penDevice /\ buttons' = buttons
  <2>1. CASE m.kind = "mouse" /\ InjectMouse(m, ok)
    <3>1. m \in MouseMessages
      BY <1>1, <2>1 DEF Messages, PointerMessages, CancelMessages
    <3>. QED  BY <2>1, <3>1, DesktopIs, InjectMouseIs
  <2>2. CASE /\ m.kind = "pen" /\ ~penDevice
             /\ UNCHANGED <<slots, penFlags, buttons, os, rejects, orphaned, poked>>
    <3>1. buttons' = buttons /\ os' = os /\ rejects' = rejects /\ orphaned' = orphaned
      BY <2>2
    <3>2. buttons' \in Buttons /\ os' \in Pressed /\ rejects' \in 0..MaxRejects
      BY <3>1, DesktopIs
    <3>3. orphaned' \in BOOLEAN
      BY <3>1, DesktopIs
    <3>. QED  BY <2>2, <3>1, <3>2, <3>3
  <2>. QED  BY <2>1, <2>2 DEF m
<1>3. TypeOK'
  <2>1. poked' \in BOOLEAN /\ poked' = poked
    BY <1>2, DesktopIs
  <2>. QED  BY <1>1, <1>2, <2>1 DEF IInv, TypeOK, TabletTypeOK, DesktopTypeOK, Pressed, android
<1>4. InjectorInv'
  <2>1. Session'
    BY <1>2 DEF IInv, InjectorInv, Session
  <2>2. Match'
    BY <1>2 DEF IInv, InjectorInv, Match
  <2>3. OneSlotEach(slots)'
    BY <1>2, DesktopIs
  <2>4. HeldIsRepeated'
    BY <1>2 DEF IInv, InjectorInv, HeldIsRepeated
  <2>. QED  BY <2>1, <2>2, <2>3, <2>4 DEF InjectorInv
<1>5. Routed'
  BY <1>1, <1>2 DEF IInv, Routed, Target, android
<1>6. WireSettles'
  <2>1. \A p : m \notin TouchLifts(p)
    BY <1>2 DEF TouchLifts
  <2>2. os'.pen => os.pen /\ m \notin PenLifts
    BY <1>2 DEF IInv, InjectorInv, Session, PenLifts
  <2>3. buttons' # {} => (buttons # {} /\ m \notin MouseLifts) \/ m \in MousePresses
    BY <1>1, <1>2 DEF MouseLifts, MousePresses
  <2>. QED  BY <1>2, <2>1, <2>2, <2>3, WireTail DEF m
<1>. QED  BY <1>3, <1>4, <1>5, <1>6 DEF IInv

(* recv_loop takes a message.                                              *)
LEMMA DispatchKeeps ==
  ASSUME IInv, Dispatch
  PROVE  IInv'
<1>1. /\ phase = "up" /\ wire # <<>> /\ wire' = Tail(wire)
      /\ UNCHANGED <<android, phase, penDevice, repeater, stopRepeat>>
  BY DEF Dispatch
<1>2. PICK ok \in BOOLEAN :
        \/ Head(wire).kind = "touch" /\ InjectTouch(Head(wire), ok)
        \/ Head(wire).kind = "pen" /\ penDevice /\ InjectPen(Head(wire), ok)
        \/ Head(wire).kind = "mouse" /\ InjectMouse(Head(wire), ok)
        \/ /\ Head(wire).kind = "pen" /\ ~penDevice
           /\ UNCHANGED <<slots, penFlags, buttons, os, rejects, orphaned, poked>>
  BY DEF Dispatch
<1>3. CASE Head(wire).kind = "touch" /\ InjectTouch(Head(wire), ok)
  BY <1>1, <1>3, DispatchTouch
<1>4. CASE Head(wire).kind = "pen" /\ penDevice /\ InjectPen(Head(wire), ok)
  BY <1>1, <1>4, DispatchPen
<1>5. CASE \/ Head(wire).kind = "mouse" /\ InjectMouse(Head(wire), ok)
           \/ /\ Head(wire).kind = "pen" /\ ~penDevice
              /\ UNCHANGED <<slots, penFlags, buttons, os, rejects, orphaned, poked>>
  BY <1>1, <1>5, DispatchOther
<1>. QED  BY <1>2, <1>3, <1>4, <1>5
-----------------------------------------------------------------------------
(* The repeat thread and the teardown.                                     *)

(* Steps of the desktop that leave the wire and the tablet alone keep it   *)
(* settled, if they press nothing.                                         *)
LEMMA WireStays ==
  ASSUME IInv, UNCHANGED <<android, wire, buttons>>,
         phase' = "up" => phase = "up", orphaned => orphaned', rejects' = 0 => rejects = 0,
         phase' = "up" /\ rejects' = 0 => os' = os
  PROVE  WireSettles'
BY DEF IInv, WireSettles, MouseHeld, android

(* The repeat thread is notified.                                          *)
LEMMA RepeaterWakesKeeps ==
  ASSUME IInv, RepeaterWakes
  PROVE  IInv'
<1>1. /\ repeater = "wait" /\ poked
      /\ repeater' = IF stopRepeat THEN NoThread ELSE IF HasRepeatable THEN "timed" ELSE "wait"
      /\ poked' = FALSE
      /\ UNCHANGED <<android, wire, phase, touchVars, buttons, stopRepeat, os, rejects,
                     orphaned>>
  BY DEF RepeaterWakes, LoopHead
<1>. USE DEF touchVars
<1>2. repeater' \in {"wait", "timed", "done"}
  BY <1>1 DEF NoThread
<1>3. TypeOK'
  BY <1>1, <1>2 DEF IInv, TypeOK, TabletTypeOK, DesktopTypeOK, android
<1>4. Session'
  BY <1>1 DEF IInv, InjectorInv, Session, NoThread
<1>5. HeldIsRepeated'
  <2>1. ASSUME ~orphaned, phase = "up", os.touch # {} \/ os.pen PROVE repeater' = "timed"
    <3>1. os.touch \subseteq Ids(slots) /\ (os.pen => penFlags # {}) /\ ~stopRepeat
      BY <2>1 DEF IInv, InjectorInv, HeldIsRepeated, Session, Ids
    <3>2. HasRepeatable
      BY <2>1, <3>1 DEF HasRepeatable, Ids
    <3>. QED  BY <1>1, <3>1, <3>2
  <2>. QED  BY <1>1, <2>1 DEF IInv, InjectorInv, HeldIsRepeated
<1>6. InjectorInv'
  BY <1>1, <1>4, <1>5 DEF IInv, InjectorInv, Match
<1>7. Routed'
  BY <1>1 DEF IInv, Routed, Target, android
<1>8. WireSettles'
  BY <1>1, WireStays
<1>. QED  BY <1>3, <1>6, <1>7, <1>8 DEF IInv

(* The 50 ms pass.                                                         *)
LEMMA RepeaterTimesKeeps ==
  ASSUME IInv, RepeaterTimes
  PROVE  /\ IInv'
         /\ phase \in {"up", "touch", "join"} /\ rejects' = 0 => os' = os
<1>1. /\ repeater = "timed"
      /\ repeater' = IF stopRepeat THEN NoThread ELSE IF HasRepeatable THEN "timed" ELSE "wait"
      /\ poked' = FALSE
      /\ UNCHANGED <<android, wire, phase, penFlags, penDevice, buttons, stopRepeat,
                     orphaned>>
  BY DEF RepeaterTimes, LoopHead
<1>2. /\ slots' \in Slots /\ OneSlotEach(slots') /\ Ids(slots') = Ids(slots)
      /\ Contacts(slots') = Contacts(slots) /\ (NoEdges(slots) => NoEdges(slots'))
      /\ os' \in Pressed /\ os'.buttons = os.buttons
      /\ os'.touch \subseteq os.touch \cup Ids(slots)
      /\ os.touch \subseteq Ids(slots) => os'.touch \subseteq Ids(slots)
      /\ os'.pen => os.pen \/ penFlags # {}
      /\ rejects' \in 0..MaxRejects /\ (rejects' = 0 => rejects = 0)
      /\ rejects' = 0 /\ os.touch = Contacts(slots) /\ os.pen = ("contact" \in penFlags)
           => os' = os
  <2>1. CASE UNCHANGED <<slots, os, rejects>>
    <3>1. slots' = slots /\ os' = os /\ rejects' = rejects
      BY <2>1
    <3>. QED  BY <3>1, DesktopIs
  <2>2. CASE RepeatFrames
    BY <2>2, DesktopIs, RepeatFramesIs
  <2>. QED  BY <2>1, <2>2 DEF RepeaterTimes
<1>3. phase \in {"up", "touch", "join"}
  BY <1>1 DEF IInv, InjectorInv, Session, TypeOK, DesktopTypeOK, NoThread
<1>4. rejects' = 0 => os' = os
  BY <1>2, <1>3 DEF IInv, InjectorInv, Match
<1>5. repeater' \in {"wait", "timed", "done"}
  BY <1>1 DEF NoThread
<1>6. TypeOK'
  BY <1>1, <1>2, <1>5 DEF IInv, TypeOK, TabletTypeOK, DesktopTypeOK, android, Pressed
<1>7. Session'
  <2>1. ~penDevice => ~os'.pen
    BY <1>2 DEF IInv, InjectorInv, Session
  <2>. QED  BY <1>1, <1>2, <1>3, <2>1 DEF IInv, InjectorInv, Session, NoThread
<1>8. HeldIsRepeated'
  <2>1. ASSUME ~orphaned, phase = "up"
        PROVE  /\ os'.touch \subseteq Ids(slots') /\ (os'.pen => penFlags # {})
               /\ os'.touch # {} \/ os'.pen => repeater' = "timed"
    <3>1. os.touch \subseteq Ids(slots) /\ (os.pen => penFlags # {}) /\ ~stopRepeat
      BY <2>1 DEF IInv, InjectorInv, HeldIsRepeated, Session, Ids
    <3>2. os'.touch \subseteq Ids(slots) /\ (os'.pen => penFlags # {})
      BY <1>2, <3>1
    <3>3. os'.touch # {} \/ os'.pen => HasRepeatable
      BY <3>2 DEF HasRepeatable, Ids
    <3>. QED  BY <1>1, <1>2, <3>1, <3>2, <3>3
  <2>. QED  BY <1>1, <1>2, <2>1 DEF HeldIsRepeated, OneSlotEach, Ids
<1>9. Match'
  BY <1>1, <1>2, <1>4 DEF IInv, InjectorInv, Match
<1>10. Routed'
  BY <1>1, <1>2 DEF IInv, Routed, Target, android
<1>11. WireSettles'
  BY <1>1, <1>2, <1>4, WireStays
<1>. QED  BY <1>2, <1>4, <1>6, <1>7, <1>8, <1>9, <1>10, <1>11 DEF IInv, InjectorInv

(* The steps of a teardown.                                                *)
LEMMA TeardownKeeps ==
  ASSUME IInv, StopPipeline \/ ShutdownTouch \/ TouchIsDown \/ ShutdownMouse
  PROVE  IInv'
<1>. USE DEF touchVars, threadVars
<1>1. CASE StopPipeline
  <2>1. /\ phase = "up" /\ phase' = "touch" /\ wire' = <<>>
        /\ UNCHANGED <<android, touchVars, buttons, threadVars, os, rejects, orphaned>>
    BY <1>1 DEF StopPipeline
  <2>2. wire' \in Seq(Messages) /\ DOMAIN wire' = {}
    BY <2>1, EmptySeq
  <2>3. TypeOK'
    BY <2>1, <2>2 DEF IInv, TypeOK, TabletTypeOK, DesktopTypeOK, android
  <2>4. InjectorInv'
    BY <2>1 DEF IInv, InjectorInv, Session, HeldIsRepeated, Match, NoThread
  <2>5. Routed'
    BY <2>1, <2>2 DEF IInv, Routed, Target, android
  <2>. QED  BY <2>1, <2>3, <2>4, <2>5 DEF IInv, WireSettles
<1>2. CASE ShutdownTouch
  <2>1. /\ phase = "touch" /\ phase' = "join" /\ stopRepeat' = TRUE /\ poked' = TRUE
        /\ UNCHANGED <<android, wire, touchVars, buttons, repeater, os, rejects,
                       orphaned>>
    BY <1>2 DEF ShutdownTouch, NotifyRepeater
  <2>2. TypeOK'
    BY <2>1 DEF IInv, TypeOK, TabletTypeOK, DesktopTypeOK, android
  <2>3. InjectorInv'
    BY <2>1 DEF IInv, InjectorInv, Session, HeldIsRepeated, Match, NoThread
  <2>4. Routed'
    BY <2>1 DEF IInv, Routed, Target, android
  <2>. QED  BY <2>1, <2>2, <2>3, <2>4 DEF IInv, WireSettles
<1>3. CASE TouchIsDown
  <2>1. /\ phase = "join" /\ repeater = NoThread /\ phase' = "mouse"
        /\ slots' = AllFree /\ penFlags' = {}
        /\ os' = [os EXCEPT !.touch = {}, !.pen = FALSE]
        /\ stopRepeat' = FALSE /\ poked' = FALSE
        /\ UNCHANGED <<android, wire, penDevice, buttons, repeater, rejects, orphaned>>
    BY <1>3 DEF TouchIsDown
  <2>2. os' \in Pressed /\ os'.touch = {} /\ ~os'.pen /\ os'.buttons = os.buttons
    BY <2>1, DesktopIs DEF Pressed
  <2>3. slots' \in Slots /\ OneSlotEach(slots') /\ Ids(slots') = {}
    BY <2>1, AllFreeIs
  <2>4. TypeOK'
    BY <2>1, <2>2, <2>3 DEF IInv, TypeOK, TabletTypeOK, DesktopTypeOK, android, Pressed
  <2>5. InjectorInv'
    BY <2>1, <2>2, <2>3
       DEF IInv, InjectorInv, Session, HeldIsRepeated, Match, NoThread, OneSlotEach
  <2>6. Routed'
    BY <2>1, <2>2, <2>3 DEF IInv, Routed, Target, android
  <2>. QED  BY <2>1, <2>4, <2>5, <2>6 DEF IInv, WireSettles
<1>4. CASE ShutdownMouse
  <2>1. /\ phase = "mouse" /\ phase' = "down" /\ buttons' = {}
        /\ UNCHANGED <<android, wire, touchVars, threadVars>>
    BY <1>4 DEF ShutdownMouse
  <2>0. PICK ok \in BOOLEAN :
          /\ Count(ok, TRUE)
          /\ os' = IF ok THEN [os EXCEPT !.buttons = @ \ buttons] ELSE os
          /\ orphaned' = (orphaned \/ ~ok)
    BY <1>4 DEF ShutdownMouse
  <2>7. rejects' \in 0..MaxRejects /\ orphaned' \in BOOLEAN
    BY <2>0, DesktopIs, CountIs
  <2>2. /\ os' \in Pressed /\ os'.touch = os.touch /\ os'.pen = os.pen
        /\ ~orphaned' => ~orphaned /\ os'.buttons = os.buttons \ buttons
    BY <2>0, DesktopIs DEF Pressed, Buttons
  <2>3. TypeOK'
    BY <2>1, <2>2, <2>7 DEF IInv, TypeOK, TabletTypeOK, DesktopTypeOK, android, Pressed, Buttons
  <2>4. InjectorInv'
    BY <2>1, <2>2 DEF IInv, InjectorInv, Session, HeldIsRepeated, Match, NoThread
  <2>5. Routed'
    BY <2>1, <2>2 DEF IInv, Routed, Target, android
  <2>. QED  BY <2>1, <2>3, <2>4, <2>5 DEF IInv, WireSettles
<1>. QED  BY <1>1, <1>2, <1>3, <1>4

(* The session after a teardown.                                           *)
LEMMA StartSessionKeeps ==
  ASSUME IInv, StartSession
  PROVE  IInv'
<1>1. /\ phase = "down" /\ phase' = "up"
      /\ penDevice' \in {penDevice, TRUE} /\ slots' = AllFree /\ penFlags' = {} /\ buttons' = {}
      /\ repeater' = "wait" /\ poked' = FALSE /\ stopRepeat' = FALSE
      /\ orphaned' = (os # NothingPressed)
      /\ UNCHANGED <<android, wire, os, rejects>>
  BY DEF StartSession
<1>2. slots' \in Slots /\ OneSlotEach(slots') /\ Ids(slots') = {} /\ Contacts(slots') = {}
      /\ NoEdges(slots')
  BY <1>1, AllFreeIs
<1>3. os.touch = {} /\ ~os.pen /\ wire = <<>> /\ os \in Pressed
  BY <1>1, DesktopIs DEF IInv, InjectorInv, Session
<1>4. ~orphaned' => os.buttons = {}
  <2>1. os = NothingPressed => os.buttons = {}
    BY DEF NothingPressed
  <2>2. ~orphaned' => os = NothingPressed
    BY <1>1
  <2>. QED  BY <2>1, <2>2
<1>5. TypeOK'
  <2>1. orphaned' \in BOOLEAN
    <3>1. (os # NothingPressed) \in BOOLEAN
      OBVIOUS
    <3>. QED  BY <1>1, <3>1
  <2>2. penDevice' \in BOOLEAN
    BY <1>1 DEF IInv, TypeOK, DesktopTypeOK
  <2>3. TabletTypeOK'
    BY <1>1 DEF IInv, TypeOK, TabletTypeOK, android
  <2>4. os' \in Pressed /\ rejects' \in 0..MaxRejects
    BY <1>1, DesktopIs DEF IInv, TypeOK, DesktopTypeOK
  <2>5. /\ phase' \in {"up", "touch", "join", "mouse", "down"}
        /\ penFlags' \subseteq Flags /\ buttons' \in Buttons
        /\ repeater' \in {"wait", "timed", "done"}
        /\ poked' \in BOOLEAN /\ stopRepeat' \in BOOLEAN
    BY <1>1 DEF Buttons
  <2>6. slots' \in Slots
    BY <1>2
  <2>. QED  BY <2>1, <2>2, <2>3, <2>4, <2>5, <2>6 DEF TypeOK, DesktopTypeOK, Pressed
<1>6. Session'
  BY <1>1, <1>3, <1>4 DEF Session, NoThread
<1>7. HeldIsRepeated'
  BY <1>1, <1>2, <1>3 DEF HeldIsRepeated, OneSlotEach
<1>8. Match'
  BY <1>1, <1>2, <1>3 DEF Match, Pressed
<1>9. Routed'
  BY <1>1, <1>2, <1>3 DEF IInv, Routed, Target, android
<1>10. WireSettles'
  <2>1. DOMAIN wire' = {}
    BY <1>1, <1>3, EmptySeq
  <2>. QED  BY <1>1, <1>3, <2>1 DEF WireSettles, Settled
<1>. QED  BY <1>2, <1>5, <1>6, <1>7, <1>8, <1>9, <1>10 DEF IInv, InjectorInv
-----------------------------------------------------------------------------
(* Which pointers the frames to be repeated have edges of.                 *)

EdgeIds(s) == {s[i].id : i \in {j \in Live(s) : s[j].flags \cap Edges # {}}}

(* Compaction brings no edge, and free slots have none.                    *)
LEMMA CompactedEdges ==
  ASSUME NEW s \in Slots
  PROVE  EdgeIds(Compacted(s)) \subseteq EdgeIds(s) /\ EdgeIds(AllFree) = {}
<1>. DEFINE c == Compacted(s)
<1>1. /\ Live(c) = 1..LiveCount(s)
      /\ \A k \in 1..LiveCount(s) : c[k] = s[Nth(Live(s), k)]
  BY CompactedIs DEF Packed
<1>2. Live(s) \in SUBSET (1..MaxContacts) /\ MaxContacts \in Nat
  BY LiveIs, Sizes
<1>3. \A k \in 1..LiveCount(s) : Nth(Live(s), k) \in Live(s)
  BY <1>2, NthIs DEF LiveCount
<1>. HIDE DEF c
<1>4. \A k \in Live(c) : \E i \in Live(s) : c[k] = s[i]
  BY <1>1, <1>3
<1>5. EdgeIds(c) \subseteq EdgeIds(s)
  BY <1>4 DEF EdgeIds
<1>6. Live(AllFree) = {}
  BY DEF Live, AllFree, FreeSlot
<1>. QED  BY <1>5, <1>6 DEF EdgeIds, c

(* A populated slot brings edges of its pointer only, and clearing its     *)
(* edges leaves that pointer without any.                                  *)
LEMMA PosedEdges ==
  ASSUME NEW s \in Slots, NEW n, Packed(s, n), OneSlotEach(s), NEW p \in Pointers,
         NEW act \in Acts, NEW i, i = SlotFor(s, p), i # 0
  PROVE  LET posed == PosedAt(s, i, p, act)
         IN  /\ EdgeIds(posed) \subseteq EdgeIds(s) \cup {p}
             /\ EdgeIds(ClearEdges(posed, i)) \subseteq EdgeIds(s) \ {p}
<1>. DEFINE posed == PosedAt(s, i, p, act)
            c == ClearEdges(posed, i)
<1>1. /\ i \in 1..MaxContacts /\ posed \in Slots
      /\ posed[i].flags # {} => posed[i].id = p
      /\ \A k \in 1..MaxContacts : k # i => posed[k] = s[k]
  BY PosedIs
<1>2. \/ i \in Live(s) /\ s[i].id = p
      \/ i \notin Live(s) /\ p \notin Ids(s)
  BY SlotForIs
<1>. HIDE DEF posed
<1>3. /\ c[i].flags = posed[i].flags \ Edges
      /\ \A k \in 1..MaxContacts : k # i => c[k] = posed[k]
  BY <1>1 DEF ClearEdges, Slots
<1>. HIDE DEF c
<1>4. \A k \in Live(s) : k # i => s[k].id # p
  BY <1>2 DEF OneSlotEach, Ids
<1>5. \A k \in 1..MaxContacts : k # i /\ s[k].flags # {} => k \in Live(s)
  BY DEF Live
<1>6. EdgeIds(posed) \subseteq EdgeIds(s) \cup {p}
  <2>. SUFFICES ASSUME NEW k \in Live(posed), posed[k].flags \cap Edges # {}
                PROVE  posed[k].id \in EdgeIds(s) \cup {p}
    BY DEF EdgeIds
  <2>1. k \in 1..MaxContacts /\ posed[k].flags # {}
    BY DEF Live
  <2>2. CASE k = i
    BY <1>1, <2>1, <2>2
  <2>3. CASE k # i
    BY <1>1, <1>5, <2>1, <2>3 DEF EdgeIds
  <2>. QED  BY <2>2, <2>3
<1>7. EdgeIds(c) \subseteq EdgeIds(s) \ {p}
  <2>. SUFFICES ASSUME NEW k \in Live(c), c[k].flags \cap Edges # {}
                PROVE  c[k].id \in EdgeIds(s) \ {p}
    BY DEF EdgeIds
  <2>1. k \in 1..MaxContacts /\ k # i /\ c[k].flags # {}
    BY <1>3 DEF Live
  <2>2. c[k] = s[k] /\ k \in Live(s)
    BY <1>1, <1>3, <1>5, <2>1
  <2>. QED  BY <1>4, <2>1, <2>2 DEF EdgeIds
<1>. QED  BY <1>6, <1>7 DEF c, posed

(* A touch message brings no edge but one of its pointer, and none when    *)
(* nothing is refused.                                                     *)
LEMMA TouchEdges ==
  ASSUME IInv, NEW ok \in BOOLEAN, NEW m \in PointerMessages \cup CancelMessages,
         InjectTouch(m, ok)
  PROVE  /\ EdgeIds(slots') \subseteq EdgeIds(slots) \cup {m.id}
         /\ rejects' = rejects => EdgeIds(slots') \subseteq EdgeIds(slots) \ {m.id}
<1>. DEFINE s == Compacted(slots)
            i == SlotFor(s, m.id)
<1>1. /\ slots \in Slots /\ rejects \in 0..MaxRejects /\ OneSlotEach(slots)
  BY DesktopIs
<1>2. m.act # "cancelAll" => m.id \in Pointers /\ m.act \in Acts
  BY DEF PointerMessages, CancelMessages
<1>3. CASE m.act = "cancelAll" /\ CancelAllTouches(ok)
  <2>1. slots' = AllFree
    BY <1>3 DEF CancelAllTouches
  <2>. QED  BY <1>1, <2>1, CompactedEdges
<1>4. CASE m.act # "cancelAll" /\ i # 0 /\ InjectSlot(s, i, m.id, m.act, ok) /\ Count(ok, TRUE)
  <2>. DEFINE posed == PosedAt(s, i, m.id, m.act)
  <2>1. slots' = IF ok THEN ClearEdges(posed, i) ELSE posed
    BY <1>4 DEF InjectSlot, PosedAt, NamedAt
  <2>2. rejects' = rejects => ok
    BY <1>1, <1>4, CountIs
  <2>3. s \in Slots /\ Packed(s, LiveCount(slots)) /\ OneSlotEach(s)
    BY <1>1, CompactedIs, CompactedKeeps
  <2>4. /\ EdgeIds(posed) \subseteq EdgeIds(s) \cup {m.id}
        /\ EdgeIds(ClearEdges(posed, i)) \subseteq EdgeIds(s) \ {m.id}
    BY <1>2, <1>4, <2>3, PosedEdges
  <2>5. EdgeIds(s) \subseteq EdgeIds(slots)
    BY <1>1, CompactedEdges
  <2>. HIDE DEF posed, i, s
  <2>6. CASE ok
    <3>1. EdgeIds(slots') \subseteq EdgeIds(slots) \ {m.id}
      BY <2>1, <2>4, <2>5, <2>6
    <3>. QED  BY <3>1
  <2>7. CASE ~ok
    BY <2>1, <2>2, <2>4, <2>5, <2>7
  <2>. QED  BY <2>6, <2>7
<1>5. ASSUME m.act # "cancelAll", NEW cancelled \in BOOLEAN,
             InjectAfterOverflow(m.id, m.act, cancelled, ok), Count(ok, cancelled)
      PROVE  /\ EdgeIds(slots') \subseteq {m.id}
             /\ rejects' = rejects => EdgeIds(slots') = {}
  <2>. DEFINE posed == [AllFree EXCEPT ![1] = [id |-> m.id, flags |-> Populate({}, m.act)]]
  <2>1. slots' = IF ok THEN ClearEdges(posed, 1) ELSE posed
    BY <1>5 DEF InjectAfterOverflow
  <2>2. rejects' = rejects => ok
    BY <1>1, <1>5, CountIs
  <2>3. /\ 1 \in 1..MaxContacts /\ posed[1].id = m.id
        /\ DOMAIN posed = 1..MaxContacts
        /\ \A k \in 1..MaxContacts : k # 1 => posed[k] = FreeSlot
    BY Sizes DEF AllFree
  <2>. HIDE DEF posed
  <2>4. /\ ClearEdges(posed, 1)[1].flags \cap Edges = {}
        /\ \A k \in 1..MaxContacts : k # 1 => ClearEdges(posed, 1)[k] = FreeSlot
    BY <2>3 DEF ClearEdges
  <2>5. EdgeIds(posed) \subseteq {m.id}
    BY <2>3 DEF EdgeIds, Live, FreeSlot
  <2>6. EdgeIds(ClearEdges(posed, 1)) = {}
    BY <2>4 DEF EdgeIds, Live, FreeSlot
  <2>. QED  BY <2>1, <2>2, <2>5, <2>6
<1>6. \/ m.act = "cancelAll" /\ CancelAllTouches(ok)
      \/ m.act # "cancelAll" /\ i # 0 /\ InjectSlot(s, i, m.id, m.act, ok) /\ Count(ok, TRUE)
      \/ /\ m.act # "cancelAll"
         /\ \E cancelled \in BOOLEAN : /\ InjectAfterOverflow(m.id, m.act, cancelled, ok)
                                       /\ Count(ok, cancelled)
  BY DEF InjectTouch
<1>. HIDE DEF s, i
<1>. QED  BY <1>3, <1>4, <1>5, <1>6

(* Edges of the pen and edges of the touch slots are not of one pointer.   *)
LEMMA RetainedIs ==
  ASSUME IInv
  PROVE  /\ Retained = EdgeIds(slots) \cup {p \in {Stylus} : penFlags \cap Edges # {}}
         /\ EdgeIds(slots) \subseteq {p \in Pointers : Target(p) = "touch"}
         /\ penFlags \cap Edges # {} => Target(Stylus) = "pen"
<1>1. EdgeIds(slots) \subseteq Ids(slots)
  BY DEF EdgeIds, Ids
<1>2. Target(Stylus) = mode.stylus
  BY DesktopIs, Sizes, TargetIs
<1>. QED  BY <1>1, <1>2 DEF Retained, EdgeIds, IInv, Routed

(* A message that recv_loop handles.                                       *)
LEMMA DispatchEdges ==
  ASSUME IInv, Dispatch
  PROVE  /\ Retained' \subseteq Retained \cup Handled
         /\ rejects' = rejects => Retained' \subseteq Retained \ Handled
<1>. DEFINE m == Head(wire)
            Pen(f) == {p \in {Stylus} : f \cap Edges # {}}
<1>1. /\ phase = "up" /\ wire # <<>> /\ wire' = Tail(wire) /\ phase' = phase
      /\ mode' = mode /\ penDevice' = penDevice
  BY DEF Dispatch, android
<1>2. /\ m \in Messages
      /\ m \in PointerMessages => Target(m.id) = m.kind
      /\ wire \in Seq(Messages)
  BY <1>1, HeadIs
<1>3. Handled = IF m.kind # "mouse" THEN {m.id} ELSE {}
  <2>1. Len(wire') < Len(wire)
    BY <1>1, <1>2, HeadTailProperties, LenProperties
  <2>. QED  BY <1>1, <2>1 DEF Handled
<1>4. /\ Retained = EdgeIds(slots) \cup Pen(penFlags)
      /\ EdgeIds(slots) \subseteq {p \in Pointers : Target(p) = "touch"}
      /\ penFlags \cap Edges # {} => Target(Stylus) = "pen"
  BY RetainedIs
<1>5. Retained' = EdgeIds(slots') \cup Pen(penFlags')
  BY DEF Retained, EdgeIds
<1>6. PICK ok \in BOOLEAN :
        \/ m.kind = "touch" /\ InjectTouch(m, ok)
        \/ m.kind = "pen" /\ penDevice /\ InjectPen(m, ok)
        \/ m.kind = "mouse" /\ InjectMouse(m, ok)
        \/ /\ m.kind = "pen" /\ ~penDevice
           /\ UNCHANGED <<slots, penFlags, rejects>>
  BY DEF Dispatch
<1>. HIDE DEF m
<1>7. m.kind \in {"touch", "pen"} => m \in PointerMessages \cup CancelMessages
  BY <1>2 DEF Messages, MouseMessages
<1>8. m \in CancelMessages => m.id = None /\ m.id \notin Pointers
  BY Sizes DEF CancelMessages
<1>9. m.kind \in {"touch", "pen"} /\ m \notin CancelMessages =>
        m.id \in Pointers /\ Target(m.id) = m.kind
  BY <1>2, <1>7 DEF PointerMessages
<1>10. m.kind = "pen" /\ m \notin CancelMessages => m.id = Stylus
  BY <1>9, DesktopIs, TargetIs
<1>11. CASE m.kind = "touch" /\ InjectTouch(m, ok)
  <2>1. /\ EdgeIds(slots') \subseteq EdgeIds(slots) \cup {m.id}
        /\ rejects' = rejects => EdgeIds(slots') \subseteq EdgeIds(slots) \ {m.id}
    BY <1>7, <1>11, TouchEdges
  <2>2. penFlags' = penFlags
    BY <1>11 DEF InjectTouch
  <2>3. Pen(penFlags) \subseteq Pen(penFlags) \ {m.id}
    BY <1>4, <1>8, <1>9, <1>11, Sizes
  <2>. QED  BY <1>3, <1>4, <1>5, <1>11, <2>1, <2>2, <2>3
<1>12. CASE m.kind = "pen" /\ penDevice /\ InjectPen(m, ok)
  <2>1. slots' = slots /\ Count(ok, TRUE)
        /\ (m.act = "cancelAll" \/ ok => penFlags' \cap Edges = {})
    <3>1. m.act = "cancelAll" => penFlags' = {}
      BY <1>12 DEF InjectPen
    <3>2. m.act # "cancelAll" /\ ok => penFlags' = Populate(penFlags, m.act) \ Edges
      BY <1>12 DEF InjectPen
    <3>3. slots' = slots /\ Count(ok, TRUE)
      BY <1>12 DEF InjectPen
    <3>. QED  BY <3>1, <3>2, <3>3
  <2>2. rejects' = rejects => ok
    BY <2>1, DesktopIs, CountIs
  <2>3. m.id \notin EdgeIds(slots)
    BY <1>4, <1>8, <1>9, <1>12
  <2>4. m \in CancelMessages => m.act = "cancelAll"
    BY DEF CancelMessages
  <2>5. Pen(penFlags') \subseteq {m.id}
    BY <1>10, <1>12, <2>1, <2>4
  <2>6. ok => Pen(penFlags') = {}
    BY <2>1
  <2>. QED  BY <1>3, <1>4, <1>5, <1>12, <2>1, <2>2, <2>3, <2>5, <2>6
<1>13. CASE m.kind = "mouse" /\ InjectMouse(m, ok)
  <2>1. slots' = slots /\ penFlags' = penFlags
    BY <1>13 DEF InjectMouse
  <2>. QED  BY <1>3, <1>4, <1>5, <1>13, <2>1
<1>14. CASE m.kind = "pen" /\ ~penDevice /\ UNCHANGED <<slots, penFlags, rejects>>
  <2>1. m.id \notin EdgeIds(slots)
    BY <1>4, <1>8, <1>9, <1>14
  <2>2. penFlags = {} /\ penFlags' = penFlags /\ slots' = slots
    BY <1>14 DEF IInv, InjectorInv, Session
  <2>3. Pen(penFlags) = {}
    BY <2>2
  <2>. QED  BY <1>3, <1>4, <1>5, <1>14, <2>1, <2>2, <2>3
<1>. QED  BY <1>6, <1>11, <1>12, <1>13, <1>14

(* What the tablet sends makes the wire no shorter.                        *)
LEMMA TabletSends ==
  ASSUME IInv, Tablet
  PROVE  Len(wire') >= Len(wire) /\ UNCHANGED <<slots, penFlags, rejects>>
<1>. USE DEF NotAndroid, touchVars
<1>1. wire \in Seq(Messages) /\ mode \in Modes /\ barrel \in BOOLEAN /\ Stylus \in Pointers
  BY Sizes DEF IInv, TypeOK, TabletTypeOK
<1>2. ASSUME NEW ms \in Seq(Messages), Transmit(ms) PROVE Len(wire') >= Len(wire)
  <2>1. Len(wire \o ms) = Len(wire) + Len(ms) /\ Len(wire) \in Nat /\ Len(ms) \in Nat
    BY <1>1, ConcatProperties, LenProperties
  <2>2. wire' = IF phase = "up" THEN wire \o ms ELSE wire
    BY <1>2 DEF Transmit
  <2>. QED  BY <2>1, <2>2
<1>3. ASSUME NEW p \in Pointers, NEW act \in Acts, barrel' \in BOOLEAN,
             Transmit(RoutePointer(p, act))
      PROVE  Len(wire') >= Len(wire)
  BY <1>1, <1>2, <1>3, RouteIs
<1>4. ASSUME wire' = wire PROVE Len(wire') >= Len(wire)
  <2>1. Len(wire) \in Nat
    BY <1>1, LenProperties
  <2>. QED  BY <1>4, <2>1
<1>5. ASSUME NEW p \in Pointers, NEW act \in Acts, barrel' \in BOOLEAN, Touched(p, act)
      PROVE  Len(wire') >= Len(wire) /\ UNCHANGED <<slots, penFlags, rejects>>
  <2>1. wire' = wire \/ Transmit(RoutePointer(p, act))
    BY <1>5 DEF Touched
  <2>2. UNCHANGED <<slots, penFlags, rejects>>
    BY <1>5 DEF Touched
  <2>. QED  BY <1>3, <1>4, <1>5, <2>1, <2>2
<1>6. {"down", "up", "cancel", "move", "hover", "leave", "button"} \subseteq Acts
  BY DEF Acts
<1>7. ASSUME NEW p \in Pointers, Press(p)
      PROVE  Len(wire') >= Len(wire) /\ UNCHANGED <<slots, penFlags, rejects>>
  BY <1>1, <1>5, <1>6, <1>7 DEF Press
<1>8. ASSUME NEW p \in Pointers, Release(p)
      PROVE  Len(wire') >= Len(wire) /\ UNCHANGED <<slots, penFlags, rejects>>
  BY <1>1, <1>5, <1>6, <1>8 DEF Release
<1>9. ASSUME NEW p \in Pointers, Move(p)
      PROVE  Len(wire') >= Len(wire) /\ UNCHANGED <<slots, penFlags, rejects>>
  <2>1. Transmit(RoutePointer(p, "move")) /\ UNCHANGED <<slots, penFlags, rejects>>
        /\ barrel' \in BOOLEAN
    BY <1>1, <1>9 DEF Move
  <2>. QED  BY <1>3, <1>6, <2>1
<1>10. ASSUME CancelGesture
       PROVE  Len(wire') >= Len(wire) /\ UNCHANGED <<slots, penFlags, rejects>>
  <2>1. wire' = wire \/ Transmit(RouteCancelAll)
    BY <1>10 DEF CancelGesture
  <2>2. UNCHANGED <<slots, penFlags, rejects>>
    BY <1>10 DEF CancelGesture
  <2>3. RouteCancelAll \in Seq(Messages)
    <3>1. CancelMessages \cup MouseMessages \subseteq Messages
      BY DEF Messages
    <3>2. RouteCancelAll \in Seq(CancelMessages \cup MouseMessages)
      BY RouteCancelAllIs
    <3>. QED  BY <3>1, <3>2, LenProperties
  <2>. QED  BY <1>2, <1>4, <2>1, <2>2, <2>3
<1>11. ASSUME NEW act \in Acts, barrel' \in BOOLEAN, Generic(act)
       PROVE  Len(wire') >= Len(wire) /\ UNCHANGED <<slots, penFlags, rejects>>
  <2>1. Transmit(RoutePointer(Stylus, act)) /\ UNCHANGED <<slots, penFlags, rejects>>
    BY <1>11 DEF Generic
  <2>. QED  BY <1>1, <1>3, <1>11, <2>1
<1>12. ASSUME Hover \/ BarrelButton
       PROVE  Len(wire') >= Len(wire) /\ UNCHANGED <<slots, penFlags, rejects>>
  <2>1. barrel' \in BOOLEAN /\ \E act \in {"hover", "leave", "button"} : Generic(act)
    BY <1>1, <1>12 DEF Hover, BarrelButton
  <2>. QED  BY <1>6, <1>11, <2>1
<1>13. ASSUME ToggleDeck
       PROVE  Len(wire') >= Len(wire) /\ UNCHANGED <<slots, penFlags, rejects>>
  BY <1>4, <1>13 DEF ToggleDeck
<1>. QED  BY <1>7, <1>8, <1>9, <1>10, <1>12, <1>13 DEF Tablet

(* Every other step leaves the edges, or clears them.                      *)
LEMMA OtherEdges ==
  ASSUME IInv, \/ RepeaterWakes \/ RepeaterTimes \/ StopPipeline \/ ShutdownTouch
               \/ TouchIsDown \/ ShutdownMouse \/ StartSession
  PROVE  Retained' \subseteq Retained /\ Handled = {}
<1>. USE DEF touchVars
<1>1. /\ Retained = EdgeIds(slots) \cup {p \in {Stylus} : penFlags \cap Edges # {}}
      /\ slots \in Slots
  BY RetainedIs, DesktopIs
<1>2. Retained' = EdgeIds(slots') \cup {p \in {Stylus} : penFlags' \cap Edges # {}}
  BY DEF Retained, EdgeIds
<1>3. EdgeIds(slots') \subseteq EdgeIds(slots) /\ penFlags' \subseteq penFlags
  <2>1. CASE RepeaterWakes \/ StopPipeline \/ ShutdownTouch \/ ShutdownMouse
    <3>1. slots' = slots /\ penFlags' = penFlags
      BY <2>1 DEF RepeaterWakes, StopPipeline, ShutdownTouch, ShutdownMouse
    <3>. QED  BY <3>1
  <2>2. CASE RepeaterTimes
    <3>1. (slots' = slots \/ slots' = Compacted(slots)) /\ penFlags' = penFlags
      BY <2>2 DEF RepeaterTimes, RepeatFrames
    <3>. QED  BY <1>1, <3>1, CompactedEdges
  <2>3. CASE TouchIsDown \/ StartSession
    <3>1. slots' = AllFree /\ penFlags' = {}
      BY <2>3 DEF TouchIsDown, StartSession
    <3>. QED  BY <1>1, <3>1, CompactedEdges
  <2>. QED  BY <2>1, <2>2, <2>3
<1>4. wire' = wire \/ phase' # phase
  BY DEF RepeaterWakes, RepeaterTimes, StopPipeline, ShutdownTouch, TouchIsDown,
         ShutdownMouse, StartSession
<1>5. Len(wire) \in Nat
  BY LenProperties DEF IInv, TypeOK, TabletTypeOK
<1>6. Handled = {}
  BY <1>4, <1>5 DEF Handled
<1>. QED  BY <1>1, <1>2, <1>3, <1>6
-----------------------------------------------------------------------------
(* The theorems.                                                           *)

(* The program starts in the invariant, ...                                *)
LEMMA InitIInv == Init => IInv
<1>. SUFFICES ASSUME Init PROVE IInv
  OBVIOUS
<1>1. slots \in Slots /\ OneSlotEach(slots) /\ Ids(slots) = {} /\ Contacts(slots) = {}
      /\ NoEdges(slots)
  BY AllFreeIs DEF Init
<1>2. /\ wire = <<>> /\ wire \in Seq(Messages) /\ DOMAIN wire = {}
  BY EmptySeq DEF Init
<1>3. /\ os = NothingPressed /\ os \in Pressed /\ os.touch = {} /\ ~os.pen /\ os.buttons = {}
  BY DEF Init, NothingPressed, Pressed, Buttons
<1>4. TypeOK
  <2>1. TabletTypeOK
    BY <1>2 DEF Init, TabletTypeOK
  <2>2. /\ phase \in {"up", "touch", "join", "mouse", "down"}
        /\ penFlags \subseteq Flags /\ penDevice \in BOOLEAN /\ buttons \in Buttons
        /\ repeater \in {"wait", "timed", "done"}
        /\ poked \in BOOLEAN /\ stopRepeat \in BOOLEAN /\ orphaned \in BOOLEAN
    BY DEF Init, Buttons
  <2>3. rejects \in 0..MaxRejects
    BY Sizes DEF Init
  <2>. QED  BY <1>1, <1>3, <2>1, <2>2, <2>3 DEF TypeOK, DesktopTypeOK, Pressed
<1>5. InjectorInv
  <2>1. Session
    BY <1>2, <1>3 DEF Init, Session, NoThread
  <2>2. HeldIsRepeated
    BY <1>1, <1>3 DEF HeldIsRepeated, OneSlotEach
  <2>3. Match
    BY <1>1, <1>3 DEF Init, Match, Pressed
  <2>. QED  BY <1>1, <2>1, <2>2, <2>3 DEF InjectorInv
<1>6. Routed
  BY <1>1, <1>2, <1>3 DEF Init, Routed
<1>7. WireSettles
  BY <1>2, <1>3 DEF Init, WireSettles, Settled
<1>. QED  BY <1>4, <1>5, <1>6, <1>7 DEF IInv

(* ... and every step keeps it.                                            *)
LEMMA NextIInv == IInv /\ [Next]_vars => IInv'
<1>. SUFFICES ASSUME IInv, [Next]_vars PROVE IInv'
  OBVIOUS
<1>1. CASE Tablet
  BY <1>1, TabletKeeps
<1>2. CASE Dispatch
  BY <1>2, DispatchKeeps
<1>3. CASE RepeaterWakes
  BY <1>3, RepeaterWakesKeeps
<1>4. CASE RepeaterTimes
  BY <1>4, RepeaterTimesKeeps
<1>5. CASE StopPipeline \/ ShutdownTouch \/ TouchIsDown \/ ShutdownMouse
  BY <1>5, TeardownKeeps
<1>6. CASE StartSession
  BY <1>6, StartSessionKeeps
<1>7. CASE UNCHANGED vars
  <2>. USE <1>7 DEF vars, android, touchVars, threadVars
  <2>1. TypeOK'
    BY DEF IInv, TypeOK, TabletTypeOK, DesktopTypeOK
  <2>2. InjectorInv'
    BY DEF IInv, InjectorInv, Session, HeldIsRepeated, Match
  <2>3. Routed'
    BY DEF IInv, Routed, Target
  <2>4. WireSettles'
    BY DEF IInv, WireSettles, MouseHeld
  <2>. QED  BY <2>1, <2>2, <2>3, <2>4 DEF IInv
<1>. QED  BY <1>1, <1>2, <1>3, <1>4, <1>5, <1>6, <1>7 DEF Next, Desktop

(* In every state the injectors, the messages on the wire and what Windows *)
(* holds pressed fit together as IInv says: every variable has its type,   *)
(* and whatever is pressed by no pointer on the tablet is lifted by a      *)
(* message on its way.                                                     *)
THEOREM IInvAlways == Spec => []IInv
BY InitIInv, NextIInv, PTL DEF Spec

(* Every variable has its type, whatever Windows rejects.                  *)
THEOREM TypeCorrect == Spec => []TypeOK
<1>1. IInv => TypeOK
  BY DEF IInv
<1>. QED  BY <1>1, IInvAlways, PTL

(* Whatever frames Windows rejects, a pointer has one live slot at most,   *)
(* and a contact Windows still holds is one of a live slot, which the      *)
(* repeat thread, awake, injects until it is lifted.                       *)
THEOREM HeldIsRepeatedAlways == Spec => []HeldIsRepeated
<1>1. IInv => HeldIsRepeated
  BY DEF IInv, InjectorInv
<1>. QED  BY <1>1, IInvAlways, PTL

(* Once every pointer has left the tablet and every message is handled,    *)
(* Windows holds nothing pressed, if no injection was rejected and the     *)
(* deck swallowed no release.                                              *)
THEOREM LiftedWhenQuietAlways == Spec => []LiftedWhenQuiet
<1>1. ASSUME IInv PROVE LiftedWhenQuiet
  <2>. SUFFICES ASSUME Untouched, ~barrel, ~orphaned, rejects = 0 PROVE os = NothingPressed
    BY DEF LiftedWhenQuiet
  <2>1. phase = "up" /\ down = {} /\ wire = <<>> /\ DOMAIN wire = {}
    BY EmptySeq DEF Untouched
  <2>2. ~MouseHeld
    BY <2>1 DEF MouseHeld
  <2>3. /\ \A p \in Pointers : p \notin os.touch
        /\ ~os.pen /\ buttons = {}
    BY <2>1, <2>2, Sizes, <1>1 DEF IInv, WireSettles, Settled
  <2>4. os.buttons = buttons /\ os \in Pressed
    BY <1>1, DesktopIs DEF IInv, InjectorInv, Session
  <2>5. os.touch = {} /\ os.pen = FALSE /\ os.buttons = {}
    BY <2>3, <2>4 DEF Pressed
  <2>6. os = [touch |-> os.touch, pen |-> os.pen, buttons |-> os.buttons]
    BY <2>4 DEF Pressed
  <2>. QED  BY <2>5, <2>6 DEF NothingPressed
<1>. QED  BY <1>1, IInvAlways, PTL

(* Whatever frames Windows refuses, an edge that is injected again belongs *)
(* to a pointer whose own latest frame was refused.                        *)
THEOREM RefusedEdgesOnlyAlways == Spec => RefusedEdgesOnly
<1>. DEFINE A == Retained' \subseteq (IF rejects' = rejects THEN Retained \ Handled
                                                        ELSE Retained \cup Handled)
<1>1. ASSUME IInv, [Next]_vars PROVE [A]_vars
  <2>. SUFFICES ASSUME Next PROVE A
    BY <1>1
  <2>1. CASE Tablet
    <3>1. Len(wire') >= Len(wire) /\ UNCHANGED <<slots, penFlags, rejects>>
      BY <1>1, <2>1, TabletSends
    <3>2. Len(wire) \in Nat /\ Len(wire') \in Nat
      BY <1>1, NextIInv, LenProperties DEF IInv, TypeOK, TabletTypeOK
    <3>3. Handled = {}
      BY <3>1, <3>2 DEF Handled
    <3>4. Retained' = Retained
      BY <3>1 DEF Retained
    <3>. QED  BY <3>3, <3>4
  <2>2. CASE Dispatch
    BY <1>1, <2>2, DispatchEdges
  <2>3. CASE ~Tablet /\ ~Dispatch
    <3>1. \/ RepeaterWakes \/ RepeaterTimes \/ StopPipeline \/ ShutdownTouch
          \/ TouchIsDown \/ ShutdownMouse \/ StartSession
      BY <2>3 DEF Next, Desktop
    <3>. QED  BY <1>1, <3>1, OtherEdges
  <2>. QED  BY <2>1, <2>2, <2>3
<1>. QED  BY <1>1, IInvAlways, PTL DEF Spec, RefusedEdgesOnly
-----------------------------------------------------------------------------
(* The place of a pointer.                                                 *)

(* What the quotient of two numbers is.                                    *)
LEMMA Quotient ==
  ASSUME NEW a \in Int, NEW b \in Nat \ {0}
  PROVE  a \div b \in Int /\ b * (a \div b) <= a /\ a < b * (a \div b) + b
OBVIOUS

(* From m times b up to n + 1 times b the quotients are m to n.            *)
LEMMA QuotientBounds ==
  ASSUME NEW a \in Int, NEW b \in Nat \ {0}, NEW m \in Int, NEW n \in Int,
         m * b <= a, a < (n + 1) * b
  PROVE  a \div b \in m .. n
<1> DEFINE q == a \div b
<1>1. q \in Int /\ b * q <= a /\ a < b * q + b
  BY Quotient
<1>. HIDE DEF q
<1>2. b * q < b * (n + 1) /\ b * m < b * (q + 1)
  BY <1>1
<1>3. q < n + 1 /\ m < q + 1
  BY <1>1, <1>2
<1>. QED  BY <1>1, <1>3 DEF q

(* Quotients rise with what is divided.                                    *)
LEMMA QuotientRises ==
  ASSUME NEW a \in Int, NEW c \in Int, NEW b \in Nat \ {0}, a <= c
  PROVE  a \div b <= c \div b
<1> DEFINE q == a \div b
           r == c \div b
<1>1. q \in Int /\ r \in Int /\ b * q <= a /\ c < b * r + b
  BY Quotient
<1>. HIDE DEF q, r
<1>2. b * q < b * (r + 1)
  BY <1>1
<1>3. q < r + 1
  BY <1>1, <1>2
<1>. QED  BY <1>1, <1>3 DEF q, r

(* There are fractions.                                                    *)
LEMMA FractionsExist == FracMax \in Nat \ {0}
BY DEF FracMax

(* The fraction is the nearest one.                                        *)
LEMMA FractionIs ==
  ASSUME NEW l \in Nat \ {0}, NEW v \in 0 .. l
  PROVE  LET x == NormalizePosition(v, l)
         IN  /\ x \in 0 .. FracMax
             /\ 2 * (l * x) <= 2 * (v * FracMax) + l
             /\ 2 * (v * FracMax) < 2 * (l * x) + l
             /\ v = 0 => x = 0
             /\ v = l => x = FracMax
<1> DEFINE vF == v * FracMax
           lF == l * FracMax
           a == 2 * vF + l
           b == 2 * l
           q == a \div b
<1>0. FracMax \in Nat \ {0}
  BY FractionsExist
<1>1. vF \in Nat /\ lF \in Nat /\ vF <= lF
  BY <1>0
<1>2. v = 0 => vF = 0
  BY <1>0
<1>3. /\ 0 * b = 0 /\ (0 + 1) * b = 2 * l
      /\ FracMax * b = 2 * lF /\ (FracMax + 1) * b = 2 * lF + 2 * l
  BY <1>0
<1>4. b \in Nat \ {0}
  OBVIOUS
<1>5. v = l => vF = lF
  OBVIOUS
<1>. HIDE DEF vF, lF
<1>6. a \in Int /\ 0 * b <= a /\ a < (FracMax + 1) * b
  BY <1>1, <1>3
<1>7. q \in 0 .. FracMax
  BY <1>0, <1>4, <1>6, QuotientBounds
<1>8. b * q <= a /\ a < b * q + b
  BY <1>4, <1>6, Quotient
<1>9. NormalizePosition(v, l) = q
  BY <1>0, <1>7 DEF NormalizePosition, Clamp, vF
<1>10. b * q = 2 * (l * q) /\ l * q \in Int
  BY <1>7
<1>11. ASSUME v = 0 PROVE q = 0
  <2>1. a < (0 + 1) * b
    BY <1>2, <1>3, <1>11
  <2>2. q \in 0 .. 0
    BY <1>4, <1>6, <2>1, QuotientBounds
  <2>. QED  BY <2>2
<1>12. ASSUME v = l PROVE q = FracMax
  <2>1. FracMax * b <= a
    BY <1>1, <1>3, <1>5, <1>12
  <2>2. q \in FracMax .. FracMax
    BY <1>0, <1>4, <1>6, <2>1, QuotientBounds
  <2>. QED  BY <1>0, <2>2
<1>. HIDE DEF q
<1>13. 2 * (l * q) <= 2 * vF + l /\ 2 * vF < 2 * (l * q) + l
  BY <1>1, <1>8, <1>10
<1>. QED  BY <1>7, <1>9, <1>11, <1>12, <1>13 DEF vF

(* Fractions rise with the place.                                          *)
LEMMA FractionRises ==
  ASSUME NEW l \in Nat \ {0}, NEW v \in 0 .. l, NEW w \in 0 .. l, v <= w
  PROVE  NormalizePosition(v, l) <= NormalizePosition(w, l)
<1> DEFINE a == 2 * (v * FracMax) + l
           c == 2 * (w * FracMax) + l
           b == 2 * l
<1>1. a \in Int /\ c \in Int /\ a <= c /\ b \in Nat \ {0}
  BY FractionsExist
<1>2. NormalizePosition(v, l) = Clamp(a \div b, 0, FracMax)
  BY DEF NormalizePosition
<1>3. NormalizePosition(w, l) = Clamp(c \div b, 0, FracMax)
  BY DEF NormalizePosition
<1>. HIDE DEF a, b, c
<1>4. a \div b <= c \div b
  BY <1>1, QuotientRises
<1>5. a \div b \in Int /\ c \div b \in Int
  BY <1>1, Quotient
<1>. QED  BY <1>2, <1>3, <1>4, <1>5, FractionsExist DEF Clamp

(* What is captured lies in the virtual desktop.                           *)
LEMMA CapturedIs ==
  ASSUME NEW d \in Desktops
  PROVE  /\ d.surface - 1 \in 0 .. FracMax /\ d.size - 1 \in 0 .. FracMax
         /\ d.offset - d.origin \in Nat
         /\ d.offset - d.origin + (d.surface - 1) <= d.size - 1
         /\ d.surface \in Int /\ d.size \in Int
BY PointAssumption, FractionsExist

(* A fraction is cut off to a pixel of what is captured.                   *)
LEMMA PixelIs ==
  ASSUME NEW d \in Desktops, NEW x \in 0 .. FracMax
  PROVE  LET p == MapToVirtualDesktop(x, d)
             at == p - (d.offset - d.origin)
             last == d.surface - 1
         IN  /\ p \in 0 .. d.size - 1
             /\ at \in 0 .. last
             /\ FracMax * at <= x * last
             /\ x * last < FracMax * (at + 1)
             /\ x = 0 => at = 0
             /\ x = FracMax => at = last
<1> DEFINE last == d.surface - 1
           first == d.offset - d.origin
           xl == x * last
           q == xl \div FracMax
<1>1. FracMax \in Nat \ {0}
  BY FractionsExist
<1>2. last \in Nat /\ first \in Nat /\ first + last <= d.size - 1 /\ d.size \in Int
  BY CapturedIs, FractionsExist
<1>3. MapToVirtualDesktop(x, d) = InVirtualDesktop(IF last > 0 THEN q ELSE 0, d)
  BY <1>2, CapturedIs DEF MapToVirtualDesktop
<1>4. \A k \in 0 .. last : InVirtualDesktop(k, d) = first + k
  BY <1>2 DEF InVirtualDesktop, Clamp
<1>. HIDE DEF last, first
<1>5. xl <= FracMax * last /\ xl >= 0 /\ xl \in Int
  BY <1>1, <1>2
<1>6. 0 * FracMax <= xl /\ xl < (last + 1) * FracMax
  BY <1>1, <1>2, <1>5
<1>. HIDE DEF xl
<1>7. q \in 0 .. last
  BY <1>1, <1>2, <1>5, <1>6, QuotientBounds
<1>8. FracMax * q <= xl /\ xl < FracMax * (q + 1)
  BY <1>1, <1>5, <1>7, Quotient
<1>. HIDE DEF q
<1>9. ASSUME x = FracMax PROVE q = last
  <2>1. FracMax * last < FracMax * (q + 1)
    BY <1>1, <1>2, <1>8, <1>9 DEF xl
  <2>2. last < q + 1
    BY <1>1, <1>2, <1>7, <2>1
  <2>. QED  BY <1>2, <1>7, <2>2
<1>10. ASSUME x = 0 PROVE q = 0
  <2>1. FracMax * q <= 0
    BY <1>1, <1>2, <1>8, <1>10 DEF xl
  <2>. QED  BY <1>1, <1>7, <2>1
<1>11. MapToVirtualDesktop(x, d) = first + q
  BY <1>2, <1>3, <1>4, <1>7
<1>. QED  BY <1>2, <1>7, <1>8, <1>9, <1>10, <1>11 DEF first, last, xl

(* Pixels rise with the fraction.                                          *)
LEMMA PixelRises ==
  ASSUME NEW d \in Desktops, NEW x \in 0 .. FracMax, NEW y \in 0 .. FracMax, x <= y
  PROVE  MapToVirtualDesktop(x, d) <= MapToVirtualDesktop(y, d)
<1> DEFINE last == d.surface - 1
           first == d.offset - d.origin
           p == MapToVirtualDesktop(x, d) - first
           r == MapToVirtualDesktop(y, d) - first
<1>1. FracMax \in Nat \ {0} /\ last \in Nat /\ first \in Nat
  BY FractionsExist, CapturedIs
<1>2. p \in 0 .. last /\ FracMax * p <= x * last
  BY PixelIs
<1>3. r \in 0 .. last /\ y * last < FracMax * (r + 1)
  BY PixelIs
<1>4. MapToVirtualDesktop(x, d) \in Int /\ MapToVirtualDesktop(y, d) \in Int
  BY PixelIs
<1>5. p < r + 1 => MapToVirtualDesktop(x, d) <= MapToVirtualDesktop(y, d)
  BY <1>1, <1>2, <1>3, <1>4
<1>. HIDE DEF p, r, last, first
<1>6. x * last <= y * last
  BY <1>1
<1>7. FracMax * p < FracMax * (r + 1)
  BY <1>1, <1>2, <1>3, <1>6
<1>8. p < r + 1
  BY <1>1, <1>2, <1>3, <1>7
<1>. QED  BY <1>5, <1>8

(* The step of a pixel tells the pixel.                                    *)
LEMMA StepIs ==
  ASSUME NEW d \in Desktops, NEW x \in 0 .. FracMax
  PROVE  /\ MouseAbsolute(x, d) \in 0 .. FracMax
         /\ (MouseAbsolute(x, d) * (d.size - 1) + FracMax - 1) \div FracMax
              = MapToVirtualDesktop(x, d)
<1> DEFINE p == MapToVirtualDesktop(x, d)
           n == d.size - 1
           pF == p * FracMax
           s == pF \div n
           e == s * n + FracMax - 1
<1>1. FracMax \in Nat \ {0} /\ n \in 0 .. FracMax /\ p \in 0 .. n
  BY PixelIs, CapturedIs, FractionsExist
<1>2. MouseAbsolute(x, d) = IF n > 0 THEN s ELSE 0
  BY CapturedIs DEF MouseAbsolute
<1>. HIDE DEF p, n
<1>3. CASE n = 0
  <2>1. p = 0 /\ 0 * n + FracMax - 1 = FracMax - 1
    BY <1>1, <1>3
  <2>2. FracMax - 1 \in Int /\ 0 * FracMax <= FracMax - 1 /\ FracMax - 1 < (0 + 1) * FracMax
    BY <1>1
  <2>3. (FracMax - 1) \div FracMax \in 0 .. 0
    BY <1>1, <2>2, QuotientBounds
  <2>4. (FracMax - 1) \div FracMax = 0
    BY <2>3
  <2>5. MouseAbsolute(x, d) = 0 /\ 0 \in 0 .. FracMax
    BY <1>1, <1>2, <1>3
  <2>. QED  BY <2>1, <2>4, <2>5 DEF p, n
<1>4. CASE n # 0
  <2>1. n \in Nat \ {0}
    BY <1>1, <1>4
  <2>2. pF \in Int /\ 0 * n <= pF /\ pF < (FracMax + 1) * n
    BY <1>1, <2>1
  <2>. HIDE DEF pF
  <2>3. s \in 0 .. FracMax
    BY <1>1, <2>1, <2>2, QuotientBounds
  <2>4. n * s <= pF /\ pF < n * s + n
    BY <2>1, <2>2, Quotient
  <2>. HIDE DEF s
  <2>5. s * n \in Int /\ s * n = n * s
    BY <2>1, <2>3
  <2>6. e \in Int /\ pF <= e /\ e < pF + FracMax
    BY <1>1, <2>2, <2>4, <2>5
  <2>7. pF = p * FracMax /\ pF + FracMax = (p + 1) * FracMax
    BY <1>1 DEF pF
  <2>. HIDE DEF e
  <2>8. p * FracMax <= e /\ e < (p + 1) * FracMax
    BY <2>6, <2>7
  <2>9. e \div FracMax \in p .. p
    BY <1>1, <2>6, <2>8, QuotientBounds
  <2>10. e \div FracMax = p /\ MouseAbsolute(x, d) = s
    BY <1>1, <1>2, <2>1, <2>9
  <2>. QED  BY <2>3, <2>10 DEF e, p, n
<1>. QED  BY <1>3, <1>4

(* Steps rise with the fraction.                                           *)
LEMMA StepRises ==
  ASSUME NEW d \in Desktops, NEW x \in 0 .. FracMax, NEW y \in 0 .. FracMax, x <= y
  PROVE  MouseAbsolute(x, d) <= MouseAbsolute(y, d)
<1> DEFINE p == MapToVirtualDesktop(x, d)
           r == MapToVirtualDesktop(y, d)
           n == d.size - 1
<1>1. FracMax \in Nat /\ n \in Nat
  BY CapturedIs, FractionsExist
<1>2. p <= r
  BY PixelRises
<1>3. p \in 0 .. n /\ r \in 0 .. n
  BY PixelIs
<1>4. /\ MouseAbsolute(x, d) = IF n > 0 THEN (p * FracMax) \div n ELSE 0
      /\ MouseAbsolute(y, d) = IF n > 0 THEN (r * FracMax) \div n ELSE 0
  BY CapturedIs DEF MouseAbsolute
<1>. HIDE DEF p, r, n
<1>5. p * FracMax \in Int /\ r * FracMax \in Int /\ p * FracMax <= r * FracMax
  BY <1>1, <1>2, <1>3
<1>6. n > 0 => (p * FracMax) \div n <= (r * FracMax) \div n
  BY <1>1, <1>5, QuotientRises
<1>. QED  BY <1>1, <1>4, <1>6
-----------------------------------------------------------------------------
(* Where the pointer has landed is where its place is mapped to.           *)
PointInv ==
  /\ dimension \in Tablets /\ desktop \in Desktops /\ place \in Places
  /\ pixel = Pixel(place) /\ step = Step(place)

(* The place of a pointer, held inside the surface, and its fraction.      *)
LEMMA FractionOfPlace ==
  ASSUME NEW l \in Tablets, NEW v \in Places
  PROVE  /\ l \in Nat \ {0} /\ v \in Int /\ Inside(v, l) \in 0 .. l
         /\ NormalizePosition(Inside(v, l), l) \in 0 .. FracMax
<1>1. l \in Nat \ {0} /\ v \in Int
  BY PointAssumption
<1>2. Inside(v, l) \in 0 .. l
  BY <1>1 DEF Inside, Clamp
<1>. QED  BY <1>1, <1>2, FractionIs

(* A pointer is where it was put, in every reachable state.                *)
LEMMA PointInvAlways == PointSpec => []PointInv
<1>1. PointInit => PointInv
  BY DEF PointInit, PointInv
<1>2. PointInv /\ [Point]_pointVars => PointInv'
  BY DEF PointInv, Point, pointVars, Pixel, Step, Fraction
<1>. QED  BY <1>1, <1>2, PTL DEF PointSpec

(* A point lands on the captured display, edge on edge.                    *)
LEMMA TouchIsThere == PointInv => TouchLands
<1>. SUFFICES ASSUME PointInv PROVE TouchLands
  OBVIOUS
<1> DEFINE l == dimension
           v == Inside(place, dimension)
           x == NormalizePosition(v, dimension)
           at == pixel - (desktop.offset - desktop.origin)
           last == desktop.surface - 1
           lx == l * x
           vF == v * FracMax
<1>1. dimension \in Tablets /\ desktop \in Desktops /\ place \in Places
  BY DEF PointInv
<1>2. l \in Nat \ {0} /\ v \in 0 .. l /\ x \in 0 .. FracMax
  BY <1>1, FractionOfPlace
<1>3. FracMax \in Nat \ {0} /\ last \in 0 .. FracMax
  BY <1>1, CapturedIs, FractionsExist
<1>4. /\ 2 * lx <= 2 * vF + l /\ 2 * vF < 2 * lx + l
      /\ v = 0 => x = 0
      /\ v = l => x = FracMax
  <2>. HIDE DEF v
  <2>. QED  BY <1>2, FractionIs
<1>5. pixel = MapToVirtualDesktop(x, desktop)
  BY DEF PointInv, Pixel, Fraction
<1>. HIDE DEF x, v
<1>6. /\ at \in 0 .. last
      /\ FracMax * at <= x * last /\ x * last < FracMax * (at + 1)
      /\ x = 0 => at = 0
      /\ x = FracMax => at = last
  BY <1>1, <1>2, <1>5, PixelIs
<1>. HIDE DEF at, last, l
<1>7. lx \in Nat /\ vF \in Nat
  BY <1>2, <1>3
<1> DEFINE vn == v * last
           la == l * at
           nl == last * l
           lxn == lx * last
           vFn == vF * last
<1>8. vn \in Nat /\ la \in Nat /\ nl \in Nat /\ lxn \in Nat /\ vFn \in Nat
  <2>. HIDE DEF lx, vF
  <2>. QED  BY <1>2, <1>3, <1>6, <1>7
<1>9. nl <= FracMax * l
  BY <1>2, <1>3
<1>10. 2 * lxn <= 2 * vFn + nl /\ 2 * vFn <= 2 * lxn + nl
  <2>1. (2 * lx) * last <= (2 * vF + l) * last /\ (2 * vF) * last <= (2 * lx + l) * last
    <3>. HIDE DEF lx, vF
    <3>. QED  BY <1>2, <1>3, <1>4, <1>7
  <2>. HIDE DEF lx, vF
  <2>. QED  BY <1>2, <1>3, <1>7, <2>1
<1>11. FracMax * la <= lxn /\ lxn < FracMax * la + FracMax * l
  <2>1. l * (FracMax * at) <= l * (x * last) /\ l * (x * last) < l * (FracMax * (at + 1))
    BY <1>2, <1>3, <1>6
  <2>2. /\ l * (FracMax * at) = FracMax * la /\ l * (x * last) = lxn
        /\ l * (FracMax * (at + 1)) = FracMax * la + FracMax * l
    BY <1>2, <1>3, <1>6
  <2>. QED  BY <2>1, <2>2
<1>12. vFn = FracMax * vn
  BY <1>2, <1>3
<1>. HIDE DEF lx, vF, vn, la, nl, lxn, vFn
<1>13. FracMax * (2 * la) <= FracMax * (2 * vn + l)
  BY <1>2, <1>3, <1>8, <1>9, <1>10, <1>11, <1>12
<1>14. FracMax * (2 * vn) < FracMax * (2 * la + 3 * l)
  BY <1>2, <1>3, <1>8, <1>9, <1>10, <1>11, <1>12
<1>15. 2 * la <= 2 * vn + l
  BY <1>2, <1>3, <1>8, <1>13
<1>16. 2 * vn < 2 * la + 3 * l
  BY <1>2, <1>3, <1>8, <1>14
<1>17. /\ (2 * at - 1) * l = 2 * la - l /\ (2 * at + 3) * l = 2 * la + 3 * l
       /\ 2 * v * last = 2 * vn
  BY <1>2, <1>3, <1>6 DEF la, vn
<1>18. (2 * at - 1) * l <= 2 * v * last /\ 2 * v * last < (2 * at + 3) * l
  BY <1>2, <1>8, <1>15, <1>16, <1>17
<1>19. (v = 0 => at = 0) /\ (v = l => at = last)
  BY <1>4, <1>6
<1>. QED  BY <1>6, <1>18, <1>19 DEF TouchLands, at, last, l, v

(* The mouse injector's step is that of the touch injector's pixel.        *)
LEMMA MouseIsThere == PointInv => MouseMeetsTouch
<1>1. ASSUME PointInv PROVE MouseMeetsTouch
  <2>1. desktop \in Desktops /\ Fraction(place) \in 0 .. FracMax
    BY <1>1, FractionOfPlace DEF PointInv, Fraction
  <2>. QED  BY <1>1, <2>1, StepIs DEF PointInv, Pixel, Step, MouseMeetsTouch
<1>. QED  BY <1>1

(* Whatever the lengths of the tablet and of the display and wherever the  *)
(* display is: a pointer lands on it, edge on edge, and at most half a     *)
(* pixel outside of its place, and the mouse's step is that of the same    *)
(* pixel (normalizePosition, map_to_virtual_desktop, inject).              *)
THEOREM PointsLandAlways == PointSpec => []PointsLand
<1>1. PointInv => PointsLand
  BY TouchIsThere, MouseIsThere DEF PointsLand
<1>. QED  BY <1>1, PointInvAlways, PTL

(* A pointer that moves to the right never lands further to the left: each *)
(* of the three roundings is monotone.                                     *)
THEOREM NeverBackwardsAlways == PointSpec => NeverBackwards
<1>1. ASSUME PointInv, [Point]_pointVars, place <= place'
      PROVE  pixel <= pixel' /\ step <= step'
  <2>1. /\ dimension \in Tablets /\ desktop \in Desktops /\ place \in Places
        /\ pixel = Pixel(place) /\ step = Step(place)
    BY <1>1 DEF PointInv
  <2>2. /\ dimension' = dimension /\ desktop' = desktop /\ place' \in Places
        /\ pixel' = Pixel(place') /\ step' = Step(place')
    BY <1>1, <2>1 DEF Point, pointVars
  <2>3. /\ dimension \in Nat \ {0} /\ place \in Int /\ place' \in Int
        /\ Inside(place, dimension) \in 0 .. dimension
        /\ Inside(place', dimension) \in 0 .. dimension
        /\ Fraction(place) \in 0 .. FracMax /\ Fraction(place') \in 0 .. FracMax
    BY <2>1, <2>2, FractionOfPlace DEF Fraction
  <2>4. Inside(place, dimension) <= Inside(place', dimension)
    BY <1>1, <2>3 DEF Inside, Clamp
  <2>5. Fraction(place) <= Fraction(place')
    BY <2>3, <2>4, FractionRises DEF Fraction
  <2>. QED  BY <2>1, <2>2, <2>3, <2>5, PixelRises, StepRises DEF Pixel, Step
<1>2. PointInv /\ [Point]_pointVars
        => [place <= place' => pixel <= pixel' /\ step <= step']_pointVars
  BY <1>1
<1>. QED  BY <1>2, PointInvAlways, PTL DEF PointSpec, NeverBackwards

-----------------------------------------------------------------------------
(* Numbers: what is written in bytes is read back.                         *)

(* A byte and the number above it.                                         *)
LEMMA ByteAndRest ==
    ASSUME NEW v \in Nat
    PROVE  /\ v \div 256 \in Nat /\ v % 256 \in 0..255
           /\ v = 256 * (v \div 256) + (v % 256)
           /\ v < 256 => v % 256 = v /\ v \div 256 = 0
    OBVIOUS

(* The numbers that are left when byte after byte is shifted out.          *)
LEMMA ShiftedDown ==
    ASSUME NEW v \in Nat
    PROVE  /\ \A i \in 1..8 : Shifted(v)[i] \in Nat
           /\ \A i \in 1..7 :
                 Shifted(v)[i] = 256 * Shifted(v)[i + 1] + (Shifted(v)[i] % 256)
           /\ Shifted(v)[1] = v
<1> DEFINE q1 == v \div 256   q2 == q1 \div 256  q3 == q2 \div 256  q4 == q3 \div 256
           q5 == q4 \div 256  q6 == q5 \div 256  q7 == q6 \div 256
<1>1. Shifted(v) = <<v, q1, q2, q3, q4, q5, q6, q7>>
    BY Zenon DEF Shifted
<1>2. q2 = q1 \div 256  OBVIOUS
<1>3. q3 = q2 \div 256  OBVIOUS
<1>4. q4 = q3 \div 256  OBVIOUS
<1>5. q5 = q4 \div 256  OBVIOUS
<1>6. q6 = q5 \div 256  OBVIOUS
<1>7. q7 = q6 \div 256  OBVIOUS
<1>8. q1 \in Nat /\ v = 256 * q1 + (v % 256)  OBVIOUS
<1> HIDE DEF q1, q2, q3, q4, q5, q6, q7
<1>9. q2 \in Nat /\ q1 = 256 * q2 + (q1 % 256)  BY <1>2, <1>8
<1>10. q3 \in Nat /\ q2 = 256 * q3 + (q2 % 256)  BY <1>3, <1>9
<1>11. q4 \in Nat /\ q3 = 256 * q4 + (q3 % 256)  BY <1>4, <1>10
<1>12. q5 \in Nat /\ q4 = 256 * q5 + (q4 % 256)  BY <1>5, <1>11
<1>13. q6 \in Nat /\ q5 = 256 * q6 + (q5 % 256)  BY <1>6, <1>12
<1>14. q7 \in Nat /\ q6 = 256 * q7 + (q6 % 256)  BY <1>7, <1>13
<1>15. /\ Shifted(v)[1] = v /\ Shifted(v)[2] = q1 /\ Shifted(v)[3] = q2 /\ Shifted(v)[4] = q3
       /\ Shifted(v)[5] = q4 /\ Shifted(v)[6] = q5 /\ Shifted(v)[7] = q6 /\ Shifted(v)[8] = q7
    BY <1>1
<1>16. ASSUME NEW i \in 1..7
       PROVE  Shifted(v)[i] = 256 * Shifted(v)[i + 1] + (Shifted(v)[i] % 256)
  <2>1. CASE i = 1
      BY <2>1, <1>8, <1>15
  <2>2. CASE i = 2
      BY <2>2, <1>9, <1>15
  <2>3. CASE i = 3
      BY <2>3, <1>10, <1>15
  <2>4. CASE i = 4
      BY <2>4, <1>11, <1>15
  <2>5. CASE i = 5
      BY <2>5, <1>12, <1>15
  <2>6. CASE i = 6
      BY <2>6, <1>13, <1>15
  <2>7. CASE i = 7
      BY <2>7, <1>14, <1>15
  <2> QED
      BY <2>1, <2>2, <2>3, <2>4, <2>5, <2>6, <2>7
<1>17. ASSUME NEW i \in 1..8
       PROVE  Shifted(v)[i] \in Nat
  <2>1. i \in {1, 2, 3, 4, 5, 6, 7, 8}
      OBVIOUS
  <2>2. /\ q1 \in Nat /\ q2 \in Nat /\ q3 \in Nat /\ q4 \in Nat
        /\ q5 \in Nat /\ q6 \in Nat /\ q7 \in Nat
      BY <1>8, <1>9, <1>10, <1>11, <1>12, <1>13, <1>14, Zenon
  <2> QED
      BY <2>1, <2>2, <1>15, Zenon
<1> QED
    BY <1>15, <1>16, <1>17, Zenon

Widths == {1, 2, 4, 8}

LEMMA WriteLeIsBytes ==
    ASSUME NEW v \in Nat, NEW n \in Widths
    PROVE  /\ WriteLe(v, n) \in Seq(Int) /\ Len(WriteLe(v, n)) = n
           /\ DOMAIN WriteLe(v, n) = 1..n
           /\ \A i \in 1..n : /\ WriteLe(v, n)[i] = Shifted(v)[i] % 256
                              /\ WriteLe(v, n)[i] \in 0..255
<1>1. n \in 1..8
    BY DEF Widths
<1>2. \A i \in 1..n : i \in 1..8
    BY <1>1
<1>3. ASSUME NEW i \in 1..n
      PROVE  Shifted(v)[i] % 256 \in 0..255
  <2> DEFINE q == Shifted(v)[i]
  <2>1. q \in Nat
      BY <1>2, ShiftedDown, Zenon
  <2> HIDE DEF q
  <2>2. q % 256 \in 0..255
      BY <2>1
  <2> QED
      BY <2>2 DEF q
<1> QED
    BY <1>1, <1>3 DEF WriteLe

LEMMA ReadBack ==
    ASSUME NEW v, NEW n \in Widths, HasWidth(v, n)
    PROVE  ReadLe(WriteLe(v, n)) = v
<1> DEFINE bytes == WriteLe(v, n)  q(i) == Shifted(v)[i]  r(i) == q(i) % 256
           b == [i \in 1..8 |-> IF i \in DOMAIN bytes THEN bytes[i] ELSE 0]
<1>1. v \in Nat /\ q(n) < 256
    BY Zenon DEF HasWidth
<1>2. n \in 1..8
    BY DEF Widths
<1>3. /\ \A i \in 1..8 : q(i) \in Nat
      /\ \A i \in 1..7 : q(i) = 256 * q(i + 1) + r(i)
      /\ q(1) = v
  <2> HIDE DEF HasWidth
  <2> QED
      BY <1>1, ShiftedDown
<1>4. /\ DOMAIN bytes = 1..n
      /\ \A i \in 1..n : bytes[i] = r(i)
    BY <1>1, WriteLeIsBytes, Zenon
<1>5. \A i \in 1..8 : r(i) \in 0..255
    BY <1>3, ByteAndRest, Zenon
<1>6. r(n) = q(n)
    BY <1>1, <1>2, <1>3, ByteAndRest, Zenon
<1>7. ReadLe(bytes) = b[1] + 256 * (b[2] + 256 * (b[3] + 256 * (b[4] + 256 *
            (b[5] + 256 * (b[6] + 256 * (b[7] + 256 * b[8]))))))
    BY Zenon DEF ReadLe
<1> HIDE DEF q, r, bytes
<1>8. \A i \in 1..8 : b[i] = IF i <= n THEN r(i) ELSE 0
    BY <1>2, <1>4
<1> HIDE DEF b
<1>9. /\ q(1) = 256 * q(2) + r(1) /\ q(2) = 256 * q(3) + r(2)
      /\ q(3) = 256 * q(4) + r(3) /\ q(4) = 256 * q(5) + r(4)
      /\ q(5) = 256 * q(6) + r(5) /\ q(6) = 256 * q(7) + r(6)
      /\ q(7) = 256 * q(8) + r(7)
  <2>1. \A i, j : i \in 1..7 /\ j = i + 1 => q(i) = 256 * q(j) + r(i)
      BY <1>3
  <2> QED
      BY <2>1
<1>10. /\ q(1) \in Nat /\ q(2) \in Nat /\ q(3) \in Nat /\ q(4) \in Nat
       /\ q(5) \in Nat /\ q(6) \in Nat /\ q(7) \in Nat /\ q(8) \in Nat
       /\ r(1) \in Int /\ r(2) \in Int /\ r(3) \in Int /\ r(4) \in Int
       /\ r(5) \in Int /\ r(6) \in Int /\ r(7) \in Int /\ r(8) \in Int
    BY <1>3, <1>5
<1>11. CASE n = 1
  <2>1. /\ b[1] = r(1) /\ b[2] = 0 /\ b[3] = 0 /\ b[4] = 0
        /\ b[5] = 0 /\ b[6] = 0 /\ b[7] = 0 /\ b[8] = 0
      BY <1>8, <1>11
  <2> QED
      BY <2>1, <1>3, <1>6, <1>7, <1>10, <1>11 DEF bytes
<1>12. CASE n = 2
  <2>1. /\ b[1] = r(1) /\ b[2] = r(2) /\ b[3] = 0 /\ b[4] = 0
        /\ b[5] = 0 /\ b[6] = 0 /\ b[7] = 0 /\ b[8] = 0
      BY <1>8, <1>12
  <2> QED
      BY <2>1, <1>3, <1>6, <1>7, <1>9, <1>10, <1>12 DEF bytes
<1>13. CASE n = 4
  <2>1. /\ b[1] = r(1) /\ b[2] = r(2) /\ b[3] = r(3) /\ b[4] = r(4)
        /\ b[5] = 0 /\ b[6] = 0 /\ b[7] = 0 /\ b[8] = 0
      BY <1>8, <1>13
  <2> QED
      BY <2>1, <1>3, <1>6, <1>7, <1>9, <1>10, <1>13 DEF bytes
<1>14. CASE n = 8
  <2>1. /\ b[1] = r(1) /\ b[2] = r(2) /\ b[3] = r(3) /\ b[4] = r(4)
        /\ b[5] = r(5) /\ b[6] = r(6) /\ b[7] = r(7) /\ b[8] = r(8)
      BY <1>8, <1>14
  <2> QED
      BY <2>1, <1>3, <1>6, <1>7, <1>9, <1>10, <1>14 DEF bytes
<1> QED
    BY <1>11, <1>12, <1>13, <1>14 DEF Widths

-----------------------------------------------------------------------------
(* Layouts: every field lies inside, and no two share a byte.              *)
WellFormed(layout) ==
    /\ layout.size \in Nat
    /\ \A f \in DOMAIN layout.fields :
          /\ layout.fields[f].at \in Nat
          /\ layout.fields[f].width \in Widths
          /\ layout.fields[f].at + layout.fields[f].width <= layout.size
    /\ \A f, g \in DOMAIN layout.fields :
          f # g => \/ layout.fields[f].at + layout.fields[f].width <= layout.fields[g].at
                   \/ layout.fields[g].at + layout.fields[g].width <= layout.fields[f].at

LEMMA LayoutsAreWellFormed ==
    /\ WellFormed(Header) /\ WellFormed(TouchEvent) /\ WellFormed(PenEvent)
    /\ WellFormed(MouseEvent) /\ WellFormed(DeckAction) /\ WellFormed(VolumeState)
    /\ WellFormed(HandshakeReq) /\ WellFormed(HandshakeResp) /\ WellFormed(Telemetry)
<1> USE DEF WellFormed, Layout, Field, Widths
<1>1. WellFormed(Header)  BY DEF Header
<1>2. WellFormed(TouchEvent)  BY DEF TouchEvent
<1>3. WellFormed(PenEvent)  BY DEF PenEvent
<1>4. WellFormed(MouseEvent)  BY DEF MouseEvent
<1>5. WellFormed(DeckAction)  BY DEF DeckAction
<1>6. WellFormed(VolumeState)  BY DEF VolumeState
<1>7. WellFormed(HandshakeReq)  BY DEF HandshakeReq
<1>8. WellFormed(HandshakeResp)  BY DEF HandshakeResp
<1>9. WellFormed(Telemetry)  BY DEF Telemetry
<1> QED
    BY <1>1, <1>2, <1>3, <1>4, <1>5, <1>6, <1>7, <1>8, <1>9

Writable(layout, m) ==
    \A f \in DOMAIN layout.fields : HasWidth(m[f], layout.fields[f].width)

(* A field's bytes stand where the field is: no other field is there.      *)
LEMMA SerializePutsInPlace ==
    ASSUME NEW layout, WellFormed(layout), NEW m, Writable(layout, m)
    PROVE  /\ Serialize(layout, m) \in Seq(Int)
           /\ Len(Serialize(layout, m)) = layout.size
           /\ \A f \in DOMAIN layout.fields : \A j \in 1..layout.fields[f].width :
                 Serialize(layout, m)[layout.fields[f].at + j]
                     = WriteLe(m[f], layout.fields[f].width)[j]
<1> DEFINE at(f) == layout.fields[f].at  width(f) == layout.fields[f].width
           fields == DOMAIN layout.fields  size == layout.size
           bytes(f) == WriteLe(m[f], width(f))
           value(i) == IF FieldsAt(layout, i) = {} THEN 0
                       ELSE LET f == CHOOSE f \in FieldsAt(layout, i) : TRUE
                            IN  WriteLe(m[f], layout.fields[f].width)[i - layout.fields[f].at]
<1>1. Serialize(layout, m) = [i \in 1..size |-> value(i)]
    BY Zenon DEF Serialize
<1>2. /\ size \in Nat
      /\ \A f \in fields : at(f) \in Nat /\ width(f) \in Widths /\ at(f) + width(f) <= size
      /\ \A f, g \in fields :
            f # g => at(f) + width(f) <= at(g) \/ at(g) + width(g) <= at(f)
    BY Zenon DEF WellFormed
<1>3. \A f \in fields : width(f) \in Nat
    BY <1>2 DEF Widths
<1>4. ASSUME NEW f \in fields
      PROVE  \A j \in 1..width(f) : bytes(f)[j] \in Int
  <2>1. m[f] \in Nat
      BY Zenon DEF Writable, HasWidth
  <2>2. \A j \in 1..width(f) : bytes(f)[j] \in 0..255
      BY <2>1, <1>2, WriteLeIsBytes, Zenon
  <2> QED
      BY <2>2
<1>5. \A i : FieldsAt(layout, i) = {f \in fields : i - at(f) \in 1..width(f)}
    BY Zenon DEF FieldsAt
<1>6. \A i : value(i) = IF FieldsAt(layout, i) = {} THEN 0
                       ELSE bytes(CHOOSE f \in FieldsAt(layout, i) : TRUE)
                                [i - at(CHOOSE f \in FieldsAt(layout, i) : TRUE)]
    BY Zenon
<1> HIDE DEF at, width, fields, size, bytes, value
<1>7. ASSUME NEW i \in 1..size
      PROVE  value(i) \in Int
  <2>1. CASE FieldsAt(layout, i) = {}
      BY <2>1, <1>6
  <2>2. CASE FieldsAt(layout, i) # {}
    <3> DEFINE f == CHOOSE f \in FieldsAt(layout, i) : TRUE
    <3>1. f \in FieldsAt(layout, i)
        BY <2>2
    <3>2. value(i) = bytes(f)[i - at(f)]
        BY <2>2, <1>6, Zenon
    <3> HIDE DEF f
    <3>3. f \in fields /\ i - at(f) \in 1..width(f)
        BY <3>1, <1>5, Zenon
    <3> QED
        BY <3>2, <3>3, <1>4, Zenon
  <2> QED
      BY <2>1, <2>2
<1>8. Serialize(layout, m) \in Seq(Int) /\ Len(Serialize(layout, m)) = size
    BY <1>1, <1>2, <1>7
<1>9. ASSUME NEW f \in fields, NEW j \in 1..width(f)
      PROVE  Serialize(layout, m)[at(f) + j] = bytes(f)[j]
  <2> DEFINE i == at(f) + j
  <2>1. i \in 1..size /\ i - at(f) = j /\ i \in Int
      BY <1>2, <1>3
  <2>2. FieldsAt(layout, i) = {f}
    <3>1. f \in FieldsAt(layout, i)
        BY <2>1, <1>5, Zenon
    <3>2. ASSUME NEW g \in fields, g # f, i - at(g) \in 1..width(g)
          PROVE  FALSE
      <4>1. at(f) + width(f) <= at(g) \/ at(g) + width(g) <= at(f)
          BY <3>2, <1>2, Zenon
      <4>2. at(f) \in Nat /\ at(g) \in Nat /\ width(f) \in Nat /\ width(g) \in Nat
          BY <1>2, <1>3
      <4> QED
          BY <3>2, <4>1, <4>2
    <3> QED
        BY <3>1, <3>2, <1>5
  <2>3. (CHOOSE g \in FieldsAt(layout, i) : TRUE) = f
      BY <2>2
  <2>4. value(i) = bytes(f)[i - at(f)]
      BY <2>2, <2>3, <1>6
  <2>5. value(i) = bytes(f)[j]
      BY <2>1, <2>4
  <2>6. Serialize(layout, m)[i] = value(i)
      BY <2>1, <1>1
  <2> QED
      BY <2>5, <2>6
<1> QED
    BY <1>8, <1>9, Zenon DEF at, width, fields, size, bytes

(* A part of a sequence.                                                   *)
LEMMA PartOf ==
    ASSUME NEW s \in Seq(Int), NEW at \in Nat, NEW n \in Nat, at + n <= Len(s)
    PROVE  /\ SubSeq(s, at + 1, at + n) \in Seq(Int)
           /\ Len(SubSeq(s, at + 1, at + n)) = n
           /\ \A j \in 1..n : SubSeq(s, at + 1, at + n)[j] = s[at + j]
<1> DEFINE part == SubSeq(s, at + 1, at + n)
<1>1. \A i \in at + 1..at + n : s[i] \in Int
    OBVIOUS
<1>2. /\ part \in Seq(Int)
      /\ Len(part) = IF at + 1 <= at + n THEN at + n - (at + 1) + 1 ELSE 0
      /\ \A j \in 1..at + n - (at + 1) + 1 : part[j] = s[at + 1 + j - 1]
    BY <1>1, SubSeqProperties
<1> HIDE DEF part
<1>3. /\ Len(part) = n
      /\ \A j \in 1..n : part[j] = s[at + j]
    BY <1>2
<1> QED
    BY <1>2, <1>3 DEF part

(* Whatever begins with a message's bytes is read as that message.         *)
LEMMA DeserializeBack ==
    ASSUME NEW layout, WellFormed(layout), NEW m, Writable(layout, m),
           NEW bytes \in Seq(Int), layout.size <= Len(bytes),
           \A i \in 1..layout.size : bytes[i] = Serialize(layout, m)[i]
    PROVE  Deserialize(layout, bytes) = [f \in DOMAIN layout.fields |-> m[f]]
<1>1. SUFFICES ASSUME NEW f \in DOMAIN layout.fields
               PROVE  ReadLe(SubSeq(bytes, layout.fields[f].at + 1,
                                    layout.fields[f].at + layout.fields[f].width)) = m[f]
    BY Zenon DEF Deserialize
<1> DEFINE at == layout.fields[f].at  width == layout.fields[f].width
           part == SubSeq(bytes, at + 1, at + width)  v == m[f]
<1>2. at \in Nat /\ width \in Widths /\ at + width <= layout.size /\ layout.size \in Nat
    BY Zenon DEF WellFormed
<1>3. HasWidth(v, width) /\ v \in Nat
    BY Zenon DEF Writable, HasWidth
<1>4. \A j \in 1..width : Serialize(layout, m)[at + j] = WriteLe(v, width)[j]
    BY SerializePutsInPlace
<1>5. WriteLe(v, width) \in Seq(Int) /\ Len(WriteLe(v, width)) = width
    BY <1>2, <1>3, WriteLeIsBytes
<1> HIDE DEF at, width, v
<1>6. width \in Nat
    BY <1>2 DEF Widths
<1>7. /\ part \in Seq(Int) /\ Len(part) = width
      /\ \A j \in 1..width : part[j] = bytes[at + j]
    BY <1>2, <1>6, PartOf
<1> HIDE DEF part
<1>8. \A j \in 1..width : part[j] = WriteLe(v, width)[j]
  <2>1. ASSUME NEW j \in 1..width
        PROVE  at + j \in 1..layout.size
      BY <1>2, <1>6
  <2> QED
      BY <2>1, <1>4, <1>7
<1>9. part = WriteLe(v, width)
    BY <1>5, <1>7, <1>8, SeqEqual
<1>10. ReadLe(WriteLe(v, width)) = v
    BY <1>2, <1>3, ReadBack, Zenon
<1> QED
    BY <1>9, <1>10 DEF at, width, part, v

-----------------------------------------------------------------------------
(* Messages: what a receiver makes of the bytes of a sender.               *)
LEMMA SmallNumbers ==
    /\ \A v \in 0..255 : HasWidth(v, 1) /\ HasWidth(v, 2) /\ HasWidth(v, 4)
    /\ HasWidth(Magic, 4)
<1>1. ASSUME NEW v \in 0..255
      PROVE  v \div 256 = 0
    OBVIOUS
<1>2. 0 \div 256 = 0 /\ Magic \div 256 = 5524563 /\ 5524563 \div 256 = 21580
      /\ 21580 \div 256 = 84 /\ Magic \in Nat
    BY DEF Magic
<1> HIDE DEF Magic
<1>3. ASSUME NEW v \in 0..255
      PROVE  HasWidth(v, 1) /\ HasWidth(v, 2) /\ HasWidth(v, 4)
  <2>1. /\ Shifted(v)[1] = v /\ Shifted(v)[2] = v \div 256
        /\ Shifted(v)[4] = ((v \div 256) \div 256) \div 256
      BY DEF Shifted
  <2> QED
      BY <2>1, <1>1, <1>2 DEF HasWidth
<1>4. HasWidth(Magic, 4)
  <2>1. Shifted(Magic)[4] = ((Magic \div 256) \div 256) \div 256
      BY DEF Shifted
  <2> QED
      BY <2>1, <1>2 DEF HasWidth
<1> QED
    BY <1>3, <1>4

LEMMA EveryLayout ==
    ASSUME NEW t \in DOMAIN LayoutOf
    PROVE  WellFormed(LayoutOf[t]) /\ LayoutOf[t].size \in 0..255
<1>1. LayoutOf[t] \in {HandshakeReq, HandshakeResp, TouchEvent, PenEvent, MouseEvent,
                     DeckAction, VolumeState}
    BY DEF LayoutOf
<1>2. \A l \in {HandshakeReq, HandshakeResp, TouchEvent, PenEvent, MouseEvent,
              DeckAction, VolumeState} : l.size \in 0..255
    BY DEF HandshakeReq, HandshakeResp, TouchEvent, PenEvent, MouseEvent, DeckAction,
           VolumeState, Layout
<1> QED
    BY <1>1, <1>2, LayoutsAreWellFormed

LEMMA Associative ==
    ASSUME NEW a \in Seq(Int), NEW b \in Seq(Int), NEW c \in Seq(Int)
    PROVE  (a \o b) \o c = a \o (b \o c)
    BY ConcatAssociative

LEMMA ConcatParts ==
    ASSUME NEW s \in Seq(Int), NEW t \in Seq(Int)
    PROVE  /\ s \o t \in Seq(Int) /\ Len(s \o t) = Len(s) + Len(t)
           /\ Len(s) \in Nat /\ Len(t) \in Nat
           /\ \A i \in 1..Len(s) : (s \o t)[i] = s[i]
           /\ SubSeq(s \o t, 1, Len(s)) = s
           /\ SubSeq(s \o t, Len(s) + 1, Len(s \o t)) = t
<1> DEFINE u == s \o t
<1>1. /\ u \in Seq(Int) /\ Len(u) = Len(s) + Len(t)
      /\ \A i \in 1..Len(s) + Len(t) : u[i] = IF i <= Len(s) THEN s[i] ELSE t[i - Len(s)]
    BY ConcatProperties
<1>2. Len(s) \in Nat /\ Len(t) \in Nat
    BY LenProperties
<1> DEFINE n == Len(s)  k == Len(t)  back == SubSeq(u, n + 1, n + k)
           front == SubSeq(u, 0 + 1, 0 + n)
<1> HIDE DEF u, n, k
<1>3. front \in Seq(Int) /\ Len(front) = n /\ \A i \in 1..n : front[i] = u[0 + i]
    BY <1>1, <1>2, PartOf DEF n, k
<1>4. back \in Seq(Int) /\ Len(back) = k /\ \A i \in 1..k : back[i] = u[n + i]
    BY <1>1, <1>2, PartOf DEF n, k
<1> HIDE DEF back, front
<1>5. front = s
  <2>1. ASSUME NEW i \in 1..n
        PROVE  front[i] = s[i]
    <3>1. i \in 1..n + k /\ i <= n /\ 0 + i = i
        BY <1>2 DEF n, k
    <3>2. u[i] = s[i]
        BY <3>1, <1>1 DEF n, k
    <3> QED
        BY <3>1, <3>2, <1>3
  <2> QED
      BY <2>1, <1>3, SeqEqual DEF n
<1>6. back = t
  <2>1. ASSUME NEW i \in 1..k
        PROVE  back[i] = t[i]
    <3>1. n + i \in 1..n + k /\ ~(n + i <= n) /\ (n + i) - n = i
        BY <1>2 DEF n, k
    <3>2. u[n + i] = t[(n + i) - n]
        BY <3>1, <1>1 DEF n, k
    <3> QED
        BY <3>1, <3>2, <1>4
  <2> QED
      BY <2>1, <1>4, SeqEqual DEF k
<1>7. SubSeq(u, 1, Len(s)) = s /\ SubSeq(u, Len(s) + 1, Len(u)) = t
    BY <1>1, <1>2, <1>5, <1>6 DEF front, back, n, k
<1> QED
    BY <1>1, <1>2, <1>7 DEF u

(* A serialized message in front of other bytes is read back.              *)
LEMMA ReadFromFront ==
    ASSUME NEW layout, WellFormed(layout), NEW m, Writable(layout, m), NEW rest \in Seq(Int)
    PROVE  Deserialize(layout, Serialize(layout, m) \o rest)
               = [f \in DOMAIN layout.fields |-> m[f]]
<1> DEFINE s == Serialize(layout, m)
<1>1. s \in Seq(Int) /\ Len(s) = layout.size
    BY SerializePutsInPlace
<1> HIDE DEF s
<1>2. /\ s \o rest \in Seq(Int) /\ Len(s \o rest) = Len(s) + Len(rest)
      /\ Len(s) \in Nat /\ Len(rest) \in Nat
      /\ \A i \in 1..Len(s) : (s \o rest)[i] = s[i]
    BY <1>1, ConcatParts
<1>3. layout.size <= Len(s \o rest)
    BY <1>1, <1>2
<1>4. \A i \in 1..layout.size : (s \o rest)[i] = Serialize(layout, m)[i]
    BY <1>1, <1>2 DEF s
<1> DEFINE bytes == s \o rest
<1>5. bytes \in Seq(Int) /\ layout.size <= Len(bytes)
      /\ \A i \in 1..layout.size : bytes[i] = Serialize(layout, m)[i]
    BY <1>2, <1>3, <1>4
<1> HIDE DEF bytes
<1>6. Deserialize(layout, bytes) = [f \in DOMAIN layout.fields |-> m[f]]
    BY <1>5, DeserializeBack
<1> QED
    BY <1>6 DEF bytes, s

(* And so it is when there is nothing behind it.                           *)
LEMMA ReadAlone ==
    ASSUME NEW layout, WellFormed(layout), NEW m, Writable(layout, m)
    PROVE  Deserialize(layout, Serialize(layout, m)) = [f \in DOMAIN layout.fields |-> m[f]]
<1> DEFINE s == Serialize(layout, m)
<1>1. s \in Seq(Int) /\ Len(s) = layout.size
    BY SerializePutsInPlace
<1>2. layout.size <= Len(s)
    BY <1>1 DEF WellFormed
<1> QED
    BY <1>1, <1>2, DeserializeBack

LEMMA FilledFits ==
    ASSUME NEW m, IsMessage(m), m.type \in DOMAIN LayoutOf
    PROVE  /\ Writable(LayoutOf[m.type], Filled(m))
           /\ Filled(m) = [f \in DOMAIN LayoutOf[m.type].fields |-> Filled(m)[f]]
<1>1. m.type \notin Plain /\ m.type # VideoFrame
    BY DEF LayoutOf, Plain, VideoFrame
<1>2. /\ m.body \in [DOMAIN LayoutOf[m.type].fields -> Int]
      /\ \A f \in DOMAIN m.body : HasWidth(Filled(m)[f], LayoutOf[m.type].fields[f].width)
    BY <1>1, Zenon DEF IsMessage
<1>3. DOMAIN m.body = DOMAIN LayoutOf[m.type].fields
    BY <1>2
<1>4. Writable(LayoutOf[m.type], Filled(m))
    BY <1>2, <1>3, Zenon DEF Writable
<1>5. \E d : Filled(m) = [f \in DOMAIN m.body |-> d[f]]
  <2>1. CASE m.type = 65
    <3>1. Filled(m) = [m.body EXCEPT !.button_id = IF @ \in 0..255 THEN @ ELSE 0, !.value = 0]
        BY <2>1 DEF Filled
    <3> QED
        BY <3>1, <1>2
  <2>2. CASE m.type \in {67, 68}
    <3>1. Filled(m) = [m.body EXCEPT !.muted = IF @ # 0 THEN 1 ELSE 0]
        BY <2>2 DEF Filled
    <3> QED
        BY <3>1, <1>2
  <2>3. CASE m.type \notin {65, 67, 68}
    <3>1. Filled(m) = m.body
        BY <2>3 DEF Filled
    <3> QED
        BY <3>1, <1>2
  <2> QED
      BY <2>1, <2>2, <2>3
<1>6. Filled(m) = [f \in DOMAIN m.body |-> Filled(m)[f]]
  <2>1. PICK d : Filled(m) = [f \in DOMAIN m.body |-> d[f]]
      BY <1>5
  <2> DEFINE e == [f \in DOMAIN m.body |-> d[f]]
  <2>2. e = [f \in DOMAIN m.body |-> e[f]]
      OBVIOUS
  <2> HIDE DEF e
  <2>3. Filled(m) = e
      BY <2>1 DEF e
  <2> QED
      BY <2>2, <2>3
<1> QED
    BY <1>3, <1>4, <1>6

(* A video message: the measures and the picture.                          *)
IsVideo(video) ==
    /\ video.telemetry \in [Measures -> Nat]
    /\ \A f \in Measures : HasWidth(video.telemetry[f], Telemetry.fields[f].width)
    /\ video = [telemetry |-> video.telemetry, nal |-> video.nal]
    /\ video.nal \in Seq(Int)

LEMMA VideoBack ==
    ASSUME NEW video, IsVideo(video)
    PROVE  /\ SendVideo(video) \in Seq(Int)
           /\ Len(SendVideo(video)) = Telemetry.size + Len(video.nal)
           /\ ReceiveVideo(SendVideo(video)) = video
<1> DEFINE stamped == Stamped(video.telemetry)
           marks == Serialize(Telemetry, stamped)
           payload == SendVideo(video)
           t == Deserialize(Telemetry, payload)
<1>1. /\ Telemetry.size = 56 /\ {"magic", "version", "header_size"} \subseteq DOMAIN Telemetry.fields
      /\ Telemetry.fields["magic"].width = 4 /\ Telemetry.fields["version"].width = 2
      /\ Telemetry.fields["header_size"].width = 2
    BY DEF Telemetry, Layout, Field
<1>2. /\ stamped["magic"] = Magic /\ stamped["version"] = 2 /\ stamped["header_size"] = 56
      /\ \A f \in Measures : stamped[f] = video.telemetry[f] /\ f \in DOMAIN Telemetry.fields
    BY <1>1 DEF Stamped, Measures, Stamps, Version
<1>3. Writable(Telemetry, stamped)
  <2>1. ASSUME NEW f \in DOMAIN Telemetry.fields
        PROVE  HasWidth(stamped[f], Telemetry.fields[f].width)
    <3>1. CASE f \in Measures
        BY <3>1, <1>2, Zenon DEF IsVideo
    <3>2. CASE f \in Stamps
      <4>1. f = "magic" \/ f = "version" \/ f = "header_size"
          BY <3>2 DEF Stamps
      <4>2. HasWidth(2, 2) /\ HasWidth(56, 2) /\ HasWidth(Magic, 4)
          BY SmallNumbers
      <4> QED
          BY <4>1, <4>2, <1>1, <1>2, Zenon
    <3> QED
        BY <3>1, <3>2 DEF Measures
  <2> QED
      BY <2>1, Zenon DEF Writable
<1>4. WellFormed(Telemetry)
    BY LayoutsAreWellFormed
<1>5. marks \in Seq(Int) /\ Len(marks) = 56
    BY <1>1, <1>3, <1>4, SerializePutsInPlace
<1>6. payload = marks \o video.nal /\ video.nal \in Seq(Int)
    BY Zenon DEF SendVideo, IsVideo
<1>7. t = [f \in DOMAIN Telemetry.fields |-> stamped[f]]
    BY <1>3, <1>4, <1>6, ReadFromFront
<1> HIDE DEF t, stamped, marks, payload
<1>8. /\ payload \in Seq(Int) /\ Len(payload) = 56 + Len(video.nal)
      /\ SubSeq(payload, 56 + 1, Len(payload)) = video.nal
      /\ Len(video.nal) \in Nat
  <2> DEFINE nal == video.nal
  <2> HIDE DEF nal
  <2>1. nal \in Seq(Int) /\ payload = marks \o nal
      BY <1>6 DEF nal
  <2>2. /\ payload \in Seq(Int) /\ Len(payload) = Len(marks) + Len(nal) /\ Len(nal) \in Nat
        /\ SubSeq(payload, Len(marks) + 1, Len(payload)) = nal
      BY <2>1, <1>5, ConcatParts, Zenon
  <2>3. SubSeq(payload, 56 + 1, Len(payload)) = nal /\ Len(payload) = 56 + Len(nal)
      BY <2>2, <1>5, Zenon
  <2> QED
      BY <2>2, <2>3 DEF nal
<1>9. t.magic = Magic /\ t.version = Version /\ t.header_size = 56
    BY <1>1, <1>2, <1>7 DEF Version
<1>10. TelemetryBytes(payload) = 56
    BY <1>1, <1>8, <1>9 DEF TelemetryBytes, t
<1>11. [f \in Measures |-> IF 56 = 0 THEN 0 ELSE t[f]] = video.telemetry
  <2>1. \A f \in Measures : t[f] = video.telemetry[f]
      BY <1>2, <1>7
  <2>2. video.telemetry \in [Measures -> Nat]
      BY Zenon DEF IsVideo
  <2> QED
      BY <2>1, <2>2
<1>12. ReceiveVideo(payload) = [telemetry |-> [f \in Measures |-> IF 56 = 0 THEN 0 ELSE t[f]],
                               nal |-> SubSeq(payload, 56 + 1, Len(payload))]
    BY <1>10, Zenon DEF ReceiveVideo, t
<1>13. ReceiveVideo(payload) = [telemetry |-> video.telemetry, nal |-> video.nal]
    BY <1>8, <1>11, <1>12, Zenon
<1> QED
    BY <1>1, <1>8, <1>13, Zenon DEF IsVideo, payload

Survived(m) == [type |-> m.type, flags |-> m.flags, body |-> Filled(m)]

(* The header and the payload of a message give the message back.          *)
LEMMA MessageBack ==
    ASSUME NEW m, IsMessage(m)
    PROVE  /\ Payload(m) \in Seq(Int)
           /\ Writable(Header, HeaderOf(m))
           /\ HeaderOf(m) # NoHeader /\ HeaderOf(m).length = Len(Payload(m))
           /\ Parsed(HeaderOf(m), Payload(m)) = <<Survived(m)>>
<1> DEFINE h == HeaderOf(m)
<1>1. /\ h = [type |-> m.type, flags |-> m.flags, length |-> Len(Payload(m))]
      /\ h.type = m.type /\ h.flags = m.flags /\ h.length = Len(Payload(m))
    BY DEF HeaderOf
<1> HIDE DEF h
<1>2. /\ VideoFrame \notin DOMAIN LayoutOf /\ VideoFrame \notin Plain
      /\ DOMAIN LayoutOf \cap Plain = {} /\ VideoFrame \in 1..255
      /\ DOMAIN LayoutOf \subseteq 1..255 /\ Plain \subseteq 1..255
    BY DEF VideoFrame, LayoutOf, Plain
<1>3. m.flags \in 0..255 /\ m.type \in 1..255
    BY <1>2 DEF IsMessage
<1>4. ASSUME HasWidth(Len(Payload(m)), 4)
      PROVE  Writable(Header, HeaderOf(m)) /\ HeaderOf(m) # NoHeader
  <2>1. /\ DOMAIN Header.fields = {"type", "flags", "length"}
        /\ Header.fields["type"].width = 1 /\ Header.fields["flags"].width = 1
        /\ Header.fields["length"].width = 4
      BY DEF Header, Layout, Field
  <2>2. HasWidth(m.type, 1) /\ HasWidth(m.flags, 1)
      BY <1>3, SmallNumbers
  <2>3. h["type"] = m.type /\ h["flags"] = m.flags /\ h["length"] = Len(Payload(m))
      BY <1>1
  <2>4. \A f \in DOMAIN Header.fields : HasWidth(h[f], Header.fields[f].width)
    <3>1. HasWidth(h["type"], Header.fields["type"].width)
        BY <2>1, <2>2, <2>3, Zenon
    <3>2. HasWidth(h["flags"], Header.fields["flags"].width)
        BY <2>1, <2>2, <2>3, Zenon
    <3>3. HasWidth(h["length"], Header.fields["length"].width)
        BY <2>1, <1>4, <2>3, Zenon
    <3> QED
        BY <3>1, <3>2, <3>3, <2>1, Zenon
  <2>5. h # NoHeader
    <3>1. NoHeader.type = 0
        BY DEF NoHeader
    <3>2. m.type # 0
        BY <1>3
    <3> QED
        BY <1>1, <3>1, <3>2, Zenon
  <2> QED
      BY <2>4, <2>5, Zenon DEF Writable, h
<1>5. CASE m.type = VideoFrame
  <2>1. /\ m.type \notin DOMAIN LayoutOf /\ m.type \notin Plain
      BY <1>2, <1>5
  <2>2. IsVideo(m.body) /\ HasWidth(Telemetry.size + Len(m.body.nal), 4)
    <3>1. /\ m.body.telemetry \in [Measures -> Nat]
          /\ \A f \in Measures : HasWidth(m.body.telemetry[f], Telemetry.fields[f].width)
          /\ m.body = [telemetry |-> m.body.telemetry, nal |-> m.body.nal]
          /\ m.body.nal \in Seq(0..255) /\ HasWidth(Telemetry.size + Len(m.body.nal), 4)
        BY <2>1, Zenon DEF IsMessage
    <3>2. m.body.nal \in Seq(Int)
        BY <3>1, SeqMonotonic, 0..255 \subseteq Int
    <3> QED
        BY <3>1, <3>2, Zenon DEF IsVideo
  <2>0. m.type # 65 /\ m.type \notin {67, 68}
      BY <1>5 DEF VideoFrame
  <2>3. Payload(m) = SendVideo(m.body) /\ Filled(m) = m.body
    <3>1. Payload(m) = SendVideo(m.body)
        BY <1>5, <2>1, Zenon DEF Payload
    <3>2. Filled(m) = m.body
        BY <2>0 DEF Filled
    <3> QED
        BY <3>1, <3>2
  <2>4. Parsed(h, Payload(m)) = <<[type |-> h.type, flags |-> h.flags,
                                   body |-> ReceiveVideo(Payload(m))]>>
    <3>1. h.type = VideoFrame /\ h.type \notin DOMAIN LayoutOf /\ h.type \notin Plain
        BY <1>1, <1>5, <2>1
    <3> QED
        BY <3>1, Zenon DEF Parsed
  <2>5. /\ Payload(m) \in Seq(Int) /\ HasWidth(Len(Payload(m)), 4)
        /\ ReceiveVideo(Payload(m)) = Filled(m)
      BY <2>2, <2>3, VideoBack
  <2> QED
      BY <1>1, <1>4, <2>4, <2>5, Zenon DEF Survived, h
<1>6. CASE m.type \in DOMAIN LayoutOf
  <2> DEFINE layout == LayoutOf[m.type]
  <2>1. m.type # VideoFrame
      BY <1>2, <1>6
  <2>2. Writable(layout, Filled(m)) /\ Filled(m) = [f \in DOMAIN layout.fields |-> Filled(m)[f]]
      BY <1>6, FilledFits
  <2>3. WellFormed(layout) /\ layout.size \in 0..255
      BY <1>6, EveryLayout
  <2> HIDE DEF layout
  <2>4. Payload(m) = Serialize(layout, Filled(m))
      BY <1>6, <2>1 DEF Payload, layout
  <2>5. Payload(m) \in Seq(Int) /\ Len(Payload(m)) = layout.size
      BY <2>2, <2>3, <2>4, SerializePutsInPlace
  <2>6. Deserialize(layout, Payload(m)) = Filled(m)
      BY <2>2, <2>3, <2>4, ReadAlone
  <2>7. HasWidth(Len(Payload(m)), 4)
      BY <2>3, <2>5, SmallNumbers
  <2>8. Accepted(h)
      BY <1>1, <2>3, <2>5 DEF Accepted, layout
  <2>9. Parsed(h, Payload(m)) = <<[type |-> h.type, flags |-> h.flags,
                                   body |-> Deserialize(layout, Payload(m))]>>
    <3>1. h.type # VideoFrame /\ h.type \in DOMAIN LayoutOf /\ h.type \notin Plain
        BY <1>1, <1>2, <1>6
    <3>2. layout = LayoutOf[h.type]
        BY <1>1 DEF layout
    <3> QED
        BY <3>1, <3>2, <2>8, Zenon DEF Parsed
  <2> QED
      BY <1>1, <1>4, <2>5, <2>6, <2>7, <2>9, Zenon DEF Survived, h
<1>7. CASE m.type \in Plain
  <2>1. m.type # VideoFrame /\ m.type \notin DOMAIN LayoutOf
      BY <1>2, <1>7
  <2>2. IsPayload(m.body)
      BY <2>1, Zenon DEF IsMessage
  <2>3. m.body \in Seq(Int) /\ HasWidth(Len(m.body), 4)
    <3>1. m.body \in Seq(0..255) /\ HasWidth(Len(m.body), 4)
        BY <2>2, Zenon DEF IsPayload
    <3> QED
        BY <3>1, SeqMonotonic, 0..255 \subseteq Int
  <2>4. m.type # 65 /\ m.type \notin {67, 68}
      BY <1>7 DEF Plain
  <2>5. Payload(m) = m.body /\ Filled(m) = m.body
      BY <2>1, <2>4 DEF Payload, Filled
  <2>6. Parsed(h, Payload(m)) = <<[type |-> h.type, flags |-> h.flags, body |-> Payload(m)]>>
      BY <1>1, <1>7, <2>1 DEF Parsed
  <2> QED
      BY <1>1, <1>4, <2>3, <2>5, <2>6, Zenon DEF Survived, h
<1> QED
    BY <1>5, <1>6, <1>7, Zenon DEF IsMessage

LEMMA FramedBack ==
    ASSUME NEW m, IsMessage(m), NEW rest \in Seq(Int)
    PROVE  /\ Framed(m) \in Seq(Int)
           /\ Len(Framed(m) \o rest) >= Header.size
           /\ Deserialize(Header, Framed(m) \o rest) = HeaderOf(m)
           /\ SubSeq(Framed(m) \o rest, Header.size + 1, Len(Framed(m) \o rest))
                  = Payload(m) \o rest
<1> DEFINE front == Serialize(Header, HeaderOf(m))  p == Payload(m)  all == Framed(m) \o rest
<1>1. WellFormed(Header) /\ Writable(Header, HeaderOf(m)) /\ p \in Seq(Int)
    BY LayoutsAreWellFormed, MessageBack
<1>2. front \in Seq(Int) /\ Len(front) = Header.size
    BY <1>1, SerializePutsInPlace
<1>3. Framed(m) = front \o p
    BY Zenon DEF Framed
<1> HIDE DEF p
<1>4. \A r \in Seq(Int) : Deserialize(Header, front \o r)
                              = [f \in DOMAIN Header.fields |-> HeaderOf(m)[f]]
    BY <1>1, ReadFromFront
<1>5. [f \in DOMAIN Header.fields |-> HeaderOf(m)[f]] = HeaderOf(m)
    BY DEF Header, HeaderOf, Layout, Field
<1> HIDE DEF front
<1>6. p \o rest \in Seq(Int) /\ all = front \o (p \o rest) /\ Framed(m) \in Seq(Int)
  <2>1. p \o rest \in Seq(Int) /\ front \o p \in Seq(Int)
      BY <1>1, <1>2, ConcatParts
  <2>2. (front \o p) \o rest = front \o (p \o rest)
    <3>1. front \in Seq(Int) /\ p \in Seq(Int) /\ rest \in Seq(Int)
        BY <1>1, <1>2, Zenon
    <3> QED
        BY <3>1, Associative, Zenon
  <2> QED
      BY <1>3, <2>1, <2>2
<1> HIDE DEF all
<1>7. /\ Len(all) = Len(front) + Len(p \o rest)
      /\ Len(front) \in Nat /\ Len(p \o rest) \in Nat
      /\ SubSeq(all, Len(front) + 1, Len(all)) = p \o rest
    BY <1>2, <1>6, ConcatParts, Zenon
<1>8. Len(all) >= Header.size
    BY <1>2, <1>7
<1> QED
    BY <1>2, <1>4, <1>5, <1>6, <1>7, <1>8, Zenon DEF all, p

-----------------------------------------------------------------------------
(* The stream: s is what the messages of sc behind the k-th and up to the  *)
(* w-th are on the wire; tails[i] is what those behind the i-th are.       *)
IsTails(sc, w, k, tails) ==
    /\ tails \in [k..w -> Seq(Int)]
    /\ tails[w] = <<>>
    /\ \A i \in k..(w - 1) : tails[i] = Framed(sc[i + 1]) \o tails[i + 1]

Carries(sc, w, k, s) == \E tails : IsTails(sc, w, k, tails) /\ s = tails[k]

LEMMA CarriesNothing ==
    ASSUME NEW sc, NEW w \in Nat
    PROVE  /\ Carries(sc, w, w, <<>>)
           /\ \A s : Carries(sc, w, w, s) => s = <<>>
<1> DEFINE tails == [i \in w..w |-> <<>>]
<1>1. IsTails(sc, w, w, tails) /\ tails[w] = <<>>
  <2>1. <<>> \in Seq(Int)
      OBVIOUS
  <2>2. w..(w - 1) = {} /\ w \in w..w
      OBVIOUS
  <2> QED
      BY <2>1, <2>2 DEF IsTails
<1> HIDE DEF tails
<1> QED
    BY <1>1 DEF Carries, IsTails

(* Another message behind the others.                                      *)
LEMMA CarriesOneMore ==
    ASSUME NEW sc, NEW w \in Nat, NEW k \in 0..w, NEW s, Carries(sc, w, k, s),
           \A i \in 1..(w + 1) : Framed(sc[i]) \in Seq(Int)
    PROVE  Carries(sc, w + 1, k, s \o Framed(sc[w + 1]))
<1> DEFINE f == Framed(sc[w + 1])
<1>1. PICK tails : IsTails(sc, w, k, tails) /\ s = tails[k]
    BY DEF Carries
<1>2. /\ tails \in [k..w -> Seq(Int)] /\ tails[w] = <<>>
      /\ \A i \in k..(w - 1) : tails[i] = Framed(sc[i + 1]) \o tails[i + 1]
    BY <1>1 DEF IsTails
<1>3. f \in Seq(Int)
    OBVIOUS
<1> HIDE DEF f
<1> DEFINE longer == [i \in k..(w + 1) |-> IF i = w + 1 THEN <<>> ELSE tails[i] \o f]
<1>4. \A i \in k..w : i # w + 1 /\ i \in k..(w + 1)
    OBVIOUS
<1>5. \A i \in k..w : longer[i] = tails[i] \o f /\ tails[i] \in Seq(Int)
    BY <1>2, <1>4
<1>6. longer[w + 1] = <<>>
    OBVIOUS
<1>7. longer \in [k..(w + 1) -> Seq(Int)]
  <2>1. ASSUME NEW i \in k..(w + 1)
        PROVE  (IF i = w + 1 THEN <<>> ELSE tails[i] \o f) \in Seq(Int)
    <3>1. CASE i = w + 1
        BY <3>1
    <3>2. CASE i # w + 1
      <4>1. tails[i] \in Seq(Int)
          BY <3>2, <1>2
      <4>2. tails[i] \o f \in Seq(Int)
          BY <4>1, <1>3, ConcatParts
      <4> QED
          BY <3>2, <4>2
    <3> QED
        BY <3>1, <3>2
  <2> QED
      BY <2>1
<1> HIDE DEF longer
<1>8. ASSUME NEW i \in k..((w + 1) - 1)
      PROVE  longer[i] = Framed(sc[i + 1]) \o longer[i + 1]
  <2>1. CASE i = w
    <3>0. w \in k..w
        OBVIOUS
    <3>1. longer[w] = <<>> \o f /\ longer[w + 1] = <<>>
        BY <3>0, <1>2, <1>5, <1>6, Zenon
    <3>2. <<>> \o f = f /\ f \o <<>> = f
        BY <1>3, ConcatEmptySeq
    <3> QED
        BY <2>1, <3>1, <3>2 DEF f
  <2>2. CASE i # w
    <3>1. i \in k..(w - 1) /\ i \in k..w /\ i + 1 \in k..w /\ i + 1 \in 1..(w + 1)
        BY <2>2
    <3> DEFINE a == Framed(sc[i + 1])  b == tails[i + 1]
    <3>2. a \in Seq(Int) /\ b \in Seq(Int)
        BY <3>1, <1>2
    <3>3. tails[i] = a \o b /\ longer[i] = tails[i] \o f /\ longer[i + 1] = b \o f
        BY <3>1, <1>2, <1>5
    <3> HIDE DEF a, b
    <3>4. (a \o b) \o f = a \o (b \o f)
        BY <3>2, <1>3, Associative, Zenon
    <3>5. longer[i] = a \o longer[i + 1]
        BY <3>3, <3>4, Zenon
    <3> QED
        BY <3>5 DEF a
  <2> QED
      BY <2>1, <2>2
<1>9. IsTails(sc, w + 1, k, longer)
    BY <1>6, <1>7, <1>8 DEF IsTails
<1>10. s \o f = longer[k]
    BY <1>1, <1>5
<1> QED
    BY <1>9, <1>10 DEF Carries, f

(* The first message in front of the others.                               *)
LEMMA CarriesFirst ==
    ASSUME NEW sc, NEW w \in Nat, NEW k \in 0..w, k # w, NEW s, Carries(sc, w, k, s)
    PROVE  \E rest \in Seq(Int) :
              s = Framed(sc[k + 1]) \o rest /\ Carries(sc, w, k + 1, rest)
<1>1. PICK tails : IsTails(sc, w, k, tails) /\ s = tails[k]
    BY DEF Carries
<1>2. /\ tails \in [k..w -> Seq(Int)] /\ tails[w] = <<>>
      /\ \A i \in k..(w - 1) : tails[i] = Framed(sc[i + 1]) \o tails[i + 1]
    BY <1>1 DEF IsTails
<1>3. /\ k \in k..(w - 1) /\ k + 1 \in k..w /\ w \in (k + 1)..w
      /\ \A i \in (k + 1)..w : i \in k..w
      /\ \A i \in (k + 1)..(w - 1) : i \in k..(w - 1) /\ i \in (k + 1)..w /\ i + 1 \in (k + 1)..w
    OBVIOUS
<1> DEFINE rest == tails[k + 1]  shorter == [i \in (k + 1)..w |-> tails[i]]
<1>4. rest \in Seq(Int) /\ s = Framed(sc[k + 1]) \o rest
    BY <1>1, <1>2, <1>3
<1>5. \A i \in (k + 1)..w : shorter[i] = tails[i]
    OBVIOUS
<1>6. shorter \in [(k + 1)..w -> Seq(Int)]
    BY <1>2, <1>3
<1> HIDE DEF shorter, rest
<1>7. \A i \in (k + 1)..(w - 1) : shorter[i] = Framed(sc[i + 1]) \o shorter[i + 1]
    BY <1>2, <1>3, <1>5
<1>8. shorter[w] = <<>> /\ shorter[k + 1] = rest
    BY <1>2, <1>3, <1>5 DEF rest
<1>9. IsTails(sc, w, k + 1, shorter)
    BY <1>6, <1>7, <1>8 DEF IsTails
<1>10. Carries(sc, w, k + 1, rest)
    BY <1>8, <1>9, Zenon DEF Carries
<1> QED
    BY <1>4, <1>10, Zenon

(* What the receiver has is what the sender wrote first; what is between   *)
(* them is the rest, the first payload without its header once that was    *)
(* read.                                                                   *)
StreamInv ==
    /\ script \in Scripts /\ written \in 0..Len(script)
    /\ \E k \in 0..written :
          /\ taken = [i \in 1..k |-> Survived(script[i])]
          /\ \/ head = NoHeader /\ Carries(script, written, k, stream)
             \/ /\ k # written /\ head = HeaderOf(script[k + 1])
                /\ \E rest \in Seq(Int) : /\ stream = Payload(script[k + 1]) \o rest
                                          /\ Carries(script, written, k + 1, rest)

LEMMA ScriptsAreMessages ==
    ASSUME NEW s \in Scripts
    PROVE  /\ Len(s) \in Nat
           /\ \A i \in 1..Len(s) : IsMessage(s[i]) /\ Framed(s[i]) \in Seq(Int)
<1> DEFINE S == {s[i] : i \in DOMAIN s}
<1>1. s \in Seq(S) /\ \A i \in DOMAIN s : IsMessage(s[i])
    BY ScriptAssumption
<1> HIDE DEF S
<1>2. Len(s) \in Nat /\ DOMAIN s = 1..Len(s)
    BY <1>1, LenProperties
<1>3. <<>> \in Seq(Int)
    OBVIOUS
<1>4. \A i \in 1..Len(s) : Framed(s[i]) \in Seq(Int)
    BY <1>1, <1>2, <1>3, FramedBack
<1> QED
    BY <1>1, <1>2, <1>4

LEMMA StreamInvInit == StreamInit => StreamInv
<1> SUFFICES ASSUME StreamInit PROVE StreamInv
    OBVIOUS
<1>1. /\ script \in Scripts /\ written = 0 /\ stream = <<>> /\ head = NoHeader /\ taken = <<>>
    BY DEF StreamInit
<1>2. written \in 0..Len(script) /\ 0 \in 0..written
    BY <1>1, ScriptsAreMessages
<1>3. Carries(script, written, 0, stream)
    BY <1>1, CarriesNothing
<1>4. taken = [i \in 1..0 |-> Survived(script[i])]
    BY <1>1
<1> QED
    BY <1>1, <1>2, <1>3, <1>4, Zenon DEF StreamInv

LEMMA StreamInvWrite == StreamInv /\ Write => StreamInv'
<1> SUFFICES ASSUME StreamInv, Write PROVE StreamInv'
    OBVIOUS
<1> DEFINE f == Framed(script[written + 1])
<1>1. /\ script \in Scripts /\ written \in 0..Len(script) /\ written < Len(script)
      /\ written' = written + 1 /\ stream' = stream \o f
      /\ script' = script /\ head' = head /\ taken' = taken
    BY DEF StreamInv, Write
<1>2. /\ Len(script) \in Nat /\ written \in Nat
      /\ \A i \in 1..Len(script) : IsMessage(script[i]) /\ Framed(script[i]) \in Seq(Int)
    BY <1>1, ScriptsAreMessages
<1>3. \A i \in 1..(written + 1) : Framed(script[i]) \in Seq(Int)
    BY <1>1, <1>2
<1>4. script' \in Scripts /\ written' \in 0..Len(script')
    BY <1>1, <1>2
<1>5. PICK k \in 0..written :
         /\ taken = [i \in 1..k |-> Survived(script[i])]
         /\ \/ head = NoHeader /\ Carries(script, written, k, stream)
            \/ /\ k # written /\ head = HeaderOf(script[k + 1])
               /\ \E rest \in Seq(Int) : /\ stream = Payload(script[k + 1]) \o rest
                                         /\ Carries(script, written, k + 1, rest)
    BY DEF StreamInv
<1>6. k \in 0..written' /\ taken' = [i \in 1..k |-> Survived(script'[i])]
    BY <1>1, <1>2, <1>5
<1>7. CASE head = NoHeader /\ Carries(script, written, k, stream)
  <2>1. Carries(script, written + 1, k, stream \o f)
      BY <1>2, <1>3, <1>7, CarriesOneMore
  <2>2. head' = NoHeader /\ Carries(script', written', k, stream')
      BY <1>1, <1>7, <2>1
  <2> QED
      BY <1>4, <1>6, <2>2, Zenon DEF StreamInv
<1>8. CASE /\ k # written /\ head = HeaderOf(script[k + 1])
           /\ \E rest \in Seq(Int) : /\ stream = Payload(script[k + 1]) \o rest
                                     /\ Carries(script, written, k + 1, rest)
  <2>1. PICK rest \in Seq(Int) : /\ stream = Payload(script[k + 1]) \o rest
                                 /\ Carries(script, written, k + 1, rest)
      BY <1>8
  <2>2. k + 1 \in 0..written /\ k + 1 \in 1..Len(script) /\ k # written + 1
      BY <1>1, <1>2, <1>8
  <2>3. Carries(script, written + 1, k + 1, rest \o f)
      BY <1>2, <1>3, <2>1, <2>2, CarriesOneMore
  <2> DEFINE p == Payload(script[k + 1])
  <2>4. p \in Seq(Int) /\ f \in Seq(Int)
      BY <1>1, <1>2, <2>2, MessageBack
  <2> HIDE DEF p, f
  <2>5. rest \o f \in Seq(Int)
      BY <2>4, ConcatParts
  <2>6. (p \o rest) \o f = p \o (rest \o f)
      BY <2>4, Associative, Zenon
  <2>7. stream' = Payload(script'[k + 1]) \o (rest \o f)
      BY <1>1, <2>1, <2>6, Zenon DEF p
  <2>8. Carries(script', written', k + 1, rest \o f) /\ k # written' /\ head' = HeaderOf(script'[k + 1])
      BY <1>1, <1>8, <2>2, <2>3
  <2> QED
      BY <1>4, <1>6, <2>5, <2>7, <2>8, Zenon DEF StreamInv
<1> QED
    BY <1>5, <1>7, <1>8, Zenon

LEMMA StreamInvTakeHeader == StreamInv /\ TakeHeader => StreamInv'
<1> SUFFICES ASSUME StreamInv, TakeHeader PROVE StreamInv'
    OBVIOUS
<1>1. /\ script \in Scripts /\ written \in 0..Len(script)
      /\ head = NoHeader /\ Len(stream) >= Header.size
      /\ head' = Deserialize(Header, stream)
      /\ stream' = SubSeq(stream, Header.size + 1, Len(stream))
      /\ script' = script /\ written' = written /\ taken' = taken
    BY DEF StreamInv, TakeHeader, Behind
<1>2. /\ Len(script) \in Nat /\ written \in Nat
      /\ \A i \in 1..Len(script) : IsMessage(script[i])
    BY <1>1, ScriptsAreMessages
<1>3. PICK k \in 0..written :
         /\ taken = [i \in 1..k |-> Survived(script[i])]
         /\ \/ head = NoHeader /\ Carries(script, written, k, stream)
            \/ k # written /\ head = HeaderOf(script[k + 1])
    BY DEF StreamInv
<1>4. ASSUME k # written
      PROVE  IsMessage(script[k + 1])
    BY <1>1, <1>2, <1>4
<1>5. Carries(script, written, k, stream)
    BY <1>1, <1>3, <1>4, MessageBack
<1>6. k # written
  <2>1. SUFFICES ASSUME k = written PROVE FALSE
      OBVIOUS
  <2>2. stream = <<>>
      BY <1>2, <1>5, <2>1, CarriesNothing
  <2>3. Header.size = 6
      BY DEF Header, Layout
  <2> QED
      BY <1>1, <2>2, <2>3
<1>7. PICK rest \in Seq(Int) : /\ stream = Framed(script[k + 1]) \o rest
                               /\ Carries(script, written, k + 1, rest)
    BY <1>2, <1>5, <1>6, CarriesFirst
<1>8. head' = HeaderOf(script[k + 1]) /\ stream' = Payload(script[k + 1]) \o rest
    BY <1>1, <1>4, <1>6, <1>7, FramedBack
<1> QED
    BY <1>1, <1>3, <1>6, <1>7, <1>8, Zenon DEF StreamInv

LEMMA StreamInvTakePayload == StreamInv /\ TakePayload => StreamInv'
<1> SUFFICES ASSUME StreamInv, TakePayload PROVE StreamInv'
    OBVIOUS
<1>1. /\ script \in Scripts /\ written \in 0..Len(script) /\ head # NoHeader
      /\ taken' = taken \o Parsed(head, SubSeq(stream, 1, head.length))
      /\ stream' = SubSeq(stream, head.length + 1, Len(stream))
      /\ head' = NoHeader /\ script' = script /\ written' = written
    BY DEF StreamInv, TakePayload, Behind
<1>2. /\ Len(script) \in Nat /\ written \in Nat
      /\ \A i \in 1..Len(script) : IsMessage(script[i])
    BY <1>1, ScriptsAreMessages
<1>3. PICK k \in 0..written :
         /\ taken = [i \in 1..k |-> Survived(script[i])]
         /\ k # written /\ head = HeaderOf(script[k + 1])
         /\ \E rest \in Seq(Int) : /\ stream = Payload(script[k + 1]) \o rest
                                   /\ Carries(script, written, k + 1, rest)
    BY <1>1 DEF StreamInv
<1>4. PICK rest \in Seq(Int) : /\ stream = Payload(script[k + 1]) \o rest
                               /\ Carries(script, written, k + 1, rest)
    BY <1>3
<1> DEFINE m == script[k + 1]  p == Payload(m)
<1>5. k \in Nat /\ k + 1 \in 0..written /\ IsMessage(m)
  <2>1. k # written /\ written \in 0..Len(script)
      BY <1>1, <1>3, Zenon
  <2>2. k \in Nat /\ k + 1 \in 0..written /\ k + 1 \in 1..Len(script)
      BY <1>2, <2>1
  <2> QED
      BY <1>2, <2>2, Zenon
<1>6. /\ p \in Seq(Int) /\ head.length = Len(p)
      /\ Parsed(head, p) = <<Survived(m)>>
    BY <1>3, <1>5, MessageBack
<1>7. stream = p \o rest
    BY <1>4
<1> HIDE DEF p
<1>8. SubSeq(stream, 1, Len(p)) = p /\ SubSeq(stream, Len(p) + 1, Len(stream)) = rest
    BY <1>6, <1>7, ConcatParts
<1>9. taken' = taken \o <<Survived(m)>> /\ stream' = rest
    BY <1>1, <1>6, <1>8, Zenon
<1>10. taken' = [i \in 1..(k + 1) |-> Survived(script'[i])]
  <2> DEFINE all(i) == Survived(script[i])
  <2>1. taken = [i \in 1..k |-> all(i)] /\ taken' = taken \o <<all(k + 1)>>
      BY <1>3, <1>9
  <2> HIDE DEF all
  <2>2. [i \in 1..k |-> all(i)] \o <<all(k + 1)>> = [i \in 1..(k + 1) |-> all(i)]
      BY <1>5
  <2> QED
      BY <1>1, <2>1, <2>2 DEF all
<1> QED
    BY <1>1, <1>4, <1>5, <1>9, <1>10, Zenon DEF StreamInv

LEMMA StreamInvNext == StreamInv /\ [StreamNext]_streamVars => StreamInv'
<1> SUFFICES ASSUME StreamInv, [StreamNext]_streamVars PROVE StreamInv'
    OBVIOUS
<1>1. CASE Write
    BY <1>1, StreamInvWrite
<1>2. CASE TakeHeader
    BY <1>2, StreamInvTakeHeader
<1>3. CASE TakePayload
    BY <1>3, StreamInvTakePayload
<1>4. CASE UNCHANGED streamVars
    BY <1>4 DEF StreamInv, streamVars
<1> QED
    BY <1>1, <1>2, <1>3, <1>4 DEF StreamNext

LEMMA StreamInvImplies == StreamInv => MessagesSurvive
<1> SUFFICES ASSUME StreamInv PROVE MessagesSurvive
    OBVIOUS
<1>1. script \in Scripts /\ written \in 0..Len(script)
    BY DEF StreamInv
<1>2. /\ Len(script) \in Nat /\ written \in Nat
      /\ \A i \in 1..Len(script) : IsMessage(script[i])
    BY <1>1, ScriptsAreMessages
<1>3. PICK k \in 0..written :
         /\ taken = [i \in 1..k |-> Survived(script[i])]
         /\ \/ head = NoHeader /\ Carries(script, written, k, stream)
            \/ k # written /\ head = HeaderOf(script[k + 1])
    BY DEF StreamInv
<1>4. Len(taken) = k /\ k \in Nat
    BY <1>2, <1>3
<1>5. \A i \in 1..k : taken[i] = Survived(script[i])
    BY <1>3
<1>6. ASSUME stream = <<>>, head = NoHeader, k # written
      PROVE  FALSE
  <2>1. IsMessage(script[k + 1])
      BY <1>1, <1>2, <1>6
  <2>2. Carries(script, written, k, stream)
      BY <1>3, <1>6, <2>1, MessageBack
  <2>3. PICK rest \in Seq(Int) : /\ stream = Framed(script[k + 1]) \o rest
                                 /\ Carries(script, written, k + 1, rest)
    <3>1. k # written /\ written \in Nat
        BY <1>2, <1>6
    <3> QED
        BY <3>1, <2>2, CarriesFirst
  <2>4. Len(stream) >= Header.size
      BY <2>1, <2>3, FramedBack
  <2>5. Header.size = 6
      BY DEF Header, Layout
  <2> QED
      BY <1>6, <2>4, <2>5
<1> QED
    BY <1>2, <1>4, <1>5, <1>6 DEF MessagesSurvive, Survived

(* Whatever one end writes, in whatever pieces the other end finds it,     *)
(* comes out of the loops of native_bridge.cpp and pipeline.cpp complete,  *)
(* in order and with every field as it was sent.                           *)
THEOREM MessagesSurviveAlways == StreamSpec => []MessagesSurvive
<1>1. StreamInit => StreamInv
    BY StreamInvInit
<1>2. StreamInv /\ [StreamNext]_streamVars => StreamInv'
    BY StreamInvNext
<1>3. StreamInv => MessagesSurvive
    BY StreamInvImplies
<1> QED
    BY <1>1, <1>2, <1>3, PTL DEF StreamSpec

=============================================================================
