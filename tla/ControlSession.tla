--------------------------- MODULE ControlSession ---------------------------
(***************************************************************************)
(* Everything but video decoding on the one TCP connection: the handshake, *)
(* pings, the reports of volume and media state, the input and the deck    *)
(* requests of the tablet.  Five desktop threads write, two sends for a    *)
(* header and its payload, serialised by write_mutex_.  A deck request or  *)
(* a volume change is answered on the receive thread itself, which needs   *)
(* that mutex, while its holder may be blocked on a full socket.           *)
(***************************************************************************)
EXTENDS Naturals, Sequences

CONSTANTS
  MaxDown,    \* bound: parts of messages the socket to the tablet holds
  MaxUp       \* bound: messages the socket to the desktop holds

ASSUME ControlAssumption == MaxDown \in Nat \ {0} /\ MaxUp \in Nat \ {0}

(* send_thread_, ping_thread_, recv_thread_, any thread of the volume and  *)
(* media controllers, and the thread that starts and stops the pipeline.   *)
Writers == {"send", "ping", "recv", "reporter", "owner"}

VARIABLES
  running,      \* running_ of the pipeline
  open,         \* the connection
  write_mutex,  \* who holds write_mutex_
  pc,           \* where each writer is
  writing,      \* the message it writes
  toTablet,     \* the stream to the tablet: headers and payloads
  toDesktop,    \* the messages to the desktop
  tablet,       \* the receive thread of the tablet
  header        \* the message whose header it has read

channelVars == <<toTablet, toDesktop>>
tabletVars  == <<tablet, header>>
writerVars  == <<write_mutex, pc, writing>>
sessionVars == <<running, open, writerVars, channelVars, tabletVars>>

Nothing == "nothing"
Downward == {"request", "deck", "video", "ping", "state"}
Upward == {"response", "body", "pong", "event", "change"}
HasPayload(message) == message # "ping"
Part(part, message) == [part |-> part, message |-> message]
Parts == [part : {"header", "payload"}, message : Downward]

SessionTypeOK ==
  /\ running \in BOOLEAN /\ open \in BOOLEAN
  /\ write_mutex \in Writers \cup {"free"}
  /\ pc \in [Writers -> {"none", "header", "payload", "answer", "body", "failed",
                        "lock", "ready", "reading", "exited", "join", "stopped"}]
  /\ writing \in [Writers -> Downward \cup {Nothing}]
  /\ toTablet \in Seq(Parts)
  /\ toDesktop \in Seq(Upward)
  /\ tablet \in {"greet", "read", "respond", "body", "pong"}
  /\ header \in Downward \cup {Nothing}

(* The tablet has accepted the connection: its UI may write from now on.   *)
SessionInit ==
  /\ running = FALSE /\ open = TRUE
  /\ write_mutex = "free"
  /\ pc = [w \in Writers |-> IF w = "owner" THEN "header" ELSE "none"]
  /\ writing = [w \in Writers |-> IF w = "owner" THEN "request" ELSE Nothing]
  /\ toTablet = <<>> /\ toDesktop = <<>>
  /\ tablet = "greet" /\ header = Nothing
-----------------------------------------------------------------------------
(* Writing a message, by any thread: lock, header, payload, unlock.  The   *)
(* owner writes the handshake request before there are other threads,      *)
(* without the lock.                                                       *)

Begin(w, message, from) ==
  /\ pc[w] = from
  /\ pc' = [pc EXCEPT ![w] = "lock"]
  /\ writing' = [writing EXCEPT ![w] = message]

(* Mutant: states are written without the lock. *)
LocksVideoOnly(w) ==
  /\ pc[w] = "lock"
  /\ \/ writing[w] # "video" /\ UNCHANGED write_mutex
     \/ write_mutex = "free" /\ write_mutex' = w
  /\ pc' = [pc EXCEPT ![w] = "header"]
  /\ UNCHANGED <<running, open, writing, channelVars, tabletVars>>

Locks(w) ==
  /\ pc[w] = "lock"
  /\ write_mutex = "free"
  /\ write_mutex' = w
  /\ pc' = [pc EXCEPT ![w] = "header"]
  /\ UNCHANGED <<running, open, writing, channelVars, tabletVars>>

Unlocks(w) == write_mutex' = IF write_mutex = w THEN "free" ELSE write_mutex

(* Back to what the thread does, with nothing to write. *)
Returns(w, to) ==
  /\ Unlocks(w)
  /\ pc' = [pc EXCEPT ![w] = to]
  /\ writing' = [writing EXCEPT ![w] = Nothing]

Wrote(w) == IF writing[w] = "request" THEN "answer" ELSE "ready"

(* send_message: the second send only if there is a payload.               *)
Sends(w) ==
  /\ pc[w] \in {"header", "payload"}
  /\ open
  /\ Len(toTablet) < MaxDown
  /\ toTablet' = Append(toTablet, Part(pc[w], writing[w]))
  /\ IF pc[w] = "header" /\ HasPayload(writing[w])
     THEN pc' = [pc EXCEPT ![w] = "payload"] /\ UNCHANGED <<write_mutex, writing>>
     ELSE Returns(w, Wrote(w))
  /\ UNCHANGED <<running, open, toDesktop, tabletVars>>

(* A send on a closed connection fails: video and pings give up the        *)
(* session, reports are only logged.                                       *)
SendFails(w) ==
  /\ pc[w] \in {"header", "payload"}
  /\ ~open
  /\ running' = (running /\ w \notin {"send", "ping"})
  /\ Returns(w, CASE w \in {"send", "ping"} -> "exited"
                  [] writing[w] = "request" -> "failed"
                  [] OTHER -> "ready")
  /\ UNCHANGED <<open, channelVars, tabletVars>>
-----------------------------------------------------------------------------
(* The owner: start(), the first deck configuration, stop().               *)

(* The header of the answer must be the first thing to arrive, its body    *)
(* the second: the tablet writes them one after the other.  After it the   *)
(* version, the encoder or the capturer may still fail.                    *)
HandshakeEnds ==
  /\ pc["owner"] \in {"answer", "body"}
  /\ \/ /\ toDesktop # <<>>
        /\ toDesktop' = Tail(toDesktop)
        /\ \/ /\ pc["owner"] = "answer" /\ Head(toDesktop) = "response"
              /\ pc' = [pc EXCEPT !["owner"] = "body"]
              /\ UNCHANGED <<running, writing>>
           \/ /\ pc["owner"] = "body" /\ Head(toDesktop) = "body"
              /\ running' = TRUE
              /\ pc' = [w \in Writers |-> IF w = "owner" THEN "lock" ELSE "ready"]
              /\ writing' = [writing EXCEPT !["owner"] = "deck"]
           \/ /\ <<pc["owner"], Head(toDesktop)>> # <<"answer", "response">>
              /\ pc' = [pc EXCEPT !["owner"] = "failed"]
              /\ UNCHANGED <<running, writing>>
     \/ /\ toDesktop = <<>> /\ ~open
        /\ pc' = [pc EXCEPT !["owner"] = "failed"]
        /\ UNCHANGED <<running, writing, toDesktop>>
  /\ UNCHANGED <<open, write_mutex, toTablet, tabletVars>>

(* start() returned false: the client is destroyed. *)
StartFails ==
  /\ pc["owner"] = "failed"
  /\ open' = FALSE
  /\ toTablet' = <<>> /\ toDesktop' = <<>>
  /\ pc' = [pc EXCEPT !["owner"] = "stopped"]
  /\ UNCHANGED <<running, write_mutex, writing, tabletVars>>

(* Mutant: stop() joins without closing the socket. *)
StopLeavesSocket ==
  /\ pc["owner"] = "ready"
  /\ running' = FALSE
  /\ pc' = [pc EXCEPT !["owner"] = "join"]
  /\ UNCHANGED <<open, write_mutex, writing, channelVars, tabletVars>>

Stop ==
  /\ pc["owner"] = "ready"
  /\ running' = FALSE /\ open' = FALSE
  /\ toTablet' = <<>> /\ toDesktop' = <<>>
  /\ pc' = [pc EXCEPT !["owner"] = "join"]
  /\ UNCHANGED <<write_mutex, writing, tabletVars>>

Joins ==
  /\ pc["owner"] = "join"
  /\ \A w \in {"send", "ping", "recv"} : pc[w] = "exited"
  /\ pc' = [pc EXCEPT !["owner"] = "stopped"]
  /\ UNCHANGED <<running, open, write_mutex, writing, channelVars, tabletVars>>
-----------------------------------------------------------------------------
(* The other threads of the desktop. *)

SendsVideo == running /\ Begin("send", "video", "ready")
Pings == running /\ Begin("ping", "ping", "ready")

(* OnNotify, the poll thread of the media controller, a refresh burst, a   *)
(* first push: as long as g_app has a pipeline.                            *)
Reports ==
  /\ pc["owner"] # "stopped"
  /\ Begin("reporter", "state", "ready")

Initiates ==
  /\ SendsVideo \/ Pings \/ Reports
  /\ UNCHANGED <<running, open, write_mutex, channelVars, tabletVars>>

Exits(w) ==
  /\ pc[w] = "ready" /\ ~running
  /\ pc' = [pc EXCEPT ![w] = "exited"]
  /\ UNCHANGED <<running, open, write_mutex, writing, channelVars, tabletVars>>

(* set_volume pushes the state it has set, unless that fails, and a media  *)
(* key reports before its burst: both before the next message is read.     *)
Reacts(message) ==
  \/ message = "change" /\ Begin("recv", "state", "reading")
  \/ pc' = [pc EXCEPT !["recv"] = "ready"] /\ UNCHANGED writing

(* recv_loop looks at running_ before it waits for a message. *)
Listens ==
  /\ pc["recv"] = "ready" /\ running
  /\ pc' = [pc EXCEPT !["recv"] = "reading"]
  /\ UNCHANGED <<running, open, write_mutex, writing, channelVars, tabletVars>>

(* Mutant: the volume is set under write_mutex_. *)
ReceivesLocked ==
  /\ pc["recv"] = "reading" /\ toDesktop # <<>>
  /\ toDesktop' = Tail(toDesktop)
  /\ Reacts(Head(toDesktop))
  /\ IF pc["recv"]' = "lock" THEN write_mutex = "free" /\ write_mutex' = "recv"
                             ELSE UNCHANGED write_mutex
  /\ UNCHANGED <<running, open, toTablet, tabletVars>>

Receives ==
  /\ pc["recv"] = "reading" /\ toDesktop # <<>>
  /\ toDesktop' = Tail(toDesktop)
  /\ Reacts(Head(toDesktop))
  /\ UNCHANGED <<running, open, write_mutex, toTablet, tabletVars>>

ReceiveFails ==
  /\ pc["recv"] = "reading" /\ toDesktop = <<>> /\ ~open
  /\ running' = FALSE
  /\ pc' = [pc EXCEPT !["recv"] = "exited"]
  /\ UNCHANGED <<open, write_mutex, writing, channelVars, tabletVars>>
-----------------------------------------------------------------------------
(* The tablet. *)

(* The receive thread: a header, a payload, and the reaction.              *)
TabletReads ==
  /\ tablet \in {"greet", "read"} /\ toTablet # <<>>
  /\ toTablet' = Tail(toTablet)
  /\ LET part == Head(toTablet)
     IN  /\ header' = IF part.part = "header" /\ HasPayload(part.message)
                      THEN part.message ELSE Nothing
         /\ tablet' = CASE part.message = "ping" -> "pong"
                        [] part.message = "request" /\ part.part = "payload" -> "respond"
                        [] OTHER -> tablet
  /\ UNCHANGED <<running, open, toDesktop, writerVars>>

TabletWrites(from, message, to) ==
  /\ tablet = from
  /\ \/ /\ open /\ Len(toDesktop) < MaxUp
        /\ toDesktop' = Append(toDesktop, message) /\ tablet' = to
     \/ ~open /\ UNCHANGED toDesktop /\ tablet' = "read"
  /\ UNCHANGED <<running, open, toTablet, header, writerVars>>

TabletAnswers ==
  \/ TabletWrites("respond", "response", "body")
  \/ TabletWrites("body", "body", "read")
  \/ TabletWrites("pong", "pong", "read")

(* Java_..._nativeSend*: as soon as there is a descriptor.                 *)
UserActs ==
  /\ open /\ Len(toDesktop) < MaxUp
  /\ \E message \in {"event", "change"} : toDesktop' = Append(toDesktop, message)
  /\ UNCHANGED <<running, open, toTablet, tabletVars, writerVars>>

(* The cable is pulled or the application dies. *)
ConnectionDies ==
  /\ open
  /\ open' = FALSE
  /\ toTablet' = <<>>
  /\ UNCHANGED <<running, toDesktop, tabletVars, writerVars>>

DesktopThread(w) == Sends(w) \/ SendFails(w) \/ (w \in {"send", "ping", "recv"} /\ Exits(w))
Owner == HandshakeEnds \/ StartFails \/ Joins
Recv == Listens \/ Receives \/ ReceiveFails

SessionNext ==
  \/ \E w \in Writers : Locks(w) \/ DesktopThread(w)
  \/ Owner \/ Stop \/ Recv \/ Initiates
  \/ TabletReads \/ TabletAnswers \/ UserActs \/ ConnectionDies

(* Threads are scheduled and the mutex is not withheld from one of them    *)
(* for ever.  Nothing makes the user or the reporters act.                 *)
Fairness ==
  /\ \A w \in Writers :
       SF_sessionVars(Locks(w)) /\ WF_sessionVars(DesktopThread(w))
  /\ WF_sessionVars(Owner) /\ WF_sessionVars(Recv)
  /\ WF_sessionVars(TabletReads) /\ WF_sessionVars(TabletAnswers)

SessionSpec == SessionInit /\ [][SessionNext]_sessionVars /\ Fairness
-----------------------------------------------------------------------------
(* pipeline.h:117: write_mutex_ "prevents interleaved header+payload from  *)
(* different threads".  Whatever the tablet has yet to read is a sequence  *)
(* of messages, each payload right after its own header.                   *)
Stream ==
  (IF header = Nothing THEN <<>> ELSE <<Part("header", header)>>) \o toTablet

FramesIntact ==
  \A i \in DOMAIN Stream :
    IF Stream[i].part = "payload"
    THEN i > 1 /\ Stream[i - 1] = Part("header", Stream[i].message)
    ELSE HasPayload(Stream[i].message) /\ i < Len(Stream) =>
           Stream[i + 1] = Part("payload", Stream[i].message)

(* stop() returns, whatever blocks the threads it joins: closing the       *)
(* socket frees the one that waits for room, then those that wait for it.  *)
StopUnblocks == (pc["owner"] = "join") ~> (pc["owner"] = "stopped")

(* The receive thread waits for ever for write_mutex_ only while both      *)
(* directions of the socket are full: the holder waits for the tablet, the *)
(* tablet's answer to a ping waits for the receive thread.                 *)
Wedged ==
  /\ pc["recv"] = "lock" /\ write_mutex \notin {"free", "recv"}
  /\ open /\ Len(toTablet) = MaxDown
  /\ tablet = "pong" /\ Len(toDesktop) = MaxUp

AnswersUnlessWedged == <>[](pc["recv"] = "lock") => <>[]Wedged
=============================================================================
