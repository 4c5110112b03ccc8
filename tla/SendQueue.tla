----------------------------- MODULE SendQueue -----------------------------
(***************************************************************************)
(* Stages 3 and 4 of the desktop pipeline: the encoder callbacks push      *)
(* encoded packets into send_queue_ and the send thread writes them to the *)
(* socket.  Both sides wait on the one condition variable send_cv_ and     *)
(* wake each other with notify_one, so a notification may reach the wrong  *)
(* side; the pipeline may be declared stopped by threads that notify       *)
(* nobody, and its owner then calls stop().                                *)
(*                                                                         *)
(* Every action is one critical section of send_mutex_ or one atomic       *)
(* access to running_.                                                     *)
(***************************************************************************)
EXTENDS Naturals, Sequences, FiniteSets, Functions

CONSTANTS Producers,    \* the threads that run the encoder's output callback
          Sender,       \* the send thread
          Capacity,     \* kMaxSendQueueSize
          MaxPackets    \* bound: packets the encoder emits in one behaviour

ASSUME SendQueueAssumption ==
  /\ IsFiniteSet(Producers)
  /\ Sender \notin Producers
  /\ Capacity \in Nat \ {0}
  /\ Cardinality(Producers) <= Capacity
  /\ MaxPackets \in Nat

VARIABLES
  running,       \* running_
  next_video_sequence,
  send_queue,    \* sequence numbers of the queued packets, oldest first
  waitSet,       \* the threads blocked in send_cv_.wait
  prodPc,        \* where each encoder callback is
  held,          \* the packet each encoder callback carries
  senderPc,      \* where the send thread is
  writing,       \* the packet the send thread carries: a sequence, at most one
  sent,          \* history: the packets written to the socket, oldest first
  connected,     \* the socket is open on this side
  markPc,        \* the thread inside mark_failed
  ownerPc        \* the application thread inside Pipeline::stop

queueVars  == <<send_queue, waitSet>>
prodVars   == <<next_video_sequence, prodPc, held>>
senderVars == <<senderPc, writing, sent>>
stopVars   == <<connected, markPc, ownerPc>>
vars == <<running, queueVars, prodVars, senderVars, stopVars>>

Threads == Producers \cup {Sender}

(* A packet is known by its sequence number; 0 is no packet. *)
Packet == 1 .. MaxPackets

TypeOK ==
  /\ running \in BOOLEAN
  /\ next_video_sequence \in 1 .. MaxPackets + 1
  /\ send_queue \in Seq(Packet)
  /\ waitSet \in SUBSET Threads
  /\ prodPc \in [Producers -> {"idle", "push"}]
  /\ held \in [Producers -> Packet \cup {0}]
  /\ senderPc \in {"check", "pop", "write", "done"}
  /\ writing \in {<<>>} \cup {<<n>> : n \in Packet}
  /\ writing # <<>> <=> senderPc = "write"
  /\ sent \in Seq(Packet)
  /\ connected \in BOOLEAN
  /\ markPc \in {"idle", "notify"}
  /\ ownerPc \in {"idle", "notify", "close", "join", "done"}

Init ==
  /\ running = TRUE
  /\ next_video_sequence = 1
  /\ send_queue = <<>>
  /\ waitSet = {}
  /\ prodPc = [p \in Producers |-> "idle"]
  /\ held = [p \in Producers |-> 0]
  /\ senderPc = "check"
  /\ writing = <<>>
  /\ sent = <<>>
  /\ connected = TRUE
  /\ markPc = "idle"
  /\ ownerPc = "idle"
-----------------------------------------------------------------------------
(* The condition variable. *)

Awake(t) == t \notin waitSet

Wait(t) == waitSet' = waitSet \cup {t}

(* Mutant: a notification is left out. *)
NotifyNobody == UNCHANGED waitSet

NotifyOne ==
  \/ waitSet = {} /\ UNCHANGED waitSet
  \/ \E t \in waitSet : waitSet' = waitSet \ {t}

NotifyAll == waitSet' = {}

(* wait() may return without a notification. *)
SpuriousWakeup(t) ==
  /\ t \in waitSet
  /\ waitSet' = waitSet \ {t}
  /\ UNCHANGED <<running, send_queue, prodVars, senderVars, stopVars>>
-----------------------------------------------------------------------------
(* The encoder callback, on_packet. *)

(* Mutant: off by one. *)
OverFull == Len(send_queue) > Capacity

Full == Len(send_queue) >= Capacity

(* The packet gets its sequence number before the lock is taken. *)
Emit(p) ==
  /\ prodPc[p] = "idle"
  /\ ownerPc # "done"
  /\ next_video_sequence <= MaxPackets
  /\ held' = [held EXCEPT ![p] = next_video_sequence]
  /\ next_video_sequence' = next_video_sequence + 1
  /\ prodPc' = [prodPc EXCEPT ![p] = "push"]
  /\ UNCHANGED <<running, queueVars, senderVars, stopVars>>

PushReturns(p) ==
  /\ prodPc' = [prodPc EXCEPT ![p] = "idle"]
  /\ held' = [held EXCEPT ![p] = 0]
  /\ UNCHANGED next_video_sequence

PushBlocks(p) ==
  /\ prodPc[p] = "push" /\ Awake(p)
  /\ running /\ Full
  /\ Wait(p)
  /\ UNCHANGED <<running, send_queue, prodVars, senderVars, stopVars>>

PushDropped(p) ==
  /\ prodPc[p] = "push" /\ Awake(p)
  /\ ~running
  /\ PushReturns(p)
  /\ UNCHANGED <<running, queueVars, senderVars, stopVars>>

PushQueued(p) ==
  /\ prodPc[p] = "push" /\ Awake(p)
  /\ running /\ ~Full
  /\ send_queue' = Append(send_queue, held[p])
  /\ NotifyOne
  /\ PushReturns(p)
  /\ UNCHANGED <<running, senderVars, stopVars>>
-----------------------------------------------------------------------------
(* The send thread, send_loop. *)

SendLoopTest ==
  /\ senderPc = "check"
  /\ senderPc' = IF running THEN "pop" ELSE "done"
  /\ UNCHANGED <<running, queueVars, prodVars, writing, sent, stopVars>>

PopBlocks ==
  /\ senderPc = "pop" /\ Awake(Sender)
  /\ running /\ send_queue = <<>>
  /\ Wait(Sender)
  /\ UNCHANGED <<running, send_queue, prodVars, senderVars, stopVars>>

PopLeaves ==
  /\ senderPc = "pop" /\ Awake(Sender)
  /\ ~running /\ send_queue = <<>>
  /\ senderPc' = "done"
  /\ UNCHANGED <<running, queueVars, prodVars, writing, sent, stopVars>>

(* A packet that is queued is popped and written even when running_ fell   *)
(* meanwhile.                                                              *)
PopTakes ==
  /\ senderPc = "pop" /\ Awake(Sender)
  /\ send_queue # <<>>
  /\ writing' = <<Head(send_queue)>>
  /\ send_queue' = Tail(send_queue)
  /\ NotifyOne
  /\ senderPc' = "write"
  /\ UNCHANGED <<running, prodVars, sent, stopVars>>

WriteOk ==
  /\ senderPc = "write" /\ connected
  /\ sent' = sent \o writing
  /\ writing' = <<>>
  /\ senderPc' = "check"
  /\ UNCHANGED <<running, queueVars, prodVars, stopVars>>

(* The write fails: the peer is gone, or stop() closed the socket.         *)
(* running_ falls and nobody is notified.                                  *)
WriteFails ==
  /\ senderPc = "write"
  /\ running' = FALSE
  /\ writing' = <<>>
  /\ senderPc' = "done"
  /\ UNCHANGED <<queueVars, prodVars, sent, stopVars>>
-----------------------------------------------------------------------------
(* The rest of the pipeline. *)

(* recv_loop, ping_loop and the DISCONNECT control message clear running_  *)
(* and notify nobody.                                                      *)
ConnectionLost ==
  /\ running
  /\ running' = FALSE
  /\ UNCHANGED <<queueVars, prodVars, senderVars, stopVars>>

(* mark_failed: the flag, then notify_all under send_mutex_. *)
MarkFailed ==
  /\ running
  /\ running' = FALSE
  /\ markPc' = "notify"
  /\ UNCHANGED <<queueVars, prodVars, senderVars, connected, ownerPc>>

MarkFailedNotify ==
  /\ markPc = "notify"
  /\ NotifyAll
  /\ markPc' = "idle"
  /\ UNCHANGED <<running, send_queue, prodVars, senderVars, connected, ownerPc>>

OwnerStep(from, to) ==
  /\ ownerPc = from
  /\ ownerPc' = to
  /\ UNCHANGED markPc

(* stop(), called by the user's disconnect at any time, and by the stats   *)
(* timer once it sees the pipeline not running.                            *)
Stop ==
  /\ OwnerStep("idle", "notify")
  /\ running' = FALSE
  /\ UNCHANGED <<queueVars, prodVars, senderVars, connected>>

StopNotify ==
  /\ OwnerStep("notify", "close")
  /\ NotifyAll
  /\ UNCHANGED <<running, send_queue, prodVars, senderVars, connected>>

StopClose ==
  /\ OwnerStep("close", "join")
  /\ connected' = FALSE
  /\ UNCHANGED <<running, queueVars, prodVars, senderVars>>

(* The send thread is joined, and encoder_->shutdown() returns only when   *)
(* no encoder callback is running.                                         *)
StopJoin ==
  /\ OwnerStep("join", "done")
  /\ senderPc = "done"
  /\ \A p \in Producers : prodPc[p] = "idle"
  /\ UNCHANGED <<running, queueVars, prodVars, senderVars, connected>>
-----------------------------------------------------------------------------
Push(p) == PushBlocks(p) \/ PushDropped(p) \/ PushQueued(p)

Pop == PopBlocks \/ PopLeaves \/ PopTakes

Next ==
  \/ \E p \in Producers : Emit(p) \/ Push(p)
  \/ \E t \in Threads : SpuriousWakeup(t)
  \/ SendLoopTest \/ Pop \/ WriteOk \/ WriteFails
  \/ ConnectionLost \/ MarkFailed \/ MarkFailedNotify
  \/ Stop \/ StopNotify \/ StopClose \/ StopJoin

Spec == Init /\ [][Next]_vars

(* Threads that can run do run.  A write to a socket that is still open    *)
(* may block for ever; once stop() closed the socket it returns.  The      *)
(* stats timer calls stop() on a pipeline that is not running.             *)
SchedulerFairness ==
  /\ \A p \in Producers : WF_vars(Push(p))
  /\ WF_vars(SendLoopTest \/ Pop \/ (~connected /\ WriteFails))
  /\ WF_vars(MarkFailedNotify)
  /\ WF_vars((~running /\ Stop) \/ StopNotify \/ StopClose \/ StopJoin)

FairSpec == Spec /\ SchedulerFairness

(* The peer keeps reading. *)
PeerReads == WF_vars(WriteOk)
-----------------------------------------------------------------------------
WaitingProducers == waitSet \cap Producers

(* No wakeup is lost on the shared condition variable: the send thread     *)
(* sleeps only over an empty queue, and there are never more sleeping      *)
(* callbacks than queued packets, so that each of them has a pop to be     *)
(* woken by.  This is what notify_one on send_cv_ (pipeline.cpp:448 and    *)
(* 559) relies on, and it needs no more callback threads than the queue    *)
(* has places.                                                             *)
NoLostWakeup ==
  /\ Sender \in waitSet => send_queue = <<>> /\ senderPc = "pop"
  /\ Cardinality(WaitingProducers) <= Len(send_queue)

(* A packet that a callback carries, that is queued or that is being       *)
(* written reaches the socket while the peer reads and the pipeline is not *)
(* stopped: whichever thread a notification wakes, nobody with something   *)
(* to do sleeps on (pipeline.cpp:443-448 and 549-559).  The bound on the   *)
(* packets keeps the other callbacks from overtaking one for ever, which   *)
(* the condition variable does not.                                        *)
OnItsWay(n) ==
  \/ n \in Range(send_queue) \cup Range(writing)
  \/ \E p \in Producers : held[p] = n

EmittedIsSent ==
  PeerReads =>
    \A n \in Packet : OnItsWay(n) ~> (n \in Range(sent) \/ ~running)

(* What NoLostWakeup rests on, and how stop() leaves the send stage.       *)
QueueWithinCapacity == Len(send_queue) <= Capacity

PushCarriesPacket ==
  \A p \in Producers : /\ prodPc[p] = "push" => held[p] # 0
                       /\ p \in waitSet => prodPc[p] = "push"

StopSilences ==
  /\ ownerPc # "idle" => ~running
  /\ ownerPc \in {"close", "join", "done"} => waitSet = {}

CleanStop ==
  ownerPc = "done" => /\ waitSet = {}
                      /\ senderPc = "done"
                      /\ \A p \in Producers : prodPc[p] = "idle"

(* The inductive invariant of the send stage: everything above together.   *)
Inv ==
  /\ TypeOK
  /\ QueueWithinCapacity
  /\ PushCarriesPacket
  /\ NoLostWakeup
  /\ StopSilences
  /\ CleanStop

(* The send stage implements the channel. *)
Channel == INSTANCE PacketChannel
             WITH open <- senderPc # "done", pending <- writing \o send_queue

ImplementsChannel == Channel!Spec
=============================================================================
