--------------------------- MODULE PacketChannel ---------------------------
(***************************************************************************)
(* What the send stage of the desktop pipeline promises to the encoder:    *)
(* packets that were accepted reach the socket in the order in which they  *)
(* were accepted, each at most once; at most Capacity of them wait in the  *)
(* queue and one more is in the hands of the send thread; nothing is       *)
(* accepted once the pipeline stopped running, and nothing reaches the     *)
(* socket once the send thread left.  A packet is lost only when the send  *)
(* thread leaves: the one it was writing.                                  *)
(***************************************************************************)
EXTENDS Naturals, Sequences

CONSTANTS Packet,     \* the packets the encoder may emit
          Capacity    \* kMaxSendQueueSize

VARIABLES running,    \* the pipeline accepts packets
          open,       \* the send thread is alive
          pending,    \* accepted, not yet on the socket, oldest first
          sent        \* on the socket, oldest first

vars == <<running, open, pending, sent>>

Init ==
  /\ running = TRUE
  /\ open = TRUE
  /\ pending = <<>>
  /\ sent = <<>>

Accept(v) ==
  /\ running
  /\ Len(pending) <= Capacity
  /\ pending' = Append(pending, v)
  /\ UNCHANGED <<running, open, sent>>

Deliver ==
  /\ open
  /\ pending # <<>>
  /\ sent' = Append(sent, Head(pending))
  /\ pending' = Tail(pending)
  /\ UNCHANGED <<running, open>>

(* Any thread may declare the pipeline stopped. *)
Halt ==
  /\ running' = FALSE
  /\ UNCHANGED <<open, pending, sent>>

(* The send thread leaves, with or without a packet in its hands. *)
Leave ==
  /\ open
  /\ open' = FALSE
  /\ running' = FALSE
  /\ \/ UNCHANGED pending
     \/ pending # <<>> /\ pending' = Tail(pending)
  /\ UNCHANGED sent

Next ==
  \/ \E v \in Packet : Accept(v)
  \/ Deliver
  \/ Halt
  \/ Leave

Spec == Init /\ [][Next]_vars
=============================================================================
