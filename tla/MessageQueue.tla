---------------------------- MODULE MessageQueue ----------------------------
(***************************************************************************)
(* What the receive thread and the decode thread may expect of the ring    *)
(* buffer between them: a first-in first-out queue of whole messages that  *)
(* takes a message when there is room for it and its length, and refuses   *)
(* it otherwise.                                                           *)
(***************************************************************************)
EXTENDS Naturals, Sequences

CONSTANTS Capacity,      \* bytes of the buffer
          HeaderSize,    \* bytes of a message's length
          Messages,      \* the messages: sequences of bytes
          MaxRead        \* bytes of the reader's buffer

VARIABLES queue,         \* the messages to be read, oldest first
          accepted,      \* was the last message taken?
          delivered      \* the length and the bytes read last

vars == <<queue, accepted, delivered>>

(* The bytes of the messages, their lengths included.                      *)
Used ==
  LET upTo[k \in 0 .. Len(queue)] ==
        IF k = 0 THEN 0 ELSE upTo[k - 1] + HeaderSize + Len(queue[k])
  IN  upTo[Len(queue)]

Fits(m) == Used + HeaderSize + Len(m) <= Capacity

(* A reader learns the length of a message that is too long for it.        *)
Copy(m) == [len |-> Len(m),
            bytes |-> SubSeq(m, 1, IF Len(m) < MaxRead THEN Len(m) ELSE MaxRead)]

Nothing == [len |-> 0, bytes |-> <<>>]

Init ==
  /\ queue = <<>>
  /\ accepted = TRUE
  /\ delivered = Nothing

Write(m) ==
  /\ Fits(m)
  /\ queue' = Append(queue, m)
  /\ accepted' = TRUE
  /\ UNCHANGED delivered

Refuse(m) ==
  /\ ~Fits(m)
  /\ accepted' = FALSE
  /\ UNCHANGED <<queue, delivered>>

Read ==
  /\ queue # <<>>
  /\ delivered' = Copy(Head(queue))
  /\ queue' = Tail(queue)
  /\ UNCHANGED accepted

ReadNothing ==
  /\ queue = <<>>
  /\ delivered' = Nothing
  /\ UNCHANGED <<queue, accepted>>

Discard == queue' = <<>> /\ UNCHANGED <<accepted, delivered>>

Next ==
  \/ \E m \in Messages : Write(m) \/ Refuse(m)
  \/ Read \/ ReadNothing
  \/ Discard

Spec == Init /\ [][Next]_vars
=============================================================================
