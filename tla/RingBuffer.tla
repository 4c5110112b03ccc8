----------------------------- MODULE RingBuffer -----------------------------
(***************************************************************************)
(* The single-producer single-consumer ring of the Android client: the     *)
(* receive thread writes video messages, each as its length and its bytes, *)
(* the decode thread reads them, and the receive thread resets the ring    *)
(* between two sessions.  The positions are size_t counters that wrap      *)
(* around; the length is little-endian and may itself wrap around the end  *)
(* of the buffer.  Every access to a position of the other side and every  *)
(* copy is a step of its own.                                              *)
(***************************************************************************)
EXTENDS Naturals, Sequences, FiniteSets

CONSTANTS Capacity,      \* bytes of the buffer
          HeaderSize,    \* sizeof(uint32_t)
          Base,          \* values of a byte
          Modulus,       \* values of a size_t
          Messages,      \* the messages the receive thread may write
          MaxRead        \* max_len: the size of the reader's buffer

(* The place values of a number's digits, one byte each.                   *)
Weight[i \in 0 .. HeaderSize] == IF i = 0 THEN 1 ELSE Base * Weight[i - 1]

ASSUME RingAssumption ==
  /\ Capacity \in Nat \ {0}
  /\ Modulus \in Nat /\ Modulus > Capacity /\ Modulus % Capacity = 0
  /\ HeaderSize \in Nat \ {0} /\ Base \in Nat \ {0, 1} /\ MaxRead \in Nat
  /\ Messages \subseteq Seq(0 .. Base - 1)
  /\ \A m \in Messages : Len(m) < Weight[HeaderSize]

VARIABLES data, write_pos, read_pos,
          writerPc,   \* where the receive thread is
          message,    \* what it is writing
          readerPc,   \* where the decode thread is
          r, avail, msg_len, buf,  \* its local variables
          accepted,   \* the result of the last ring_buffer_write_message
          delivered   \* the result of the last ring_buffer_read_message

positions == <<write_pos, read_pos>>
writerVars == <<writerPc, message, accepted>>
readerLocals == <<r, avail, msg_len, buf>>
readerVars == <<readerPc, readerLocals, delivered>>
vars == <<data, positions, writerVars, readerVars>>

Nothing == [len |-> 0, bytes |-> <<>>]

(* The memory comes from malloc; its first contents are never read.        *)
Init ==
  /\ data = [c \in 0 .. Capacity - 1 |-> 0]
  /\ write_pos = 0 /\ read_pos = 0
  /\ writerPc = "idle" /\ message = <<>> /\ accepted = TRUE
  /\ readerPc = "idle" /\ r = 0 /\ avail = 0 /\ msg_len = 0 /\ buf = <<>>
  /\ delivered = Nothing
-----------------------------------------------------------------------------
(* size_t arithmetic, and the two copies that a wrap-around needs.         *)

Plus(a, b) == (a + b) % Modulus

Minus(a, b) == (a + Modulus - b) % Modulus

Get(pos, n) == [i \in 1 .. n |-> data[(pos + i - 1) % Capacity]]

Put(pos, bytes) ==
  [c \in DOMAIN data |->
     LET i == ((c + Modulus - pos) % Capacity) + 1
     IN  IF i \in DOMAIN bytes THEN bytes[i] ELSE data[c]]

LengthBytes(n) ==
  [i \in 1 .. HeaderSize |-> (n \div Weight[i - 1]) % Base]

(* The bytes at pos are those of the length n, as memcpy reads them.       *)
Encodes(pos, n) == Get(pos, HeaderSize) = LengthBytes(n)

Lengths == 0 .. Weight[HeaderSize] - 1

LengthAt(pos) == CHOOSE n \in Lengths : Encodes(pos, n)

AvailableRead == Minus(write_pos, read_pos)

AvailableWrite == Minus(Capacity, AvailableRead)

(* The loop of ring_buffer_messages_pending: the bytes consumed after each *)
(* turn.  Behind the last complete message it stands still; no message is  *)
(* shorter than its length, which bounds the turns.                        *)
Turns == AvailableRead \div HeaderSize

Consumed ==
  LET at[k \in 0 .. Turns] ==
        IF k = 0 THEN 0
        ELSE LET c == at[k - 1]
                 size == HeaderSize + LengthAt(Plus(read_pos, c))
             IN  IF c + HeaderSize <= AvailableRead /\ c + size <= AvailableRead
                 THEN c + size ELSE c
  IN  at

MessagesPending ==
  LET at == Consumed
  IN  Cardinality({k \in 1 .. Turns : at[k] # at[k - 1]})
-----------------------------------------------------------------------------
(* ring_buffer_write_message, on the receive thread.                       *)

(* Mutant: the room for the length is forgotten. *)
HasRoomForBytes(m) == AvailableWrite >= Len(m)

HasRoom(m) == AvailableWrite >= HeaderSize + Len(m)

WriteRefused(m) ==
  /\ writerPc = "idle"
  /\ ~HasRoom(m)
  /\ accepted' = FALSE
  /\ UNCHANGED <<data, positions, writerPc, message, readerVars>>

WriteBegins(m) ==
  /\ writerPc = "idle"
  /\ HasRoom(m)
  /\ message' = m
  /\ writerPc' = "length"
  /\ UNCHANGED <<data, positions, accepted, readerVars>>

WriteLength ==
  /\ writerPc = "length"
  /\ data' = Put(write_pos, LengthBytes(Len(message)))
  /\ writerPc' = "payload"
  /\ UNCHANGED <<positions, message, accepted, readerVars>>

WritePayload ==
  /\ writerPc = "payload"
  /\ data' = Put(Plus(write_pos, HeaderSize), message)
  /\ writerPc' = "publish"
  /\ UNCHANGED <<positions, message, accepted, readerVars>>

Publish ==
  /\ writerPc = "publish"
  /\ write_pos' = Plus(write_pos, HeaderSize + Len(message))
  /\ accepted' = TRUE
  /\ message' = <<>>
  /\ writerPc' = "idle"
  /\ UNCHANGED <<data, read_pos, readerVars>>

(* ring_buffer_reset, on the receive thread: two stores.                   *)
ResetWritePos ==
  /\ writerPc = "idle"
  /\ write_pos' = 0
  /\ writerPc' = "reset"
  /\ UNCHANGED <<data, read_pos, message, accepted, readerVars>>

ResetReadPos ==
  /\ writerPc = "reset"
  /\ read_pos' = 0
  /\ writerPc' = "idle"
  /\ UNCHANGED <<data, write_pos, message, accepted, readerVars>>
-----------------------------------------------------------------------------
(* ring_buffer_read_message, on the decode thread.  read_pos is its own,   *)
(* so that it and write_pos are loaded in one step.                        *)

ReadReturns(result) ==
  /\ delivered' = result
  /\ readerPc' = "idle"
  /\ r' = 0 /\ avail' = 0 /\ msg_len' = 0 /\ buf' = <<>>

ReadEmpty ==
  /\ readerPc = "idle"
  /\ AvailableRead < HeaderSize
  /\ ReadReturns(Nothing)
  /\ UNCHANGED <<data, positions, writerVars>>

ReadBegins ==
  /\ readerPc = "idle"
  /\ AvailableRead >= HeaderSize
  /\ avail' = AvailableRead
  /\ r' = read_pos
  /\ readerPc' = "length"
  /\ UNCHANGED <<data, positions, writerVars, msg_len, buf, delivered>>

(* Mutant: a message that ends where the written bytes end is incomplete.  *)
ReadLengthStrict ==
  /\ readerPc = "length"
  /\ \E n \in Lengths :
       /\ Encodes(r, n)
       /\ IF avail <= HeaderSize + n
          THEN ReadReturns(Nothing)
          ELSE /\ msg_len' = n
               /\ readerPc' = "copy"
               /\ UNCHANGED <<r, avail, buf, delivered>>
  /\ UNCHANGED <<data, positions, writerVars>>

ReadLength ==
  /\ readerPc = "length"
  /\ \E n \in Lengths :
       /\ Encodes(r, n)
       /\ IF avail < HeaderSize + n
          THEN ReadReturns(Nothing)
          ELSE /\ msg_len' = n
               /\ readerPc' = "copy"
               /\ UNCHANGED <<r, avail, buf, delivered>>
  /\ UNCHANGED <<data, positions, writerVars>>

CopyLength == IF msg_len < MaxRead THEN msg_len ELSE MaxRead

ReadCopies ==
  /\ readerPc = "copy"
  /\ buf' = Get(Plus(r, HeaderSize), CopyLength)
  /\ readerPc' = "release"
  /\ UNCHANGED <<data, positions, writerVars, r, avail, msg_len, delivered>>

(* Mutant: only what was copied is consumed. *)
ReadReleasesCopied ==
  /\ readerPc = "release"
  /\ read_pos' = Plus(r, HeaderSize + Len(buf))
  /\ ReadReturns([len |-> msg_len, bytes |-> buf])
  /\ UNCHANGED <<data, write_pos, writerVars>>

ReadReleases ==
  /\ readerPc = "release"
  /\ read_pos' = Plus(r, HeaderSize + msg_len)
  /\ ReadReturns([len |-> msg_len, bytes |-> buf])
  /\ UNCHANGED <<data, write_pos, writerVars>>
-----------------------------------------------------------------------------
Writing ==
  \/ \E m \in Messages : WriteRefused(m) \/ WriteBegins(m)
  \/ WriteLength \/ WritePayload \/ Publish

Reset == ResetWritePos \/ ResetReadPos

Reading == ReadEmpty \/ ReadBegins \/ ReadLength \/ ReadCopies \/ ReadReleases

(* The ring as its documentation wants it used: nobody reads during a      *)
(* reset.                                                                  *)
Next ==
  \/ Writing
  \/ readerPc = "idle" /\ Reset
  \/ writerPc # "reset" /\ Reading

Spec == Init /\ [][Next]_vars

(* The decode thread keeps reading, and a write that has begun ends.       *)
FairSpec ==
  /\ Spec
  /\ WF_vars(writerPc # "reset" /\ Reading)
  /\ WF_vars(WriteLength \/ WritePayload \/ Publish)
  /\ WF_vars(ResetReadPos)

-----------------------------------------------------------------------------
(* The receive thread never copies into bytes that the decode thread may   *)
(* be copying out: neither the length, nor the bytes, nor across the end   *)
(* of the buffer, nor when the counters wrap around (ring_buffer.h:81-164).*)
Cells(pos, n) == {(pos + i) % Capacity : i \in 0 .. n - 1}

WriterCells ==
  IF writerPc \in {"length", "payload"}
  THEN Cells(write_pos, HeaderSize + Len(message)) ELSE {}

ReaderCells ==
  CASE readerPc = "length" -> Cells(r, HeaderSize)
    [] readerPc = "copy" -> Cells(r, HeaderSize + CopyLength)
    [] OTHER -> {}

NoRace == WriterCells \cap ReaderCells = {}

(* The ring implements the queue of messages: what is read is what was     *)
(* written, in the same order, each message whole and once; a message is   *)
(* refused only for want of room, and a reset leaves nothing behind.  The  *)
(* queue is what ring_buffer_messages_pending walks over.                  *)
MessageAt(pos) == Get(Plus(pos, HeaderSize), LengthAt(pos))

Pending ==
  LET at == Consumed
  IN  [k \in 1 .. MessagesPending |-> MessageAt(Plus(read_pos, at[k - 1]))]

Queue == INSTANCE MessageQueue
           WITH queue <- IF writerPc = "reset" THEN <<>> ELSE Pending

ImplementsQueue == Queue!Spec

(* Once the receive thread pauses, the decode thread finds everything that *)
(* was written, down to the last message.                                  *)
DrainsWhenQuiet ==
  <>[](writerPc = "idle") => <>[](MessagesPending = 0)
=============================================================================
