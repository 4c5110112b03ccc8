-------------------------- MODULE SendQueueProofs --------------------------
(***************************************************************************)
(* Proofs about the send stage, for every number of encoder callbacks not  *)
(* above the capacity of the queue, every capacity and every number of     *)
(* packets: the inductive invariant, no lost wakeup, and the refinement of *)
(* the packet channel.                                                     *)
(***************************************************************************)
EXTENDS SendQueue, FiniteSetTheorems, SequenceTheorems, TLAPS

(* The sleeping callbacks are finitely many, no more than all callbacks.   *)
LEMMA WaitersFinite ==
  ASSUME waitSet \in SUBSET Threads
  PROVE  /\ IsFiniteSet(waitSet)
         /\ IsFiniteSet(WaitingProducers)
         /\ Cardinality(WaitingProducers) \in Nat
         /\ Cardinality(WaitingProducers) <= Cardinality(Producers)
         /\ Cardinality(Producers) \in Nat
<1>1. WaitingProducers \in SUBSET Producers
  BY DEF WaitingProducers
<1>2. /\ IsFiniteSet(WaitingProducers)
      /\ Cardinality(WaitingProducers) <= Cardinality(Producers)
  BY <1>1, FS_Subset, SendQueueAssumption
<1>3. /\ Cardinality(WaitingProducers) \in Nat
      /\ Cardinality(Producers) \in Nat
  BY <1>2, FS_CardinalityType, SendQueueAssumption
<1>4. IsFiniteSet(Producers \cup {Sender})
  BY FS_AddElement, SendQueueAssumption
<1>5. IsFiniteSet(waitSet)
  BY <1>4, FS_Subset DEF Threads
<1>. QED  BY <1>2, <1>3, <1>5

(* notify_one wakes nobody or one sleeper; when the send thread is awake   *)
(* and some thread sleeps, that sleeper is a callback.                     *)
LEMMA NotifyWakesOne ==
  ASSUME waitSet \in SUBSET Threads, NotifyOne
  PROVE  /\ waitSet' \in SUBSET waitSet
         /\ Cardinality(WaitingProducers') <= Cardinality(WaitingProducers)
         /\ Sender \notin waitSet /\ waitSet # {}
              => Cardinality(WaitingProducers')
                   = Cardinality(WaitingProducers) - 1
<1>. /\ IsFiniteSet(WaitingProducers)
     /\ Cardinality(WaitingProducers) \in Nat
  BY WaitersFinite
<1>1. waitSet' \in SUBSET waitSet
  BY DEF NotifyOne
<1>2. Cardinality(WaitingProducers') <= Cardinality(WaitingProducers)
  BY <1>1, FS_Subset DEF WaitingProducers
<1>3. ASSUME Sender \notin waitSet, waitSet # {}
      PROVE  Cardinality(WaitingProducers') = Cardinality(WaitingProducers) - 1
  <2>1. PICK t \in waitSet : waitSet' = waitSet \ {t}
    BY <1>3 DEF NotifyOne
  <2>2. t \in WaitingProducers /\ WaitingProducers' = WaitingProducers \ {t}
    BY <2>1, <1>3 DEF WaitingProducers, Threads
  <2>. QED  BY <2>2, FS_RemoveElement
<1>. QED  BY <1>1, <1>2, <1>3

(* Fewer sleepers are never more than the packets that are still queued.   *)
LEMMA FewerSleepers ==
  ASSUME waitSet \in SUBSET Threads, waitSet' \in SUBSET waitSet
  PROVE  /\ Cardinality(WaitingProducers') \in Nat
         /\ Cardinality(WaitingProducers') <= Cardinality(WaitingProducers)
<1>. WaitingProducers' \in SUBSET WaitingProducers
  BY DEF WaitingProducers
<1>. QED  BY FS_Subset, FS_CardinalityType, WaitersFinite
-----------------------------------------------------------------------------
(* The packet in the hands of the send thread, as a sequence.              *)
LEMMA WritingIsSeq == TypeOK => writing \in Seq(Packet)
<1>. SUFFICES ASSUME TypeOK PROVE writing \in Seq(Packet)
  OBVIOUS
<1>1. CASE writing = <<>>
  BY <1>1, EmptySeq
<1>2. ASSUME NEW n \in Packet, writing = <<n>>  PROVE writing \in Seq(Packet)
  BY <1>2
<1>. QED  BY <1>1, <1>2 DEF TypeOK
-----------------------------------------------------------------------------
(* The send stage starts empty, with nobody asleep.                        *)
LEMMA InitInv == Init => Inv
<1>. SUFFICES ASSUME Init PROVE Inv
  OBVIOUS
<1>1. TypeOK
  BY SendQueueAssumption DEF Init, TypeOK, Threads, Packet
<1>2. QueueWithinCapacity /\ PushCarriesPacket /\ StopSilences /\ CleanStop
  BY SendQueueAssumption
  DEF Init, QueueWithinCapacity, PushCarriesPacket, StopSilences, CleanStop
<1>3. NoLostWakeup
  BY FS_EmptySet DEF Init, NoLostWakeup, WaitingProducers
<1>. QED  BY <1>1, <1>2, <1>3 DEF Inv

(* Every step keeps the types. *)
LEMMA NextTypeOK == Inv /\ [Next]_vars => TypeOK'
<1>. SUFFICES ASSUME Inv, [Next]_vars PROVE TypeOK'
  OBVIOUS
<1>. USE SendQueueAssumption
     DEF Inv, TypeOK, Packet, Threads, queueVars, prodVars, senderVars,
         stopVars
<1>1. CASE UNCHANGED vars
  BY <1>1 DEF vars
<1>2. ASSUME NEW p \in Producers, Emit(p)  PROVE TypeOK'
  BY <1>2 DEF Emit
<1>3. ASSUME NEW p \in Producers, PushBlocks(p)  PROVE TypeOK'
  BY <1>3 DEF PushBlocks, Wait
<1>4. ASSUME NEW p \in Producers, PushDropped(p)  PROVE TypeOK'
  BY <1>4 DEF PushDropped, PushReturns
<1>5. ASSUME NEW p \in Producers, PushQueued(p)  PROVE TypeOK'
  <2>1. send_queue' \in Seq(Packet)
    BY <1>5, AppendProperties DEF PushQueued, PushCarriesPacket
  <2>2. waitSet' \in SUBSET Threads
    BY <1>5 DEF PushQueued, NotifyOne
  <2>. QED  BY <1>5, <2>1, <2>2 DEF PushQueued, PushReturns
<1>6. ASSUME NEW t \in Threads, SpuriousWakeup(t)  PROVE TypeOK'
  BY <1>6 DEF SpuriousWakeup
<1>7. CASE SendLoopTest
  BY <1>7 DEF SendLoopTest
<1>8. CASE PopBlocks
  BY <1>8 DEF PopBlocks, Wait
<1>9. CASE PopLeaves
  BY <1>9 DEF PopLeaves
<1>10. CASE PopTakes
  <2>1. send_queue' \in Seq(Packet) /\ Head(send_queue) \in Packet
    BY <1>10, HeadTailProperties DEF PopTakes
  <2>2. waitSet' \in SUBSET Threads
    BY <1>10 DEF PopTakes, NotifyOne
  <2>. QED  BY <1>10, <2>1, <2>2 DEF PopTakes
<1>11. CASE WriteOk
  <2>1. writing \in Seq(Packet)
    BY WritingIsSeq
  <2>2. sent' \in Seq(Packet)
    BY <1>11, <2>1, ConcatProperties DEF WriteOk
  <2>. QED  BY <1>11, <2>2 DEF WriteOk
<1>12. CASE WriteFails
  BY <1>12 DEF WriteFails
<1>13. CASE ConnectionLost \/ MarkFailed \/ MarkFailedNotify
  BY <1>13 DEF ConnectionLost, MarkFailed, MarkFailedNotify, NotifyAll
<1>14. CASE Stop \/ StopNotify \/ StopClose \/ StopJoin
  BY <1>14 DEF Stop, StopNotify, StopClose, StopJoin, NotifyAll, OwnerStep
<1>. QED
  BY <1>1, <1>2, <1>3, <1>4, <1>5, <1>6, <1>7, <1>8, <1>9, <1>10, <1>11,
     <1>12, <1>13, <1>14
  DEF Next, Push, Pop

(* Every step keeps the queue within its capacity, lets only callbacks     *)
(* that carry a packet sleep, and lets nobody fall asleep once stop() has  *)
(* notified.                                                               *)
LEMMA NextSupport ==
  Inv /\ [Next]_vars
    => QueueWithinCapacity' /\ PushCarriesPacket' /\ StopSilences' /\ CleanStop'
<1>. SUFFICES ASSUME Inv, [Next]_vars
              PROVE  /\ QueueWithinCapacity' /\ PushCarriesPacket'
                     /\ StopSilences' /\ CleanStop'
  OBVIOUS
<1>. USE SendQueueAssumption
     DEF Inv, TypeOK, QueueWithinCapacity, PushCarriesPacket, StopSilences,
         CleanStop, queueVars, prodVars, senderVars, stopVars
<1>1. CASE UNCHANGED vars
  BY <1>1 DEF vars
<1>2. ASSUME NEW p \in Producers, Emit(p)
      PROVE  /\ QueueWithinCapacity' /\ PushCarriesPacket'
             /\ StopSilences' /\ CleanStop'
  BY <1>2 DEF Emit, Packet
<1>3. ASSUME NEW p \in Producers, PushBlocks(p)
      PROVE  /\ QueueWithinCapacity' /\ PushCarriesPacket'
             /\ StopSilences' /\ CleanStop'
  BY <1>3 DEF PushBlocks, Wait
<1>4. ASSUME NEW p \in Producers, PushDropped(p)
      PROVE  /\ QueueWithinCapacity' /\ PushCarriesPacket'
             /\ StopSilences' /\ CleanStop'
  BY <1>4 DEF PushDropped, PushReturns, Awake
<1>5. ASSUME NEW p \in Producers, PushQueued(p)
      PROVE  /\ QueueWithinCapacity' /\ PushCarriesPacket'
             /\ StopSilences' /\ CleanStop'
  <2>1. QueueWithinCapacity'
    BY <1>5, AppendProperties DEF PushQueued, Full
  <2>2. waitSet' \in SUBSET waitSet
    BY <1>5, NotifyWakesOne DEF PushQueued
  <2>3. PushCarriesPacket' /\ StopSilences' /\ CleanStop'
    BY <1>5, <2>2 DEF PushQueued, PushReturns, Awake
  <2>. QED  BY <2>1, <2>3
<1>6. ASSUME NEW t \in Threads, SpuriousWakeup(t)
      PROVE  /\ QueueWithinCapacity' /\ PushCarriesPacket'
             /\ StopSilences' /\ CleanStop'
  BY <1>6 DEF SpuriousWakeup
<1>7. CASE SendLoopTest
  BY <1>7 DEF SendLoopTest
<1>8. CASE PopBlocks
  BY <1>8 DEF PopBlocks, Wait
<1>9. CASE PopLeaves
  BY <1>9 DEF PopLeaves
<1>10. CASE PopTakes
  <2>1. QueueWithinCapacity'
    BY <1>10, HeadTailProperties DEF PopTakes
  <2>2. waitSet' \in SUBSET waitSet
    BY <1>10, NotifyWakesOne DEF PopTakes
  <2>3. PushCarriesPacket' /\ StopSilences' /\ CleanStop'
    BY <1>10, <2>2 DEF PopTakes
  <2>. QED  BY <2>1, <2>3
<1>11. CASE WriteOk
  BY <1>11 DEF WriteOk
<1>12. CASE WriteFails
  BY <1>12 DEF WriteFails
<1>13. CASE ConnectionLost \/ MarkFailed \/ MarkFailedNotify
  BY <1>13 DEF ConnectionLost, MarkFailed, MarkFailedNotify, NotifyAll
<1>14. CASE Stop
  BY <1>14 DEF Stop, OwnerStep
<1>15. CASE StopNotify
  BY <1>15 DEF StopNotify, OwnerStep, NotifyAll
<1>16. CASE StopClose
  BY <1>16 DEF StopClose, OwnerStep
<1>17. CASE StopJoin
  BY <1>17 DEF StopJoin, OwnerStep
<1>. QED
  BY <1>1, <1>2, <1>3, <1>4, <1>5, <1>6, <1>7, <1>8, <1>9, <1>10, <1>11,
     <1>12, <1>13, <1>14, <1>15, <1>16, <1>17
  DEF Next, Push, Pop

(* No step loses a wakeup.                                                 *)
LEMMA NextNoLostWakeup == Inv /\ [Next]_vars => NoLostWakeup'
<1>. SUFFICES ASSUME Inv, [Next]_vars PROVE NoLostWakeup'
  OBVIOUS
<1>. USE SendQueueAssumption
     DEF NoLostWakeup, queueVars, prodVars, senderVars, stopVars
<1>0. /\ waitSet \in SUBSET Threads /\ send_queue \in Seq(Packet)
      /\ Sender \in waitSet => send_queue = <<>> /\ senderPc = "pop"
      /\ Cardinality(WaitingProducers) <= Len(send_queue)
      /\ Len(send_queue) <= Capacity
      /\ Cardinality(WaitingProducers) \in Nat /\ Len(send_queue) \in Nat
  BY WaitersFinite, LenProperties DEF Inv, TypeOK, QueueWithinCapacity
<1>1. ASSUME UNCHANGED <<waitSet, send_queue>>,
             senderPc' = senderPc \/ Sender \notin waitSet
      PROVE  NoLostWakeup'
  BY <1>0, <1>1 DEF WaitingProducers
<1>2. ASSUME waitSet' \in SUBSET waitSet, UNCHANGED <<send_queue, senderPc>>
      PROVE  NoLostWakeup'
  BY <1>0, <1>2, FewerSleepers
<1>3. CASE UNCHANGED vars
  BY <1>1, <1>3 DEF vars
<1>4. ASSUME NEW p \in Producers, Emit(p) \/ PushDropped(p)
      PROVE  NoLostWakeup'
  BY <1>1, <1>4 DEF Emit, PushDropped
<1>5. ASSUME NEW p \in Producers, PushBlocks(p)
      PROVE  NoLostWakeup'
  <2>1. Len(send_queue) = Capacity
    BY <1>0, <1>5 DEF PushBlocks, Full
  <2>2. waitSet' \in SUBSET Threads /\ p # Sender
    BY <1>0, <1>5 DEF PushBlocks, Wait, Threads
  <2>3. Cardinality(WaitingProducers') <= Capacity
    <3>1. WaitingProducers' \in SUBSET Producers
      BY DEF WaitingProducers
    <3>2. Cardinality(WaitingProducers') <= Cardinality(Producers)
      BY <3>1, FS_Subset
    <3>3. Cardinality(WaitingProducers') \in Nat
      BY <3>1, FS_Subset, FS_CardinalityType
    <3>. QED  BY <3>2, <3>3, WaitersFinite, <1>0
  <2>4. Sender \in waitSet' => Sender \in waitSet
    BY <1>5, <2>2 DEF PushBlocks, Wait
  <2>. QED  BY <1>0, <1>5, <2>1, <2>3, <2>4 DEF PushBlocks
<1>6. ASSUME NEW p \in Producers, PushQueued(p)
      PROVE  NoLostWakeup'
  <2>1. Len(send_queue') = Len(send_queue) + 1
    BY <1>0, <1>6, AppendProperties
    DEF PushQueued, Inv, TypeOK, PushCarriesPacket
  <2>2. /\ waitSet' \in SUBSET waitSet
        /\ Cardinality(WaitingProducers') <= Cardinality(WaitingProducers)
        /\ Cardinality(WaitingProducers') \in Nat
    BY <1>0, <1>6, NotifyWakesOne, FewerSleepers DEF PushQueued
  <2>3. Sender \notin waitSet'
    <3>1. CASE Sender \in waitSet
      <4>1. Len(send_queue) = 0
        BY <1>0, <3>1, EmptySeq
      <4>2. WaitingProducers = {}
        BY <1>0, <4>1, WaitersFinite, FS_EmptySet
      <4>3. waitSet = {Sender}
        BY <1>0, <3>1, <4>2 DEF WaitingProducers, Threads
      <4>. QED  BY <1>6, <4>3 DEF PushQueued, NotifyOne
    <3>2. CASE Sender \notin waitSet
      BY <3>2, <2>2
    <3>. QED  BY <3>1, <3>2
  <2>. QED  BY <1>0, <2>1, <2>2, <2>3
<1>7. ASSUME NEW t \in Threads, SpuriousWakeup(t)
      PROVE  NoLostWakeup'
  BY <1>2, <1>7 DEF SpuriousWakeup
<1>8. CASE SendLoopTest
  BY <1>0, <1>1, <1>8 DEF SendLoopTest
<1>9. CASE PopBlocks
  BY <1>0, <1>9 DEF PopBlocks, Wait, WaitingProducers
<1>10. CASE PopLeaves
  BY <1>1, <1>10 DEF PopLeaves, Awake
<1>11. CASE PopTakes
  <2>1. Len(send_queue') = Len(send_queue) - 1 /\ Len(send_queue') \in Nat
    BY <1>0, <1>11, HeadTailProperties, LenProperties DEF PopTakes
  <2>2. Sender \notin waitSet /\ waitSet' \in SUBSET waitSet
    BY <1>0, <1>11, NotifyWakesOne DEF PopTakes, Awake
  <2>3. Cardinality(WaitingProducers') <= Len(send_queue')
    <3>1. CASE waitSet = {}
      <4>1. WaitingProducers' = {}
        BY <3>1, <2>2 DEF WaitingProducers
      <4>. QED  BY <4>1, <2>1, FS_EmptySet
    <3>2. CASE waitSet # {}
      <4>1. Cardinality(WaitingProducers') = Cardinality(WaitingProducers) - 1
        BY <1>0, <1>11, <2>2, <3>2, NotifyWakesOne DEF PopTakes
      <4>. QED  BY <4>1, <2>1, <1>0
    <3>. QED  BY <3>1, <3>2
  <2>. QED  BY <2>2, <2>3
<1>12. CASE WriteOk \/ WriteFails
  BY <1>0, <1>1, <1>12 DEF WriteOk, WriteFails
<1>13. CASE ConnectionLost \/ MarkFailed
  BY <1>1, <1>13 DEF ConnectionLost, MarkFailed
<1>14. CASE MarkFailedNotify
  BY <1>2, <1>14 DEF MarkFailedNotify, NotifyAll
<1>15. CASE StopNotify
  BY <1>2, <1>15 DEF StopNotify, NotifyAll
<1>16. CASE Stop \/ StopClose \/ StopJoin
  BY <1>1, <1>16 DEF Stop, StopClose, StopJoin
<1>. QED
  BY <1>3, <1>4, <1>5, <1>6, <1>7, <1>8, <1>9, <1>10, <1>11, <1>12, <1>13,
     <1>14, <1>15, <1>16
  DEF Next, Push, Pop
-----------------------------------------------------------------------------
(* The inductive invariant holds in every reachable state: queue, threads  *)
(* and stop() of pipeline.cpp:311-657, for every capacity and every number *)
(* of callbacks not above it.                                              *)
THEOREM InvAlways == Spec => []Inv
<1>1. Init => Inv
  BY InitInv
<1>2. Inv /\ [Next]_vars => Inv'
  BY NextTypeOK, NextSupport, NextNoLostWakeup DEF Inv
<1>. QED  BY <1>1, <1>2, PTL DEF Spec

(* The state of the send stage always has its types.                       *)
THEOREM TypeCorrect == Spec => []TypeOK
<1>1. Inv => TypeOK
  BY DEF Inv
<1>. QED  BY <1>1, InvAlways, PTL

(* notify_one on the shared condition variable never loses a wakeup.       *)
THEOREM NoWakeupLost == Spec => []NoLostWakeup
<1>1. Inv => NoLostWakeup
  BY DEF Inv
<1>. QED  BY <1>1, InvAlways, PTL
-----------------------------------------------------------------------------
(* How the sequences of the send stage move through the channel: a push    *)
(* appends to the pending packets, a pop moves the oldest into the hands   *)
(* of the send thread, a write takes it from there.                        *)
LEMMA PendingAppend ==
  ASSUME TypeOK, NEW n \in Packet
  PROVE  /\ writing \o Append(send_queue, n) = Append(writing \o send_queue, n)
         /\ Len(writing \o send_queue) = Len(writing) + Len(send_queue)
         /\ Len(writing) \in {0, 1}
<1>1. writing \in Seq(Packet) /\ send_queue \in Seq(Packet)
  BY WritingIsSeq DEF TypeOK
<1>2. <<n>> \in Seq(Packet) /\ writing \o send_queue \in Seq(Packet)
  BY <1>1, ConcatProperties
<1>3. Append(send_queue, n) = send_queue \o <<n>>
  BY <1>1, AppendIsConcat
<1>4. Append(writing \o send_queue, n) = (writing \o send_queue) \o <<n>>
  BY <1>2, AppendIsConcat
<1>5. writing \o Append(send_queue, n) = Append(writing \o send_queue, n)
  BY <1>1, <1>2, <1>3, <1>4, ConcatAssociative
<1>6. Len(writing) \in {0, 1}
  BY DEF TypeOK
<1>. QED  BY <1>1, <1>5, <1>6, ConcatProperties

(* A pop moves the oldest packet and leaves the pending ones as they are.  *)
LEMMA PendingPop ==
  ASSUME TypeOK, writing = <<>>, send_queue # <<>>
  PROVE  <<Head(send_queue)>> \o Tail(send_queue) = writing \o send_queue
<1>1. send_queue \in Seq(Packet)
  BY DEF TypeOK
<1>2. writing \o send_queue = send_queue
  BY <1>1, ConcatEmptySeq
<1>3. /\ Head(send_queue) \in Packet
      /\ Head(send_queue) = send_queue[1]
      /\ Tail(send_queue) \in Seq(Packet)
      /\ Len(Tail(send_queue)) = Len(send_queue) - 1
      /\ \A i \in 1 .. Len(Tail(send_queue)) :
           Tail(send_queue)[i] = send_queue[i + 1]
  BY <1>1, HeadTailProperties
<1> DEFINE h == <<Head(send_queue)>>
<1>4. h \in Seq(Packet) /\ Len(h) = 1 /\ h[1] = send_queue[1]
  BY <1>3
<1> DEFINE s == h \o Tail(send_queue)
<1> HIDE DEF h
<1>5. /\ s \in Seq(Packet)
      /\ Len(s) = 1 + Len(Tail(send_queue))
      /\ \A i \in 1 .. 1 + Len(Tail(send_queue)) :
           s[i] = IF i <= 1 THEN h[i] ELSE Tail(send_queue)[i - 1]
  <2> DEFINE t == Tail(send_queue)
  <2>1. t \in Seq(Packet)
    BY <1>3
  <2> HIDE DEF t
  <2>2. /\ h \o t \in Seq(Packet)
        /\ Len(h \o t) = Len(h) + Len(t)
        /\ \A i \in 1 .. Len(h) + Len(t) :
             (h \o t)[i] = IF i <= Len(h) THEN h[i] ELSE t[i - Len(h)]
    BY <1>4, <2>1, ConcatProperties
  <2>. QED  BY <1>4, <2>2 DEF t
<1>6. Len(send_queue) \in Nat /\ Len(send_queue) > 0
  BY <1>1, EmptySeq
<1>7. Len(s) = Len(send_queue)
  BY <1>3, <1>5, <1>6
<1>8. ASSUME NEW i \in 1 .. Len(s) PROVE s[i] = send_queue[i]
  <2>1. CASE i = 1
    BY <2>1, <1>4, <1>5
  <2>2. CASE i # 1
    <3>1. i - 1 \in 1 .. Len(Tail(send_queue))
      BY <2>2, <1>3, <1>5, <1>6
    <3>. QED  BY <2>2, <3>1, <1>3, <1>5
  <2>. QED  BY <2>1, <2>2
<1>9. s = send_queue
  <2> HIDE DEF s
  <2>. QED  BY <1>1, <1>5, <1>7, <1>8, SeqEqual
<1>. QED  BY <1>2, <1>9 DEF h

(* A write takes the oldest pending packet.                                *)
LEMMA PendingWrite ==
  ASSUME TypeOK, writing # <<>>
  PROVE  /\ writing \o send_queue # <<>>
         /\ sent \o writing = Append(sent, Head(writing \o send_queue))
         /\ <<>> \o send_queue = Tail(writing \o send_queue)
<1>1. PICK n \in Packet : writing = <<n>>
  BY DEF TypeOK
<1>2. send_queue \in Seq(Packet) /\ sent \in Seq(Packet) /\ <<n>> \in Seq(Packet)
  BY DEF TypeOK
<1> DEFINE s == <<n>> \o send_queue
<1>3. /\ s \in Seq(Packet)
      /\ Len(s) = 1 + Len(send_queue)
      /\ \A i \in 1 .. 1 + Len(send_queue) :
           s[i] = IF i <= 1 THEN <<n>>[i] ELSE send_queue[i - 1]
  BY <1>2, ConcatProperties
<1> HIDE DEF s
<1>4. Len(send_queue) \in Nat
  BY <1>2, LenProperties
<1>5. s # <<>>
  BY <1>3, <1>4, EmptySeq
<1>6. Head(s) = n
  BY <1>3, <1>4, <1>5, HeadTailProperties
<1>7. /\ Tail(s) \in Seq(Packet)
      /\ Len(Tail(s)) = Len(send_queue)
      /\ \A i \in 1 .. Len(Tail(s)) : Tail(s)[i] = s[i + 1]
  BY <1>3, <1>4, <1>5, HeadTailProperties
<1>8. ASSUME NEW i \in 1 .. Len(Tail(s)) PROVE Tail(s)[i] = send_queue[i]
  BY <1>3, <1>4, <1>7
<1>9. Tail(s) = send_queue
  BY <1>2, <1>7, <1>8, SeqEqual
<1>10. sent \o <<n>> = Append(sent, n)
  BY <1>2, AppendIsConcat
<1>11. <<>> \o send_queue = send_queue
  BY <1>2, ConcatEmptySeq
<1>. QED  BY <1>1, <1>5, <1>6, <1>9, <1>10, <1>11 DEF s

(* Every step of the send stage is a step of the channel, or leaves the    *)
(* channel unchanged.                                                      *)
LEMMA StepRefines == Inv /\ [Next]_vars => [Channel!Next]_(Channel!vars)
<1>. SUFFICES ASSUME Inv, [Next]_vars
              PROVE  Channel!Next \/ UNCHANGED Channel!vars
  OBVIOUS
<1>. USE DEF queueVars, prodVars, senderVars, stopVars, Channel!vars
<1>0. TypeOK
  BY DEF Inv
<1>1. ASSUME UNCHANGED <<running, send_queue, senderPc, writing, sent>>
      PROVE  UNCHANGED Channel!vars
  BY <1>1
<1>2. ASSUME running' = FALSE, UNCHANGED <<send_queue, senderPc, writing, sent>>
      PROVE  Channel!Halt
  BY <1>2 DEF Channel!Halt
<1>3. CASE UNCHANGED vars
  BY <1>1, <1>3 DEF vars
<1>4. ASSUME NEW p \in Producers, Emit(p) \/ PushBlocks(p) \/ PushDropped(p)
      PROVE  UNCHANGED Channel!vars
  BY <1>1, <1>4 DEF Emit, PushBlocks, PushDropped
<1>5. ASSUME NEW p \in Producers, PushQueued(p)
      PROVE  Channel!Accept(held[p])
  <2>1. held[p] \in Packet
    BY <1>5 DEF Inv, TypeOK, PushCarriesPacket, PushQueued
  <2>2. writing' \o send_queue' = Append(writing \o send_queue, held[p])
    BY <1>0, <1>5, <2>1, PendingAppend DEF PushQueued
  <2>3. Len(writing \o send_queue) <= Capacity
    <3>1. Len(send_queue) \in Nat /\ Capacity \in Nat
      BY <1>0, LenProperties, SendQueueAssumption DEF TypeOK
    <3>2. Len(send_queue) < Capacity
      BY <1>5, <3>1 DEF PushQueued, Full
    <3>3. /\ Len(writing \o send_queue) = Len(writing) + Len(send_queue)
          /\ Len(writing) \in {0, 1}
      BY <1>0, <2>1, PendingAppend
    <3> DEFINE w == Len(writing)
               q == Len(send_queue)
               all == Len(writing \o send_queue)
    <3>4. all = w + q /\ w \in {0, 1} /\ q \in Nat /\ q < Capacity /\ Capacity \in Nat
      BY <3>1, <3>2, <3>3
    <3> HIDE DEF w, q, all
    <3>5. all <= Capacity
      BY <3>4
    <3>. QED  BY <3>5 DEF all
  <2>. QED  BY <1>5, <2>2, <2>3 DEF PushQueued, Channel!Accept
<1>6. ASSUME NEW t \in Threads, SpuriousWakeup(t)
      PROVE  UNCHANGED Channel!vars
  BY <1>1, <1>6 DEF SpuriousWakeup
<1>7. CASE SendLoopTest
  <2>1. CASE running
    BY <1>7, <2>1 DEF SendLoopTest
  <2>2. CASE ~running
    BY <1>0, <1>7, <2>2 DEF SendLoopTest, Channel!Next, Channel!Leave, TypeOK
  <2>. QED  BY <2>1, <2>2, <1>0 DEF TypeOK
<1>8. CASE PopBlocks
  BY <1>1, <1>8 DEF PopBlocks
<1>9. CASE PopLeaves
  BY <1>0, <1>9 DEF PopLeaves, Channel!Next, Channel!Leave, TypeOK
<1>10. CASE PopTakes
  <2>1. writing = <<>>
    BY <1>0, <1>10 DEF PopTakes, TypeOK
  <2>2. writing' \o send_queue' = writing \o send_queue
    BY <1>0, <1>10, <2>1, PendingPop DEF PopTakes
  <2>. QED  BY <1>10, <2>2 DEF PopTakes
<1>11. CASE WriteOk
  <2>1. writing # <<>>
    BY <1>0, <1>11 DEF WriteOk, TypeOK
  <2>2. Channel!Deliver
    BY <1>0, <1>11, <2>1, PendingWrite DEF WriteOk, Channel!Deliver
  <2>. QED  BY <2>2 DEF Channel!Next
<1>12. CASE WriteFails
  <2>1. writing # <<>>
    BY <1>0, <1>12 DEF WriteFails, TypeOK
  <2>2. Channel!Leave
    BY <1>0, <1>12, <2>1, PendingWrite DEF WriteFails, Channel!Leave
  <2>. QED  BY <2>2 DEF Channel!Next
<1>13. CASE ConnectionLost \/ MarkFailed \/ Stop
  BY <1>2, <1>13 DEF ConnectionLost, MarkFailed, Stop, Channel!Next
<1>14. CASE MarkFailedNotify \/ StopNotify \/ StopClose \/ StopJoin
  BY <1>1, <1>14 DEF MarkFailedNotify, StopNotify, StopClose, StopJoin
<1>15. ASSUME NEW p \in Producers, PushQueued(p) PROVE Channel!Next
  <2>1. held[p] \in Packet
    BY <1>15 DEF Inv, TypeOK, PushCarriesPacket, PushQueued
  <2>. QED  BY <1>5, <1>15, <2>1 DEF Channel!Next
<1>. QED
  BY <1>3, <1>4, <1>15, <1>6, <1>7, <1>8, <1>9, <1>10, <1>11, <1>12, <1>13,
     <1>14
  DEF Next, Push, Pop

(* The send stage implements the packet channel: accepted packets reach    *)
(* the socket in order and at most once, within the capacity, and none is  *)
(* accepted after the stop nor written after the send thread left.         *)
THEOREM SendQueueImplementsChannel == Spec => ImplementsChannel
<1>1. Init => Channel!Init
  BY ConcatEmptySeq DEF Init, Channel!Init
<1>2. Inv /\ [Next]_vars => [Channel!Next]_(Channel!vars)
  BY StepRefines
<1>. QED  BY <1>1, <1>2, InvAlways, PTL DEF Spec, ImplementsChannel,
    Channel!Spec
-----------------------------------------------------------------------------
(* The numbers in s increase; all of s are smaller than all of t; all of s *)
(* are smaller than n.                                                     *)
Rising(s) == \A i, j \in DOMAIN s : i < j => s[i] < s[j]
Before(s, t) == \A i \in DOMAIN s : \A j \in DOMAIN t : s[i] < t[j]
Below(s, n) == \A i \in DOMAIN s : s[i] < n

(* No packet overtakes another: those on the wire come first, then the one *)
(* being written, the queued ones, and the one the callback carries.       *)
BeforeAll(n) == Below(sent, n) /\ Below(writing, n) /\ Below(send_queue, n)

NumbersRise ==
  /\ Rising(sent) /\ Rising(send_queue)
  /\ Before(sent, writing)
  /\ Before(sent, send_queue)
  /\ Before(writing, send_queue)
  /\ BeforeAll(next_video_sequence)
  /\ \A p \in Producers : prodPc[p] = "push" =>
       held[p] < next_video_sequence /\ BeforeAll(held[p])

(* What a sequence of packets still satisfies when one is added at its     *)
(* end, when its head is taken, and when the head is written.              *)
LEMMA AddLast ==
  ASSUME NEW s \in Seq(Nat), NEW n \in Nat, Below(s, n)
  PROVE  /\ Rising(s) => Rising(Append(s, n))
         /\ \A m \in Nat : n < m => Below(Append(s, n), m)
         /\ \A t \in Seq(Nat) : Before(t, s) /\ Below(t, n)
              => Before(t, Append(s, n))
         /\ \A t \in Seq(Nat) : Before(s, t) /\ Before(<<n>>, t)
              => Before(Append(s, n), t)
<1>1. Rising(s) => Rising(Append(s, n))
  BY DEF Below, Rising
<1>2. \A m \in Nat : n < m => Below(Append(s, n), m)
  BY DEF Below
<1>3. ASSUME NEW t \in Seq(Nat), Before(t, s), Below(t, n)
      PROVE  Before(t, Append(s, n))
  BY <1>3 DEF Below, Before
<1>4. ASSUME NEW t \in Seq(Nat), Before(s, t), Before(<<n>>, t)
      PROVE  Before(Append(s, n), t)
  <2>1. \A j \in DOMAIN t : n < t[j]
    <3>1. DOMAIN <<n>> = {1} /\ <<n>>[1] = n
      OBVIOUS
    <3>. QED  BY <1>4, <3>1 DEF Before
  <2>. QED  BY <1>4, <2>1 DEF Before
<1>. QED  BY <1>1, <1>2, <1>3, <1>4

(* What a sequence still satisfies, and its head, when that is taken.      *)
LEMMA TakeFirst ==
  ASSUME NEW s \in Seq(Nat), s # <<>>, Rising(s)
  PROVE  /\ Rising(Tail(s)) /\ Before(<<Head(s)>>, Tail(s))
         /\ \A m \in Nat : Below(s, m) => Below(Tail(s), m) /\ Below(<<Head(s)>>, m)
         /\ \A t \in Seq(Nat) : Before(t, s)
              => Before(t, Tail(s)) /\ Before(t, <<Head(s)>>)
BY DEF Below, Rising, Before

(* With one callback thread every step keeps the packets in order.         *)
LEMMA NextNumbersRise ==
  ASSUME \A p, q \in Producers : p = q
  PROVE  Inv /\ NumbersRise /\ [Next]_vars => NumbersRise'
<1>. SUFFICES ASSUME \A p, q \in Producers : p = q,
                     Inv, NumbersRise, [Next]_vars
              PROVE  NumbersRise'
  OBVIOUS
<1>1. /\ next_video_sequence \in Nat
      /\ send_queue \in Seq(Nat) /\ sent \in Seq(Nat) /\ writing \in Seq(Nat)
      /\ prodPc \in [Producers -> {"idle", "push"}]
      /\ held \in [Producers -> Nat]
      /\ \A p \in Producers : held[p] \in Nat
      /\ writing # <<>> <=> senderPc = "write"
  BY WritingIsSeq, SendQueueAssumption DEF Inv, TypeOK, Packet
<1>. USE <1>1 DEF prodVars, queueVars, senderVars, stopVars
<1>2. CASE UNCHANGED vars
  BY <1>2 DEF NumbersRise, BeforeAll, vars
<1>3. ASSUME NEW p \in Producers, Emit(p) PROVE NumbersRise'
  <2>1. BeforeAll(next_video_sequence + 1)
    BY DEF NumbersRise, BeforeAll, Below
  <2>. QED  BY <1>3, <2>1 DEF Emit, NumbersRise, BeforeAll
<1>4. ASSUME NEW p \in Producers, PushBlocks(p) \/ PushDropped(p)
      PROVE  NumbersRise'
  BY <1>4 DEF PushBlocks, PushDropped, PushReturns, NumbersRise, BeforeAll
<1>5. ASSUME NEW p \in Producers, PushQueued(p) PROVE NumbersRise'
  <2>1. /\ send_queue' = Append(send_queue, held[p])
        /\ held[p] < next_video_sequence
        /\ BeforeAll(held[p])
        /\ \A q \in Producers : prodPc'[q] = "idle"
        /\ UNCHANGED <<next_video_sequence, sent, writing>>
    BY <1>5 DEF PushQueued, PushReturns, NumbersRise
  <2>. QED  BY <2>1, AddLast DEF NumbersRise, BeforeAll
<1>6. CASE PopTakes
  <2>1. /\ send_queue # <<>>
        /\ send_queue' = Tail(send_queue)
        /\ writing' = <<Head(send_queue)>>
        /\ UNCHANGED <<next_video_sequence, prodPc, held, sent>>
    BY <1>6 DEF PopTakes
  <2>. QED  BY <2>1, TakeFirst DEF NumbersRise, BeforeAll
<1>7. CASE WriteOk
  <2>1. PICK n \in Nat : writing = <<n>>
    BY <1>7 DEF WriteOk, Inv, TypeOK, Packet
  <2>2. sent' = Append(sent, n) /\ writing' = <<>>
    BY <1>7, <2>1 DEF WriteOk
  <2>3. Below(sent, n) /\ \A m \in Nat : Below(writing, m) => n < m
    <3>1. DOMAIN <<n>> = {1} /\ <<n>>[1] = n
      OBVIOUS
    <3>. QED  BY <2>1, <3>1 DEF NumbersRise, Before, Below
  <2>4. Before(sent', send_queue)
    BY <2>1, <2>2, AddLast, <2>3 DEF NumbersRise
  <2>5. Before(sent', writing') /\ \A m \in Nat : Below(writing', m)
    BY <2>2 DEF Before, Below
  <2>6. Before(writing', send_queue)
    BY <2>2 DEF Before
  <2>7. UNCHANGED <<next_video_sequence, prodPc, held, send_queue>>
    BY <1>7 DEF WriteOk
  <2>. QED
    BY <2>2, <2>3, <2>4, <2>5, <2>6, <2>7, AddLast DEF NumbersRise, BeforeAll
<1>8. CASE WriteFails
  <2>1. writing' = <<>> /\ UNCHANGED <<next_video_sequence, prodPc, held, send_queue, sent>>
    BY <1>8 DEF WriteFails
  <2>. QED  BY <2>1 DEF NumbersRise, BeforeAll, Before, Below
<1>9. CASE \/ \E t \in Threads : SpuriousWakeup(t)
           \/ SendLoopTest \/ PopBlocks \/ PopLeaves
           \/ ConnectionLost \/ MarkFailed \/ MarkFailedNotify
           \/ Stop \/ StopNotify \/ StopClose \/ StopJoin
  <2>1. UNCHANGED <<next_video_sequence, prodPc, held, send_queue, writing, sent>>
    BY <1>9
    DEF SpuriousWakeup, SendLoopTest, PopBlocks, PopLeaves, ConnectionLost,
        MarkFailed, MarkFailedNotify, Stop, StopNotify, StopClose, StopJoin
  <2>. QED  BY <2>1 DEF NumbersRise, BeforeAll
<1>. QED
  BY <1>2, <1>3, <1>4, <1>5, <1>6, <1>7, <1>8, <1>9 DEF Next, Push, Pop

(* The pipeline starts with no packet anywhere.                            *)
LEMMA InitNumbersRise == Init => NumbersRise
BY DEF Init, NumbersRise, BeforeAll, Rising, Before, Below

(* With one callback thread the sequence numbers on the wire increase:     *)
(* packets may be dropped on the way, but none overtakes another.          *)
THEOREM WireNumbersRise ==
  ASSUME \A p, q \in Producers : p = q
  PROVE  Spec => []Rising(sent)
<1>1. NumbersRise => Rising(sent)
  BY DEF NumbersRise
<1>. QED
  BY <1>1, InitNumbersRise, NextNumbersRise, InvAlways, PTL DEF Spec
=============================================================================
