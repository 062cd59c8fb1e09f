--------------------------- MODULE RtpSinkProofs ---------------------------
(***************************************************************************)
(* Proofs about RtpSink for every number of buffers and binder threads,    *)
(* every modulus of the sequence numbers and every bound of the network:   *)
(* what the renderer promises whatever packets it is given, and that the   *)
(* two threads that work for it leave nothing undone.                      *)
(*                                                                         *)
(* Of the sender's order: the numbers a source extends are the sender's    *)
(* positions moved by one constant (Numbering), as long as the thresholds  *)
(* leave room in the modulus (Wide).  Then nothing new is far enough from  *)
(* the last packet to be taken for an old one, and what is shown comes in  *)
(* the order in which it was sent.                                         *)
(***************************************************************************)
EXTENDS RtpSink, SequenceTheorems, TLAPS

\* The lock belongs to the thread that works; before the player was started it has given
\* no buffer.
LockOwned ==
  /\ \A t \in Threads : pc[t] = "work" <=> streamLock = t
  /\ ~player => available = 0

\* A request is outstanding for the packet that comes next, or for none.
AskedForNext ==
  /\ requested => firstFailed # "fresh"
  /\ asked <= lastDequeued + 1
  /\ asked = lastDequeued + 1 => requested

IInv == TypeOK /\ LockOwned /\ QueueSorted /\ NoMissedWork /\ AskedForNext
-----------------------------------------------------------------------------
(* The sequence numbers. *)

LEMMA SeqNoMod == ASSUME NEW x \in Int PROVE x % SeqMod \in SeqNo
  BY SourceAssumption DEF SeqNo

\* A new source, and updateSeq, give a source.
LEMMA NewSourceType == ASSUME NEW seq \in SeqNo PROVE NewSource(seq) \in Source
  BY SourceAssumption, SeqNoMod DEF NewSource, Source, SeqNo, MinSequential

\* One member at a time.
LEMMA SetMaxSeq == ASSUME NEW s \in Source, NEW seq \in SeqNo PROVE [s EXCEPT !.maxSeq = seq] \in Source
  BY DEF Source
LEMMA SetProbation ==
  ASSUME NEW s \in Source, NEW n \in 0..MinSequential PROVE [s EXCEPT !.probation = n] \in Source
  BY DEF Source
LEMMA SetCycles == ASSUME NEW s \in Source, NEW n \in Nat PROVE [s EXCEPT !.cycles = n] \in Source
  BY DEF Source
LEMMA SetBadSeq ==
  ASSUME NEW s \in Source, NEW n \in 0..(SeqMod + 1) PROVE [s EXCEPT !.badSeq = n] \in Source
  BY DEF Source

LEMMA UpdateSeqType ==
  ASSUME NEW s \in Source, NEW seq \in SeqNo
  PROVE  UpdateSeq(s, seq) \in Source
  <1>1. (seq + 1) % SeqMod \in 0..(SeqMod + 1)
    BY SeqNoMod, SourceAssumption DEF SeqNo
  <1>a. s.cycles \in Nat /\ s.probation \in 0..2
    BY DEF Source, MinSequential
  <1>b. InitSeq(s, seq) \in Source
    <2>1. InitSeq(s, seq) = [[[s EXCEPT !.maxSeq = seq] EXCEPT !.cycles = 0]
                               EXCEPT !.badSeq = SeqMod + 1]
      BY DEF InitSeq, Source
    <2>2. SeqMod + 1 \in 0..(SeqMod + 1) /\ 0 \in Nat
      BY SourceAssumption
    <2> QED
      <3>1. [s EXCEPT !.maxSeq = seq] \in Source
        BY SetMaxSeq
      <3>2. [[s EXCEPT !.maxSeq = seq] EXCEPT !.cycles = 0] \in Source
        BY <3>1, <2>2, SetCycles
      <3>3. [[[s EXCEPT !.maxSeq = seq] EXCEPT !.cycles = 0] EXCEPT !.badSeq = SeqMod + 1] \in Source
        BY <3>2, <2>2, SetBadSeq
      <3> QED
        BY <3>3, <2>1
  <1>2. ASSUME s.probation > 0 PROVE OnProbation(s, seq) \in Source
    <2>1. \A n \in 0..2 : [s EXCEPT !.probation = n, !.maxSeq = seq] \in Source
      <3>1. ASSUME NEW n \in 0..2
            PROVE  [s EXCEPT !.probation = n, !.maxSeq = seq]
                     = [[s EXCEPT !.probation = n] EXCEPT !.maxSeq = seq]
        BY DEF Source
      <3> QED
        BY <3>1, SetProbation, SetMaxSeq DEF MinSequential
    <2>2. [InitSeq(s, seq) EXCEPT !.probation = 0] \in Source
      <3>1. 0 \in 0..MinSequential
        BY DEF MinSequential
      <3> QED
        BY <3>1, <1>b, SetProbation
    <2>3. s.probation - 1 \in 0..2 /\ MinSequential - 1 \in 0..2
      BY <1>2, <1>a DEF MinSequential
    <2>4. CASE ~InSequence(s, seq)
      BY <2>4, <2>1, <2>3 DEF OnProbation
    <2>5. CASE InSequence(s, seq) /\ s.probation = 1
      BY <2>5, <2>2 DEF OnProbation
    <2>6. CASE InSequence(s, seq) /\ s.probation # 1
      BY <2>6, <2>1, <2>3 DEF OnProbation
    <2> QED
      BY <2>4, <2>5, <2>6
  <1>3. Advance(s, seq) \in Source
    <2>1. s.cycles + SeqMod \in Nat
      BY <1>a, SourceAssumption
    <2> QED
      BY <2>1, <1>a DEF Advance, Source
  <1>4. Resync(s, seq) \in Source
    BY <1>b DEF Resync
  <1>5. NoteJump(s, seq) \in Source
    BY <1>1 DEF NoteJump, Source
  <1>6. s.probation \in 0..2
    BY DEF Source, MinSequential
  <1> QED
    BY <1>2, <1>3, <1>4, <1>5, <1>6 DEF UpdateSeq
-----------------------------------------------------------------------------
(* The queue. *)

\* A new packet goes behind smaller and before greater ones.
LEMMA InsertSorted ==
  ASSUME packets \in Seq(Packet), QueueSorted, NEW p \in Packet,
         NEW i \in 0..Len(packets), Follows(p, i)
  PROVE  /\ Insert(p, i) \in Seq(Packet)
         /\ Len(Insert(p, i)) = Len(packets) + 1
         /\ \A k \in 1..(Len(packets) + 1) : \A j \in 1..(k - 1) :
              Insert(p, i)[j].ext < Insert(p, i)[k].ext
  <1>1. \A k \in 1..(Len(packets) + 1) :
          (IF k <= i THEN packets[k] ELSE IF k = i + 1 THEN p ELSE packets[k - 1]) \in Packet
    OBVIOUS
  <1>2. Insert(p, i) \in [1..(Len(packets) + 1) -> Packet]
    BY <1>1 DEF Insert
  <1>3. Insert(p, i) \in Seq(Packet)
    BY <1>2, SeqDef
  <1>4. Len(Insert(p, i)) = Len(packets) + 1
    BY <1>3, <1>2
  <1>5. /\ p.ext \in Nat
        /\ \A k \in 1..Len(packets) : packets[k].ext \in Nat
    <2>1. \A k \in 1..Len(packets) : packets[k] \in Packet
      OBVIOUS
    <2> QED
      BY <2>1 DEF Packet
  <1>6. \A k \in 1..i : packets[k].ext < p.ext
    BY <1>5 DEF Follows, QueueSorted
  <1>7. \A k \in (i + 1)..Len(packets) : p.ext < packets[k].ext
    BY <1>5 DEF Follows
  <1>8. ASSUME NEW k \in 1..(Len(packets) + 1), NEW j \in 1..(k - 1)
        PROVE  Insert(p, i)[j].ext < Insert(p, i)[k].ext
    <2>1. CASE k <= i
      BY <2>1 DEF Insert, QueueSorted
    <2>2. CASE k = i + 1
      BY <2>2, <1>6 DEF Insert
    <2>3. CASE k > i + 1
      BY SMTT(30), <2>3, <1>7 DEF Insert, QueueSorted
    <2> QED
      BY <2>1, <2>2, <2>3
  <1> QED
    BY <1>3, <1>4, <1>8

\* What is left when the first packets are taken away.
LEMMA RestSorted ==
  ASSUME packets \in Seq(Packet), QueueSorted, NEW d \in 0..Len(packets)
  PROVE  /\ Rest(d) \in Seq(Packet)
         /\ Len(Rest(d)) = Len(packets) - d
         /\ \A k \in 1..(Len(packets) - d) : Rest(d)[k] = packets[k + d]
         /\ \A k \in 1..(Len(packets) - d) : \A j \in 1..(k - 1) : Rest(d)[j].ext < Rest(d)[k].ext
  <1>1. \A k \in 1..(Len(packets) - d) : packets[k + d] \in Packet
    OBVIOUS
  <1>2. Rest(d) \in [1..(Len(packets) - d) -> Packet]
    BY <1>1 DEF Rest
  <1>3. Rest(d) \in Seq(Packet)
    BY <1>2, SeqDef
  <1>4. Len(Rest(d)) = Len(packets) - d
    BY <1>3, <1>2
  <1>5. \A k \in 1..(Len(packets) - d) : Rest(d)[k] = packets[k + d]
    BY DEF Rest
  <1>6. \A k \in 1..(Len(packets) - d) : \A j \in 1..(k - 1) : Rest(d)[j].ext < Rest(d)[k].ext
    BY <1>5 DEF QueueSorted
  <1> QED
    BY <1>3, <1>4, <1>5, <1>6
-----------------------------------------------------------------------------
(* The invariant holds at the start, and each action keeps it. *)

LEMMA InitIInv == Init => IInv
  <1> SUFFICES ASSUME Init PROVE IInv
    OBVIOUS
  <1> USE DEF Init, RendererInit
  <1>1. TypeOK
    <2>1. RendererTypeOK
      <3>1. mailbox \in Seq(Message) /\ packets \in Seq(Packet)
        OBVIOUS
      <3>2. pc \in [Threads -> {"idle", "wait", "work"}] /\ available \in 0..NumBuffers
        BY BuffersAssumption
      <3> QED
        BY <3>1, <3>2 DEF RendererTypeOK
    <2>2. sources \in [Ssrc -> Source \cup {NoSsrc}]
      OBVIOUS
    <2>3. sender \in [ssrc : Ssrc, first : Starts, from : 0..MaxPos]
      BY SinkAssumption
    <2> QED
      BY <2>1, <2>2, <2>3, SinkAssumption DEF TypeOK
  <1>2. LockOwned
    BY ThreadsAssumption DEF LockOwned, Threads
  <1>3. QueueSorted /\ NoMissedWork
    BY DEF QueueSorted, NoMissedWork
  <1>4. AskedForNext
    BY DEF AskedForNext
  <1> QED
    BY <1>1, <1>2, <1>3, <1>4 DEF IInv

\* The network and RTPSink change nothing of the renderer but its mailbox.
LEMMA RendererUntouched ==
  ASSUME IInv, UNCHANGED rendererVars, mailbox' \in Seq(Message)
  PROVE  RendererTypeOK' /\ LockOwned' /\ QueueSorted' /\ NoMissedWork' /\ AskedForNext'
  BY DEF IInv, TypeOK, RendererTypeOK, LockOwned, QueueSorted, NoMissedWork, AskedForNext,
         rendererVars, orderVars, workVars, historyVars, Threads, Packet, Message

LEMMA RestartKeeps == IInv /\ Restart => IInv'
  <1> SUFFICES ASSUME IInv, Restart PROVE IInv'
    OBVIOUS
  <1> USE DEF Restart, IInv
  <1>1. mailbox' \in Seq(Message)
    BY DEF TypeOK, RendererTypeOK
  <1>2. RendererTypeOK' /\ LockOwned' /\ QueueSorted' /\ NoMissedWork' /\ AskedForNext'
    BY <1>1, RendererUntouched
  <1>3. newest + 1 \in 0..MaxPos
    BY SinkAssumption DEF TypeOK
  <1>4. sender' \in [ssrc : Ssrc, first : Starts, from : 0..MaxPos]
    BY <1>3
  <1>5. restarts' \in 0..MaxRestarts
    BY SinkAssumption DEF TypeOK
  <1>6. TypeOK'
    BY <1>2, <1>4, <1>5 DEF TypeOK, sinkVars
  <1> QED
    BY <1>2, <1>6

LEMMA OnDatagramKeeps == ASSUME NEW n \in 0..MaxPos PROVE IInv /\ OnDatagram(n) => IInv'
  <1> SUFFICES ASSUME IInv, OnDatagram(n) PROVE IInv'
    OBVIOUS
  <1> USE DEF IInv
  <1> DEFINE seq == NumberOf(n) % SeqMod
             id == sender.ssrc
             old == sources[id]
             new == IF old = NoSsrc THEN NewSource(seq) ELSE UpdateSeq(old, seq)
             message == QueueBuffer([ext |-> Extended(new, seq), pos |-> n])
  <1>1. NumberOf(n) \in Int /\ n \in Nat
    <2>1. sender.first \in Starts /\ sender.from \in 0..MaxPos
      BY DEF TypeOK
    <2> QED
      <3>1. sender.first \in Int /\ sender.from \in Int /\ n \in Int
        <4>1. Starts \subseteq Int
          BY SinkAssumption DEF SeqNo
        <4>2. sender.first \in Int
          BY <2>1, <4>1
        <4>3. sender.from \in Int
          BY <2>1
        <4> QED
          BY <4>2, <4>3
      <3> QED
        BY <3>1 DEF NumberOf
  <1>2. seq \in SeqNo
    BY <1>1, SeqNoMod
  <1>3. id \in Ssrc /\ old \in Source \cup {NoSsrc}
    BY DEF TypeOK
  <1>4. new \in Source
    <2>1. CASE old = NoSsrc
      BY <2>1, <1>2, NewSourceType
    <2>2. CASE old # NoSsrc
      BY <2>2, <1>2, <1>3, UpdateSeqType
    <2> QED
      BY <2>1, <2>2
  <1>5. message \in Message
    <2>1. Extended(new, seq) \in Nat
      <3>1. new.cycles \in Nat
        BY <1>4 DEF Source
      <3> HIDE DEF new, seq
      <3> QED
        BY <3>1, <1>2, SourceAssumption DEF Extended, SeqNo
    <2> HIDE DEF new, seq
    <2> QED
      BY <2>1, <1>1 DEF Message, QueueBuffer, Packet
  <1> HIDE DEF seq, id, old, new, message
  <1>6. /\ sources' = [sources EXCEPT ![id] = new]
        /\ renderer' \in {id, renderer}
        /\ mailbox' \in {mailbox, Append(mailbox, message)}
        /\ UNCHANGED <<rendererVars, open>> /\ Comes(n)
    BY DEF OnDatagram, seq, id, old, new, message
  <1>7. mailbox' \in Seq(Message)
    <2>1. mailbox \in Seq(Message)
      BY DEF TypeOK, RendererTypeOK
    <2>2. Append(mailbox, message) \in Seq(Message)
      BY <2>1, <1>5
    <2> QED
      BY <2>1, <2>2, <1>6
  <1>8. RendererTypeOK' /\ LockOwned' /\ QueueSorted' /\ NoMissedWork' /\ AskedForNext'
    BY <1>6, <1>7, RendererUntouched
  <1>9. sources' \in [Ssrc -> Source \cup {NoSsrc}] /\ renderer' \in Ssrc \cup {NoSsrc}
    BY <1>3, <1>4, <1>6 DEF TypeOK
  <1>10. /\ newest' \in -1..MaxPos /\ stray' \in 0..MaxStray
         /\ clean' \in BOOLEAN /\ UNCHANGED <<sender, restarts>>
    <2>1. stray' \in 0..MaxStray
      BY <1>6, SinkAssumption DEF Comes, TypeOK
    <2>2. newest' \in -1..MaxPos
      BY <1>6, SinkAssumption DEF Comes, TypeOK
    <2>3. clean' \in BOOLEAN
      BY <1>6 DEF Comes
    <2> QED
      BY <1>6, <2>1, <2>2, <2>3 DEF Comes
  <1>11. TypeOK'
    BY <1>6, <1>8, <1>9, <1>10 DEF TypeOK
  <1> QED
    BY <1>8, <1>11

LEMMA OnPacketLostKeeps == IInv /\ OnPacketLost => IInv'
  <1> SUFFICES ASSUME IInv, OnPacketLost PROVE IInv'
    OBVIOUS
  <1> USE DEF IInv, OnPacketLost
  <1>1. mailbox' \in Seq(Message)
    BY DEF TypeOK, RendererTypeOK
  <1>2. RendererTypeOK' /\ LockOwned' /\ QueueSorted' /\ NoMissedWork' /\ AskedForNext'
    BY <1>1, RendererUntouched
  <1> QED
    BY <1>2 DEF TypeOK, sinkVars, netVars

LEMMA OnErrorKeeps == IInv /\ OnError => IInv'
  <1> SUFFICES ASSUME IInv, OnError PROVE IInv'
    OBVIOUS
  <1> USE DEF IInv, OnError
  <1>1. mailbox' \in Seq(Message)
    BY DEF TypeOK, RendererTypeOK
  <1>2. RendererTypeOK' /\ LockOwned' /\ QueueSorted' /\ NoMissedWork' /\ AskedForNext'
    BY <1>1, RendererUntouched
  <1> QED
    BY <1>2 DEF TypeOK, netVars
-----------------------------------------------------------------------------
(* The renderer's actions.  They leave the sink and the network alone. *)

LEMMA RendersKeepsRest ==
  ASSUME IInv, Renders, RendererTypeOK'
  PROVE  TypeOK'
  BY DEF IInv, TypeOK, Renders, sinkVars, netVars

LEMMA OnQueueBufferKeeps ==
  ASSUME IInv, OnQueueBuffer
  PROVE  RendererTypeOK' /\ LockOwned' /\ QueueSorted' /\ NoMissedWork' /\ AskedForNext'
  <1> USE DEF IInv, OnQueueBuffer, TypeOK
  <1>1. mailbox \in Seq(Message) /\ packets \in Seq(Packet)
    BY DEF RendererTypeOK
  <1>2. Head(mailbox).packet \in Packet /\ mailbox' \in Seq(Message)
    BY <1>1 DEF Message
  <1>3. packets' \in Seq(Packet) /\ QueueSorted'
    <2>1. CASE UNCHANGED packets
      BY <1>1, <2>1 DEF QueueSorted
    <2>2. ASSUME NEW i \in 0..Len(packets), Follows(Head(mailbox).packet, i),
                 packets' = Insert(Head(mailbox).packet, i)
          PROVE  packets' \in Seq(Packet) /\ QueueSorted'
      BY <1>1, <1>2, <2>2, InsertSorted DEF QueueSorted
    <2> QED
      BY <2>1, <2>2
  <1>4. pc' \in [Threads -> {"idle", "wait", "work"}] /\ player' \in BOOLEAN
    BY DEF WorksAfterQueueing, RendererTypeOK
  <1>5. RendererTypeOK'
    BY <1>2, <1>3, <1>4 DEF RendererTypeOK, orderVars, historyVars
  <1>6. LockOwned'
    BY ThreadsAssumption DEF LockOwned, WorksAfterQueueing, RendererTypeOK, Threads
  <1>7. NoMissedWork'
    BY DEF NoMissedWork, WorksAfterQueueing, LockOwned, RendererTypeOK, Threads
  <1>8. AskedForNext'
    BY DEF AskedForNext, orderVars, historyVars
  <1> QED
    BY <1>3, <1>5, <1>6, <1>7, <1>8

LEMMA OnBufferAvailableKeeps ==
  ASSUME IInv, NEW t \in Binder, OnBufferAvailable(t)
  PROVE  RendererTypeOK' /\ LockOwned' /\ QueueSorted' /\ NoMissedWork' /\ AskedForNext'
  <1> USE DEF IInv, OnBufferAvailable, TypeOK
  <1>1. available' \in 0..NumBuffers
    BY BuffersAssumption DEF RendererTypeOK
  <1>2. RendererTypeOK'
    BY <1>1 DEF RendererTypeOK, orderVars, historyVars
  <1>3. LockOwned'
    BY ThreadsAssumption DEF LockOwned, RendererTypeOK, Threads
  <1>4. pc'[t] # "idle" /\ t \in Threads
    BY DEF RendererTypeOK, Threads
  <1>5. NoMissedWork'
    BY <1>4 DEF NoMissedWork
  <1> QED
    BY <1>2, <1>3, <1>5 DEF QueueSorted, AskedForNext, orderVars, historyVars

LEMMA EnterKeeps ==
  ASSUME IInv, NEW t \in Threads, Enter(t)
  PROVE  RendererTypeOK' /\ LockOwned' /\ QueueSorted' /\ NoMissedWork' /\ AskedForNext'
  <1> USE DEF IInv, Enter, TypeOK
  <1>1. RendererTypeOK'
    BY DEF RendererTypeOK, orderVars, historyVars
  <1>2. LockOwned'
    BY ThreadsAssumption DEF LockOwned, RendererTypeOK, Threads
  <1>3. pc'[t] = "work"
    BY DEF RendererTypeOK
  <1>4. NoMissedWork'
    BY <1>3 DEF NoMissedWork
  <1> QED
    BY <1>1, <1>2, <1>4 DEF QueueSorted, AskedForNext, orderVars, historyVars

\* A thread that leaves gives the lock back.
LEMMA LeaveKeepsLock ==
  ASSUME IInv, NEW t \in Threads, pc[t] = "work", Leave(t)
  PROVE  /\ LockOwned'
         /\ pc' \in [Threads -> {"idle", "wait", "work"}]
         /\ streamLock' \in Threads \cup {NoThread}
         /\ UNCHANGED <<player, available>>
  BY ThreadsAssumption DEF IInv, TypeOK, RendererTypeOK, LockOwned, Leave, Threads

LEMMA NoBufferKeeps ==
  ASSUME IInv, NEW t \in Threads, NoBuffer(t)
  PROVE  RendererTypeOK' /\ LockOwned' /\ QueueSorted' /\ NoMissedWork' /\ AskedForNext'
  <1> USE DEF IInv, NoBuffer, TypeOK
  <1>1. /\ LockOwned'
        /\ pc' \in [Threads -> {"idle", "wait", "work"}]
        /\ streamLock' \in Threads \cup {NoThread}
        /\ UNCHANGED <<player, available>>
    BY LeaveKeepsLock
  <1>2. RendererTypeOK'
    BY <1>1 DEF RendererTypeOK, orderVars, historyVars
  <1>3. NoMissedWork'
    BY <1>1 DEF NoMissedWork
  <1> QED
    BY <1>1, <1>2, <1>3 DEF QueueSorted, AskedForNext, orderVars, historyVars

LEMMA FindsNothingKeeps ==
  ASSUME IInv, NEW t \in Threads, FindsNothing(t)
  PROVE  RendererTypeOK' /\ LockOwned' /\ QueueSorted' /\ NoMissedWork' /\ AskedForNext'
  <1> USE DEF IInv, FindsNothing, TypeOK
  <1>1. /\ LockOwned'
        /\ pc' \in [Threads -> {"idle", "wait", "work"}]
        /\ streamLock' \in Threads \cup {NoThread}
        /\ UNCHANGED <<player, available>>
    BY LeaveKeepsLock
  <1>2. packets' = <<>> /\ packets' \in Seq(Packet)
    OBVIOUS
  <1>3. lateDrop' \in BOOLEAN
    BY DEF RecordsDrop
  <1>4. RendererTypeOK'
    BY <1>1, <1>2, <1>3 DEF RendererTypeOK
  <1>5. NoMissedWork' /\ QueueSorted'
    BY <1>2 DEF NoMissedWork, QueueSorted
  <1>6. AskedForNext'
    BY DEF AskedForNext
  <1> QED
    BY <1>1, <1>4, <1>5, <1>6

\* What is delivered is greater than what was delivered before.
LEMMA DeliversKeeps ==
  ASSUME IInv, NEW t \in Threads, NEW d \in 0..Len(packets),
         pc[t] = "work", available > 0, Dropped(d), d < Len(packets),
         RecordsDrop(d), Delivers(t, d)
  PROVE  /\ RendererTypeOK' /\ LockOwned' /\ QueueSorted' /\ NoMissedWork' /\ AskedForNext'
         /\ lastDequeued' \in Int /\ lastDequeued' > lastDequeued
  <1> USE DEF IInv, TypeOK, Delivers
  <1>1. packets \in Seq(Packet) /\ packets[d + 1] \in Packet /\ d + 1 \in 0..Len(packets)
    BY DEF RendererTypeOK
  <1>2. packets[d + 1].ext \in Nat /\ packets[d + 1].pos \in Nat
    BY <1>1 DEF Packet
  <1>3. packets' \in Seq(Packet) /\ QueueSorted'
    BY <1>1, RestSorted DEF QueueSorted
  <1>4. lastDequeued' \in Nat /\ lastDequeued' > lastDequeued
    BY <1>2 DEF Dropped, Old, RendererTypeOK
  <1>5. lateDrop' \in BOOLEAN /\ available' \in 0..NumBuffers
    BY BuffersAssumption DEF RecordsDrop, RendererTypeOK
  <1>6. RendererTypeOK'
    BY <1>2, <1>3, <1>4, <1>5 DEF RendererTypeOK
  <1>7. NoMissedWork'
    BY DEF NoMissedWork
  <1>8. AskedForNext'
    <2>1. /\ asked \in Int /\ lastDequeued \in Int /\ lastDequeued' \in Int
          /\ asked <= lastDequeued + 1 /\ asked' = asked /\ ~requested'
      BY <1>4 DEF RendererTypeOK, AskedForNext
    <2> QED
      BY <1>4, <2>1 DEF AskedForNext
  <1>9. LockOwned'
    BY DEF LockOwned, RendererTypeOK
  <1> QED
    BY <1>3, <1>4, <1>6, <1>7, <1>8, <1>9

LEMMA WaitsKeeps ==
  ASSUME IInv, NEW t \in Threads, NEW d \in 0..Len(packets), Waits(t, d)
  PROVE  RendererTypeOK' /\ LockOwned' /\ QueueSorted' /\ NoMissedWork' /\ AskedForNext'
  <1> USE DEF IInv, TypeOK
  <1>1. /\ LockOwned'
        /\ pc' \in [Threads -> {"idle", "wait", "work"}]
        /\ streamLock' \in Threads \cup {NoThread}
        /\ UNCHANGED <<player, available>>
    BY LeaveKeepsLock DEF Waits
  <1>2. packets \in Seq(Packet) /\ packets' = Rest(d) /\ d < Len(packets)
    BY DEF RendererTypeOK, Waits
  <1>3. packets' \in Seq(Packet) /\ QueueSorted'
    BY <1>2, RestSorted DEF QueueSorted
  <1>4. mailbox' \in Seq(Message)
    <2>1. mailbox \in Seq(Message)
      BY DEF RendererTypeOK
    <2>2. (lastDequeued + 1) % SeqNumbers \in Nat
      BY SinkAssumption, SourceAssumption DEF RendererTypeOK
    <2>3. PacketLost((lastDequeued + 1) % SeqNumbers) \in Message
      BY <2>2 DEF PacketLost, Message
    <2>4. Append(mailbox, PacketLost((lastDequeued + 1) % SeqNumbers)) \in Seq(Message)
      BY <2>1, <2>3
    <2> QED
      BY <2>1, <2>4 DEF Waits
  <1>5. lateDrop' \in BOOLEAN
    BY DEF RecordsDrop, Waits
  <1>6. RendererTypeOK'
    <2>1. /\ firstFailed' \in {"fresh", "waiting", "expired"} /\ requested' \in BOOLEAN
          /\ UNCHANGED <<lastDequeued, shown>>
      BY DEF RendererTypeOK, Waits
    <2>2. asked' \in Nat \cup {-1}
      BY DEF RendererTypeOK, Waits
    <2> QED
      BY <1>1, <1>3, <1>4, <1>5, <2>1, <2>2 DEF RendererTypeOK
  <1>7. NoMissedWork'
    <2>1. /\ lastDequeued >= 0 /\ packets[d + 1].ext > lastDequeued + 1
          /\ lastDequeued' = lastDequeued
      <3>1. packets[d + 1] \in Packet
        BY <1>2
      <3>2. /\ ~Old(packets[d + 1]) /\ ~InOrder(packets[d + 1])
            /\ lastDequeued' = lastDequeued /\ lastDequeued \in Int
        BY DEF Waits, Dropped, RendererTypeOK
      <3>3. packets[d + 1].ext \in Nat
        BY <3>1 DEF Packet
      <3> QED
        BY <3>2, <3>3 DEF InOrder, Old
    <2>2. \A i \in 1..(Len(packets) - d) : packets[i + d] \in Packet
      BY <1>2
    <2>3. ASSUME NEW i \in 1..(Len(packets) - d)
          PROVE  packets[i + d].ext >= packets[d + 1].ext
      <3>1. packets[i + d].ext \in Nat
        BY <2>2 DEF Packet
      <3>2. CASE i = 1
        BY <3>1, <3>2
      <3>3. CASE i > 1
        <4>1. i + d \in 1..Len(packets) /\ d + 1 \in 1..(i + d - 1)
          BY <1>2, <3>3
        <4>2. packets[d + 1].ext < packets[i + d].ext
          BY <4>1 DEF QueueSorted
        <4>3. packets[d + 1].ext \in Nat
          <5>1. packets[d + 1] \in Packet
            BY <1>2
          <5> QED
            BY <5>1 DEF Packet
        <4> QED
          BY <3>1, <4>2, <4>3
      <3> QED
        BY <3>2, <3>3
    <2>4. Len(packets') = Len(packets) - d
          /\ \A i \in 1..(Len(packets) - d) : packets'[i] = packets[i + d]
      BY <1>2, RestSorted
    <2>5. \A i \in 1..Len(packets') : packets'[i].ext # lastDequeued + 1
      <3>1. \A i \in 1..(Len(packets) - d) : packets[i + d].ext \in Nat
        BY <2>2 DEF Packet
      <3>2. lastDequeued \in Int /\ packets[d + 1].ext \in Nat
        BY <1>2, <3>1 DEF RendererTypeOK
      <3>3. \A i \in 1..(Len(packets) - d) : packets[i + d].ext # lastDequeued + 1
        BY <2>1, <2>3, <3>1, <3>2
      <3> HIDE DEF IInv, TypeOK
      <3> QED
        BY <2>4, <3>3
    <2> QED
      BY <2>1, <2>5 DEF NoMissedWork
  <1>8. AskedForNext'
    BY DEF AskedForNext, Waits, MayAsk, RendererTypeOK
  <1> QED
    BY <1>1, <1>3, <1>6, <1>7, <1>8

LEMMA RendersKeeps == ASSUME IInv, Renders PROVE IInv'
  <1>1. RendererTypeOK' /\ LockOwned' /\ QueueSorted' /\ NoMissedWork' /\ AskedForNext'
    <2>1. CASE OnQueueBuffer
      BY <2>1, OnQueueBufferKeeps
    <2>2. ASSUME NEW t \in Binder, OnBufferAvailable(t)
          PROVE  RendererTypeOK' /\ LockOwned' /\ QueueSorted' /\ NoMissedWork' /\ AskedForNext'
      BY <2>2, OnBufferAvailableKeeps
    <2>3. ASSUME NEW t \in Threads, DoesSomeWork(t)
          PROVE  RendererTypeOK' /\ LockOwned' /\ QueueSorted' /\ NoMissedWork' /\ AskedForNext'
      <3>1. CASE Enter(t)
        BY <3>1, EnterKeeps
      <3>2. CASE NoBuffer(t)
        BY <3>2, NoBufferKeeps
      <3>3. CASE FindsNothing(t)
        BY <3>3, FindsNothingKeeps
      <3>4. ASSUME NEW d \in 0..Len(packets), FindsNext(t, d) \/ Skips(t, d)
            PROVE  RendererTypeOK' /\ LockOwned' /\ QueueSorted' /\ NoMissedWork' /\ AskedForNext'
        BY <3>4, DeliversKeeps DEF FindsNext, Skips
      <3>5. ASSUME NEW d \in 0..Len(packets), Waits(t, d)
            PROVE  RendererTypeOK' /\ LockOwned' /\ QueueSorted' /\ NoMissedWork' /\ AskedForNext'
        BY <3>5, WaitsKeeps
      <3> QED
        BY <2>3, <3>1, <3>2, <3>3, <3>4, <3>5 DEF DoesSomeWork
    <2>4. CASE TimePasses
      BY <2>4 DEF TimePasses, IInv, TypeOK, RendererTypeOK, LockOwned, QueueSorted, NoMissedWork,
                  AskedForNext, workVars, historyVars
    <2> QED
      BY <2>1, <2>2, <2>3, <2>4 DEF Renders, RendererNext
  <1> QED
    BY <1>1, RendersKeepsRest DEF IInv

LEMMA StepIInv == IInv /\ [Next]_vars => IInv'
  <1> SUFFICES ASSUME IInv, [Next]_vars PROVE IInv'
    OBVIOUS
  <1>1. CASE UNCHANGED vars
    <2>1. mailbox' \in Seq(Message)
      BY <1>1 DEF vars, IInv, TypeOK, RendererTypeOK
    <2>2. RendererTypeOK' /\ LockOwned' /\ QueueSorted' /\ NoMissedWork' /\ AskedForNext'
      BY <1>1, <2>1, RendererUntouched DEF vars
    <2> QED
      BY <1>1, <2>2 DEF vars, sinkVars, netVars, IInv, TypeOK
  <1>2. CASE Next
    BY <1>2, RestartKeeps, OnDatagramKeeps, OnPacketLostKeeps, OnErrorKeeps, RendersKeeps DEF Next
  <1> QED
    BY <1>1, <1>2

LEMMA AlwaysIInv == Spec => []IInv
  BY InitIInv, StepIInv, PTL DEF Spec

\* The types of the sink, its sources and its renderer, for every modulus and bound:
\* among them that mIndicesAvailable never holds more than the player's buffers.
THEOREM TypeCorrect == Spec => []TypeOK
  <1>1. IInv => TypeOK
    BY DEF IInv
  <1> QED
    BY <1>1, AlwaysIInv, PTL

\* queueBuffer keeps mPackets in order and without duplicates, whatever comes.
THEOREM QueueAlwaysSorted == Spec => []QueueSorted
  <1>1. IInv => QueueSorted
    BY DEF IInv
  <1> QED
    BY <1>1, AlwaysIInv, PTL

\* Whatever the interleaving of the looper and any number of binder threads, none of them
\* leaves doSomeWork with the next packet in the queue and a buffer for it.
THEOREM NoWorkIsMissed == Spec => []NoMissedWork
  <1>1. IInv => NoMissedWork
    BY DEF IInv
  <1> QED
    BY <1>1, AlwaysIInv, PTL

\* A retransmission is asked for once for each packet.
THEOREM NeverAskedTwice == Spec => AskedOnce
  <1>1. ASSUME IInv, Next, Asks PROVE asked' > asked
    <2>1. mailbox \in Seq(Message)
      BY <1>1 DEF IInv, TypeOK, RendererTypeOK
    <2>2. PICK n \in SeqNo : mailbox' = Append(mailbox, PacketLost(n))
      BY <1>1 DEF Asks
    <2>3. mailbox' # mailbox /\ (mailbox # <<>> => mailbox' # Tail(mailbox))
      <3>1. Len(Append(mailbox, PacketLost(n))) = Len(mailbox) + 1
        BY <2>1
      <3>2. mailbox # <<>> => Len(Tail(mailbox)) = Len(mailbox) - 1
        BY <2>1
      <3> QED
        BY <2>1, <2>2, <3>1, <3>2
    <2>4. \A p : mailbox' # Append(mailbox, QueueBuffer(p))
      <3>1. Append(mailbox, PacketLost(n))[Len(mailbox) + 1] = PacketLost(n)
        BY <2>1
      <3>2. \A p : Append(mailbox, QueueBuffer(p))[Len(mailbox) + 1] = QueueBuffer(p)
        BY <2>1
      <3>3. \A p : QueueBuffer(p) # PacketLost(n)
        BY DEF QueueBuffer, PacketLost
      <3> QED
        BY <2>2, <3>1, <3>2, <3>3
    <2>5. ASSUME NEW t \in Threads, NEW d \in 0..Len(packets), Waits(t, d) PROVE asked' > asked
      <3>1. ~requested /\ asked' = lastDequeued + 1
        BY <2>3, <2>5 DEF Waits, MayAsk
      <3>2. asked \in Int /\ lastDequeued \in Int /\ asked <= lastDequeued + 1
            /\ asked # lastDequeued + 1
        BY <1>1, <3>1 DEF IInv, TypeOK, RendererTypeOK, AskedForNext
      <3> QED
        BY <3>1, <3>2
    <2>6. CASE Renders
      <3>1. CASE OnQueueBuffer
        BY <2>3, <3>1 DEF OnQueueBuffer
      <3>2. CASE \E t \in Binder : OnBufferAvailable(t)
        BY <2>3, <3>2 DEF OnBufferAvailable
      <3>3. ASSUME NEW t \in Threads, DoesSomeWork(t) PROVE asked' > asked
        BY <2>3, <2>5, <3>3 DEF DoesSomeWork, Enter, NoBuffer, FindsNothing, FindsNext, Skips, Delivers
      <3>4. CASE TimePasses
        BY <2>3, <3>4 DEF TimePasses
      <3> QED
        BY <2>6, <3>1, <3>2, <3>3, <3>4 DEF Renders, RendererNext
    <2>7. CASE Restart
      BY <2>3, <2>7 DEF Restart
    <2>8. ASSUME NEW k \in 0..MaxPos, OnDatagram(k) PROVE FALSE
      BY <2>3, <2>4, <2>8 DEF OnDatagram
    <2>9. CASE OnPacketLost
      BY <2>3, <2>9 DEF OnPacketLost
    <2>10. CASE OnError
      BY <2>3, <2>10 DEF OnError
    <2> QED
      BY <1>1, <2>6, <2>7, <2>8, <2>9, <2>10 DEF Next
  <1>2. ASSUME UNCHANGED vars, Asks, IInv PROVE FALSE
    <2>1. mailbox \in Seq(Message) /\ mailbox' = mailbox
      BY <1>2 DEF IInv, TypeOK, RendererTypeOK, vars
    <2>2. PICK n \in SeqNo : mailbox' = Append(mailbox, PacketLost(n))
      BY <1>2 DEF Asks
    <2>3. Len(Append(mailbox, PacketLost(n))) = Len(mailbox) + 1 /\ Len(mailbox) \in Nat
      BY <2>1
    <2> QED
      BY <2>1, <2>2, <2>3
  <1> QED
    BY <1>1, <1>2, AlwaysIInv, PTL DEF Spec, AskedOnce

\* Whatever packets come, the renderer keeps the promise of Playout: growing numbers, each
\* once, and none passed over before the wait for it has ended.
THEOREM KeepsThePromise == Spec => PlayerSpec
  <1> USE DEF Player!Next, Player!Show, Player!Wait, Player!GiveUp, Player!vars
  <1>1. Init => Player!Init
    BY DEF Init, RendererInit, Player!Init
  <1>2. ASSUME IInv, Renders PROVE [Player!Next]_(Player!vars)
    <2>1. CASE OnQueueBuffer \/ \E t \in Binder : OnBufferAvailable(t)
      BY <2>1 DEF OnQueueBuffer, OnBufferAvailable, orderVars
    <2>2. ASSUME NEW t \in Threads, DoesSomeWork(t) PROVE [Player!Next]_(Player!vars)
      <3>1. CASE Enter(t) \/ NoBuffer(t)
        BY <3>1 DEF Enter, NoBuffer, orderVars
      <3>2. CASE FindsNothing(t)
        BY <3>2 DEF FindsNothing
      <3>3. ASSUME NEW d \in 0..Len(packets), FindsNext(t, d) \/ Skips(t, d)
            PROVE  Player!Show
        <4>1. lastDequeued' \in Int /\ lastDequeued' > lastDequeued
          BY <1>2, <3>3, DeliversKeeps DEF FindsNext, Skips
        <4>2. firstFailed' = "fresh"
          BY <3>3 DEF FindsNext, Skips, Delivers
        <4>3. lastDequeued = -1 \/ lastDequeued' = lastDequeued + 1 \/ firstFailed = "expired"
          BY <1>2, <3>3 DEF FindsNext, Skips, Delivers, InOrder, IInv, TypeOK, RendererTypeOK
        <4> QED
          BY <4>1, <4>2, <4>3
      <3>4. ASSUME NEW d \in 0..Len(packets), Waits(t, d) PROVE [Player!Next]_(Player!vars)
        BY <3>4 DEF Waits
      <3> QED
        BY <2>2, <3>1, <3>2, <3>3, <3>4 DEF DoesSomeWork
    <2>3. CASE TimePasses
      BY <2>3 DEF TimePasses
    <2> QED
      BY <1>2, <2>1, <2>2, <2>3 DEF Renders, RendererNext
  <1>3. ASSUME IInv, [Next]_vars PROVE [Player!Next]_(Player!vars)
    <2>1. CASE Restart \/ OnPacketLost \/ OnError \/ \E n \in 0..MaxPos : OnDatagram(n)
      BY <2>1 DEF Restart, OnPacketLost, OnError, OnDatagram, rendererVars, orderVars
    <2>2. CASE UNCHANGED vars
      BY <2>2 DEF vars, rendererVars, orderVars
    <2> QED
      BY <1>2, <1>3, <2>1, <2>2 DEF Next
  <1> QED
    BY <1>1, <1>3, AlwaysIInv, PTL DEF Spec, PlayerSpec, Player!Spec

-----------------------------------------------------------------------------
(* As long as nothing upsets the numbering, the extended numbers are the positions of the *)
(* packets in the stream, all moved by the same distance.  First the arithmetic.          *)

LEMMA ModOfSmall ==
  ASSUME NEW x \in Int, -SeqMod < x, x < SeqMod
  PROVE  x % SeqMod = IF x >= 0 THEN x ELSE x + SeqMod
  BY SourceAssumption

LEMMA Times ==
  ASSUME NEW a \in Nat, NEW b \in Nat
  PROVE  /\ SeqMod * a \in Nat
         /\ SeqMod * (a + 1) = SeqMod * a + SeqMod
         /\ a < b => SeqMod * (a + 1) <= SeqMod * b
         /\ a + 1 < b => SeqMod * a + 2 * SeqMod <= SeqMod * b
  BY SourceAssumption

LEMMA DivMod ==
  ASSUME NEW x \in Nat
  PROVE  /\ x \div SeqMod \in Nat /\ x % SeqMod \in SeqNo
         /\ x = SeqMod * (x \div SeqMod) + (x % SeqMod)
<1>0. SeqMod \in Nat /\ SeqMod > 0
  BY SourceAssumption
<1>1. x % SeqMod = x - SeqMod * (x \div SeqMod)
  BY <1>0
<1>2. x \div SeqMod \in Int /\ x \div SeqMod >= 0
  BY <1>0
<1>3. SeqMod * (x \div SeqMod) \in Nat
  BY <1>2, Times
<1> QED
  BY <1>1, <1>2, <1>3, SeqNoMod DEF SeqNo

\* Of two numbers less than a cycle apart, the lower one first.
LEMMA NextCycle ==
  ASSUME NEW x \in Nat, NEW y \in Nat, x <= y, y - x < SeqMod
  PROVE  LET qx == x \div SeqMod   qy == y \div SeqMod
             rx == x % SeqMod      ry == y % SeqMod
         IN  \/ qy = qx /\ ry >= rx /\ ry - rx = y - x
             \/ qy = qx + 1 /\ ry < rx /\ ry - rx = y - x - SeqMod
<1> DEFINE qx == x \div SeqMod   qy == y \div SeqMod
           rx == x % SeqMod      ry == y % SeqMod
<1>1. qx \in Nat /\ qy \in Nat /\ rx \in SeqNo /\ ry \in SeqNo
      /\ x = SeqMod * qx + rx /\ y = SeqMod * qy + ry
  BY DivMod
<1> HIDE DEF qx, qy, rx, ry
<1> DEFINE px == SeqMod * qx  py == SeqMod * qy
<1>2. px \in Nat /\ py \in Nat /\ SeqMod \in Nat
  BY <1>1, Times, SourceAssumption
<1>3. /\ qy = qx => py = px 
      /\ qy = qx + 1 => py = px + SeqMod
      /\ qx + 1 < qy => px + 2 * SeqMod <= py
      /\ qy < qx => py + SeqMod <= px
  BY <1>1, Times
<1>4. x = px + rx /\ y = py + ry
  BY <1>1
<1> HIDE DEF px, py
<1>5. qy = qx \/ qy = qx + 1
  BY <1>1, <1>2, <1>3, <1>4 DEF SeqNo
<1>6. CASE qy = qx
  <2>1. py = px
    BY <1>3, <1>6
  <2>2. ry >= rx /\ ry - rx = y - x 
    BY <2>1, <1>1, <1>2, <1>4 DEF SeqNo
  <2> QED
    BY <2>1, <2>2, <1>6 DEF px, py, qx, qy, rx, ry
<1>7. CASE qy = qx + 1
  <2>1. py = px + SeqMod
    BY <1>3, <1>7
  <2>2. ry < rx /\ ry - rx = y - x - SeqMod
    BY <2>1, <1>1, <1>2, <1>4 DEF SeqNo
  <2> QED
    BY <2>1, <2>2, <1>7 DEF px, py, qx, qy, rx, ry
<1> QED
  BY <1>5, <1>6, <1>7 DEF px, py, qx, qy, rx, ry

\* Nothing that is permissible after the newest number is taken for a late one: the code has
\* 3000 + 2 * 100 <= 65536 + 2.  With a modulus of 6, a dropout of 2 and a misorder of 4 a new
\* packet is dropped.
Wide == MaxDropout + 2 * MaxMisorder <= SeqMod + 2

\* The number of a position in the stream.
SeqOf(n) == NumberOf(n) % SeqMod

\* Of two positions less than a cycle apart, the first one first.
LEMMA Positions ==
  ASSUME sender.first \in SeqNo, sender.from = 0,
         NEW a \in Nat, NEW b \in Nat, a <= b, b - a < SeqMod
  PROVE  /\ Cycle(a) \in Nat /\ Cycle(b) \in Nat /\ SeqOf(a) \in SeqNo /\ SeqOf(b) \in SeqNo
         /\ \/ Cycle(b) = Cycle(a) /\ SeqOf(b) >= SeqOf(a) /\ SeqOf(b) - SeqOf(a) = b - a
            \/ /\ Cycle(b) = Cycle(a) + 1 /\ SeqOf(b) < SeqOf(a)
               /\ SeqOf(b) - SeqOf(a) = b - a - SeqMod
<1> DEFINE x == NumberOf(a)  y == NumberOf(b)
<1>1. x \in Nat /\ y \in Nat /\ x <= y /\ y - x = b - a
  BY DEF NumberOf, SeqNo
<1>2. Cycle(a) = x \div SeqMod /\ Cycle(b) = y \div SeqMod
      /\ SeqOf(a) = x % SeqMod /\ SeqOf(b) = y % SeqMod
  BY DEF Cycle, SeqOf
<1> HIDE DEF x, y
<1>3. /\ x \div SeqMod \in Nat /\ y \div SeqMod \in Nat
      /\ x % SeqMod \in SeqNo /\ y % SeqMod \in SeqNo
  BY <1>1, DivMod
<1>4. y - x < SeqMod
  BY <1>1
<1>5. \/ /\ y \div SeqMod = x \div SeqMod /\ y % SeqMod >= x % SeqMod
         /\ (y % SeqMod) - (x % SeqMod) = y - x
      \/ /\ y \div SeqMod = (x \div SeqMod) + 1 /\ y % SeqMod < x % SeqMod
         /\ (y % SeqMod) - (x % SeqMod) = y - x - SeqMod
  BY <1>1, <1>4, NextCycle
<1> QED
  BY <1>1, <1>2, <1>3, <1>5

\* The source has the numbers of the stream: up to k, its extended numbers are positions.
SourceNumbered(s, w, k) ==
  /\ s.probation > 0 => s.cycles = 0 /\ SeqOf(w) = w + k
  /\ s.probation = 0 =>
       \E m \in 0..w : /\ w - m < MaxMisorder \/ m = w
                       /\ s.maxSeq = SeqOf(m)
                       /\ s.cycles + s.maxSeq = m + k

\* What updateSeq makes of a source that is in step with the stream.
LEMMA UpdateNumbers ==
  ASSUME Wide, sender.first \in SeqNo, sender.from = 0,
         NEW n \in Nat, NEW k \in Int, newest \in Nat,
         NEW s \in Source, s = sources[sender.ssrc], s # NoSsrc,
         SourceNumbered(s, newest, k), ~Upset(n),
         NEW new, new = UpdateSeq(s, SeqOf(n))
  PROVE  /\ SourceNumbered(new, IF n > newest THEN n ELSE newest, k)
         /\ Extended(new, SeqOf(n)) = n + k
<1> DEFINE seq == SeqOf(n)
           w == newest
           w1 == IF n > newest THEN n ELSE newest
<1>0. Cycle(n) \in Nat /\ Cycle(w) \in Nat /\ seq \in SeqNo /\ SeqOf(w) \in SeqNo
  BY Positions, SourceAssumption DEF SeqNo
<1>1. s.probation \in 0..2 /\ s.cycles \in Nat /\ s.maxSeq \in SeqNo
  BY DEF Source, MinSequential
<1>2. /\ n - w < MaxDropout /\ w - n < MaxMisorder
      /\ ~(s.probation = 0 /\ LargeJump(s, seq))
      /\ Cycle(n) >= Cycle(w)
      /\ s.probation > 0 => Cycle(n) = Cycle(w)
  <2>1. /\ ~(n - w >= MaxDropout) /\ ~(w - n >= MaxMisorder) /\ ~(Cycle(n) < Cycle(w))
        /\ ~(s.probation = 0 /\ LargeJump(s, seq))
        /\ ~(s.probation > 0 /\ Cycle(n) # Cycle(w))
    BY DEF Upset, SeqOf
  <2> QED
    BY <1>0, <2>1, SourceAssumption
<1>3. n - w < SeqMod /\ w - n < SeqMod
  BY <1>2, SourceAssumption
<1>4. CASE s.probation > 0
  <2>1. Cycle(n) = Cycle(w) /\ SeqOf(w) = w + k /\ s.cycles = 0
    BY <1>2, <1>4 DEF SourceNumbered
  <2>2. seq = n + k
    <3>1. CASE n >= w
      <4>1. SeqOf(n) - SeqOf(w) = n - w
        BY <1>0, <1>3, <2>1, <3>1, Positions
      <4> QED
        BY <1>0, <2>1, <4>1 DEF SeqNo
    <3>2. CASE n < w
      <4>1. SeqOf(w) - SeqOf(n) = w - n
        BY <1>0, <1>3, <2>1, <3>2, Positions
      <4> QED
        BY <1>0, <2>1, <4>1 DEF SeqNo
    <3> QED
      BY <3>1, <3>2
  <2>3. SeqOf(w1) = w1 + k
    BY <2>1, <2>2
  <2>4. new = OnProbation(s, seq)
    BY <1>4 DEF UpdateSeq
  <2>5. new.cycles = 0
    BY <2>1, <2>4 DEF OnProbation, InitSeq, Source
  <2>6. new.probation = 0 => new.maxSeq = seq
    BY <1>4, <2>4 DEF OnProbation, InitSeq, Source, MinSequential
  <2>7. Extended(new, seq) = n + k
    BY <1>0, <2>2, <2>5 DEF Extended, SeqNo
  <2>8. n \in 0..w1 /\ (w1 - n < MaxMisorder \/ n = w1)
    BY <1>2
  <2> HIDE DEF w1
  <2>9. ASSUME new.probation = 0
        PROVE  new.maxSeq = SeqOf(n) /\ new.cycles + new.maxSeq = n + k
    BY <1>0, <2>2, <2>5, <2>6, <2>9 DEF SeqNo
  <2>10. SourceNumbered(new, w1, k)
    BY <2>3, <2>5, <2>8, <2>9 DEF SourceNumbered
  <2> QED
    BY <2>7, <2>10 DEF w1
<1>5. CASE s.probation = 0
  <2>1. PICK m \in 0..w : /\ w - m < MaxMisorder \/ m = w
                          /\ s.maxSeq = SeqOf(m)
                          /\ s.cycles + s.maxSeq = m + k
    BY <1>5 DEF SourceNumbered
  <2>2. n - m < SeqMod /\ m - n < SeqMod /\ w - m < SeqMod
    BY <1>2, <2>1, SourceAssumption DEF Wide
  <2>3. UDelta(s, seq) = (SeqOf(n) - SeqOf(m)) % SeqMod
    BY <2>1 DEF UDelta
  <2>4. SeqOf(m) \in SeqNo /\ SeqNo \subseteq Int /\ SeqMod \in Int
    BY <1>1, <2>1, SourceAssumption DEF SeqNo
  <2>5. CASE n >= m
    <3>1. \/ SeqOf(n) >= SeqOf(m) /\ SeqOf(n) - SeqOf(m) = n - m
          \/ SeqOf(n) < SeqOf(m) /\ SeqOf(n) - SeqOf(m) = n - m - SeqMod
      BY <2>1, <2>2, <2>5, Positions
    <3>2. UDelta(s, seq) = n - m
      <4> DEFINE delta == SeqOf(n) - SeqOf(m)
      <4>1. delta \in Int /\ -SeqMod < delta /\ delta < SeqMod
        BY <1>0, <2>4, SourceAssumption DEF SeqNo
      <4>2. delta % SeqMod = IF delta >= 0 THEN delta ELSE delta + SeqMod
        <5> HIDE DEF delta
        <5> QED
          BY <4>1, ModOfSmall
      <4>3. delta = n - m \/ (delta < 0 /\ delta = n - m - SeqMod)
        BY <1>0, <2>4, <3>1 DEF SeqNo
      <4>4. UDelta(s, seq) = delta % SeqMod
        BY <2>3
      <4> HIDE DEF delta
      <4> QED
        BY <2>1, <2>4, <2>5, <4>1, <4>2, <4>3, <4>4
    <3>3. Permissible(s, seq)
      BY <1>2, <1>5, <2>1, <3>2, SourceAssumption DEF LargeJump, Permissible, Wide
    <3>4. new = Advance(s, seq)
      BY <1>5, <3>3 DEF UpdateSeq, LargeJump
    <3>5. /\ new.probation = 0 /\ new.maxSeq = SeqOf(n)
          /\ new.cycles = IF SeqOf(n) < SeqOf(m) THEN s.cycles + SeqMod ELSE s.cycles
      BY <1>5, <2>1, <3>4 DEF Advance, Source
    <3>6. new.cycles + SeqOf(n) = n + k
      BY <1>0, <1>1, <2>1, <2>4, <3>1, <3>5, SourceAssumption DEF SeqNo
    <3>7. n \in 0..w1 /\ (w1 - n < MaxMisorder \/ n = w1)
      BY <2>1, <2>5, SourceAssumption
    <3> HIDE DEF w1
    <3>8. SourceNumbered(new, w1, k)
      BY <3>5, <3>6, <3>7 DEF SourceNumbered
    <3> QED
      BY <3>6, <3>8 DEF Extended, w1
  <2>6. CASE n < m
    <3>1. Cycle(w) >= Cycle(m) /\ Cycle(m) \in Nat
      BY SMTT(30), <2>1, <2>2, Positions
    <3>2. SeqOf(m) >= SeqOf(n) /\ SeqOf(m) - SeqOf(n) = m - n
      <4>1. \/ Cycle(m) = Cycle(n) /\ SeqOf(m) >= SeqOf(n) /\ SeqOf(m) - SeqOf(n) = m - n
            \/ Cycle(m) = Cycle(n) + 1
        BY <2>1, <2>2, <2>6, Positions
      <4> QED
        BY <1>0, <1>2, <3>1, <4>1
    <3>3. UDelta(s, seq) = n - m + SeqMod
      <4> DEFINE delta == SeqOf(n) - SeqOf(m)
      <4>1. /\ delta \in Int /\ -SeqMod < delta /\ delta < SeqMod
            /\ delta = n - m /\ delta < 0
        BY <1>0, <2>1, <2>4, <2>6, <3>2, SourceAssumption DEF SeqNo
      <4>2. delta % SeqMod = delta + SeqMod
        <5> HIDE DEF delta
        <5> QED
          BY <4>1, ModOfSmall
      <4>3. UDelta(s, seq) = delta % SeqMod
        BY <2>3
      <4> HIDE DEF delta
      <4> QED
        BY <4>1, <4>2, <4>3
    <3>4. ~Permissible(s, seq) /\ ~LargeJump(s, seq)
      BY <1>2, <2>1, <2>6, <3>3, SourceAssumption DEF LargeJump, Permissible
    <3>5. new = s
      BY <1>5, <3>4 DEF UpdateSeq
    <3>6. s.cycles + SeqOf(n) = n + k
      BY <1>0, <1>1, <2>1, <2>4, <3>2 DEF SeqNo
    <3>7. w1 = w
      BY <2>1, <2>6
    <3> QED
      BY <3>5, <3>6, <3>7 DEF Extended
  <2> QED
    BY <2>1, <2>5, <2>6
<1> QED
  BY <1>1, <1>4, <1>5

-----------------------------------------------------------------------------
(* The packets on their way, in the queue and shown have the numbers of the stream. *)

MailNumbered(k) ==
  \A i \in 1..Len(mailbox) :
    mailbox[i].what = "queueBuffer" => mailbox[i].packet.ext = mailbox[i].packet.pos + k
QueueNumbered(k) == \A i \in 1..Len(packets) : packets[i].ext = packets[i].pos + k
ShownNumbered(k) ==
  \/ lastDequeued = -1 /\ shown = -1
  \/ lastDequeued >= 0 /\ shown >= 0 /\ lastDequeued = shown + k
RendererNumbered(k) == MailNumbered(k) /\ QueueNumbered(k) /\ ShownNumbered(k)

NothingCame ==
  /\ sources[sender.ssrc] = NoSsrc /\ newest = -1
  /\ mailbox = <<>> /\ packets = <<>> /\ lastDequeued = -1 /\ shown = -1
Numbered(k) ==
  /\ sources[sender.ssrc] # NoSsrc /\ newest >= 0
  /\ SourceNumbered(sources[sender.ssrc], newest, k)
  /\ RendererNumbered(k)

Numbering ==
  clean => /\ sender.from = 0
           /\ NothingCame \/ \E k \in Int : Numbered(k)

LEMMA InitNumbering == Init => Numbering /\ NothingNewDropped
  <1> SUFFICES ASSUME Init PROVE Numbering /\ NothingNewDropped
    OBVIOUS
  <1>1. sender.from = 0 /\ sender.ssrc \in Ssrc
    BY DEF Init
  <1>2. NothingCame
    BY <1>1 DEF Init, RendererInit, NothingCame
  <1> QED
    BY <1>1, <1>2 DEF Init, RendererInit, Numbering, NothingNewDropped

\* A packet that comes gets the number of its position.
LEMMA OnDatagramNumbering ==
  ASSUME Wide, IInv, Numbering, NEW n \in 0..MaxPos, OnDatagram(n)
  PROVE  Numbering'
  <1> SUFFICES ASSUME clean'
               PROVE  sender'.from = 0 /\ \E k \in Int : Numbered(k)'
    BY DEF Numbering
  <1> DEFINE id == sender.ssrc
             old == sources[id]
             new == IF old = NoSsrc THEN NewSource(SeqOf(n)) ELSE UpdateSeq(old, SeqOf(n))
             packet == [ext |-> Extended(new, SeqOf(n)), pos |-> n]
             top == IF n > newest THEN n ELSE newest
  <1>1. /\ clean /\ ~Upset(n) /\ sender.from = 0 /\ sender' = sender
        /\ newest' = top
    BY DEF OnDatagram, Comes, Numbering
  <1>2. /\ n \in Nat /\ id \in Ssrc /\ old \in Source \cup {NoSsrc} /\ sender.first \in SeqNo
        /\ newest \in Int /\ mailbox \in Seq(Message)
    BY SinkAssumption DEF IInv, TypeOK, RendererTypeOK
  <1>3. SeqOf(n) \in SeqNo /\ SeqOf(n) \in Int
    <2>1. SeqOf(n) \in SeqNo
      BY <1>1, <1>2, Positions, SourceAssumption
    <2> QED
      BY <2>1, SourceAssumption DEF SeqNo
  <1>4. new \in Source /\ new # NoSsrc
    <2>1. new \in Source
      BY <1>2, <1>3, NewSourceType, UpdateSeqType
    <2> QED
      BY <2>1, SinkAssumption
  <1>5. /\ sources'[id] = new /\ mailbox' \in {mailbox, Append(mailbox, QueueBuffer(packet))}
        /\ UNCHANGED rendererVars
    BY <1>2 DEF OnDatagram, SeqOf, TypeOK, IInv
  <1> HIDE DEF new, packet, top
  <1>6. PICK k \in Int : /\ SourceNumbered(new, top, k)
                         /\ packet.ext = n + k
                         /\ RendererNumbered(k)
    <2>1. CASE NothingCame
      <3>1. new = NewSource(SeqOf(n)) /\ newest = -1
        BY <2>1 DEF NothingCame, new
      <3>2. packet.ext = SeqOf(n) /\ top = n
        BY <1>2, <1>3, <3>1 DEF packet, Extended, NewSource, top
      <3>3. SourceNumbered(new, n, SeqOf(n) - n)
        BY <1>2, <1>3, <3>1 DEF SourceNumbered, NewSource, MinSequential
      <3>4. RendererNumbered(SeqOf(n) - n)
        BY <2>1 DEF NothingCame, RendererNumbered, MailNumbered, QueueNumbered, ShownNumbered
      <3>5. SeqOf(n) - n \in Int /\ SeqOf(n) = n + (SeqOf(n) - n)
        BY <1>2, <1>3
      <3> QED
        BY <3>2, <3>3, <3>4, <3>5
    <2>2. ASSUME NEW k \in Int, Numbered(k)
          PROVE  /\ SourceNumbered(new, top, k)
                 /\ packet.ext = n + k
                 /\ RendererNumbered(k)
      <3>1. /\ old # NoSsrc /\ old \in Source /\ newest \in Nat
            /\ SourceNumbered(old, newest, k) /\ RendererNumbered(k)
        BY <1>2, <2>2 DEF Numbered
      <3>2. new = UpdateSeq(old, SeqOf(n))
        BY <3>1 DEF new
      <3>3. /\ SourceNumbered(new, IF n > newest THEN n ELSE newest, k)
            /\ Extended(new, SeqOf(n)) = n + k
        BY <1>1, <1>2, <3>1, <3>2, UpdateNumbers
      <3> QED
        BY <3>1, <3>3 DEF packet, top
    <2> QED
      BY <1>1, <2>1, <2>2 DEF Numbering
  <1>7. RendererNumbered(k)'
    <2>1. QueueNumbered(k)' /\ ShownNumbered(k)'
      BY <1>5, <1>6 DEF RendererNumbered, QueueNumbered, ShownNumbered, rendererVars, orderVars,
                        historyVars
    <2>2. packet.ext = packet.pos + k
      BY <1>6 DEF packet
    <2>3. MailNumbered(k)
      BY <1>6 DEF RendererNumbered
    <2> DEFINE Has(message) ==
                 message.what = "queueBuffer" => message.packet.ext = message.packet.pos + k
    <2>4. Has(QueueBuffer(packet)) /\ \A i \in 1..Len(mailbox) : Has(mailbox[i])
      BY <2>2, <2>3 DEF MailNumbered, QueueBuffer
    <2> HIDE DEF Has
    <2>5. \A i \in 1..Len(mailbox') : Has(mailbox'[i])
      <3>1. CASE mailbox' = Append(mailbox, QueueBuffer(packet))
        <4>1. /\ Len(mailbox') = Len(mailbox) + 1 /\ Len(mailbox) \in Nat
              /\ \A i \in 1..Len(mailbox) : mailbox'[i] = mailbox[i]
              /\ mailbox'[Len(mailbox) + 1] = QueueBuffer(packet)
          BY <1>2, <3>1
        <4> QED
          BY <2>4, <4>1
      <3>2. CASE mailbox' = mailbox
        BY <2>4, <3>2
      <3> QED
        BY <1>5, <3>1, <3>2
    <2>6. MailNumbered(k)'
      BY <2>5 DEF MailNumbered, Has
    <2> QED
      BY <2>1, <2>6 DEF RendererNumbered
  <1>8. newest' >= 0
    BY <1>1, <1>2 DEF top
  <1>9. SourceNumbered(sources[sender.ssrc], newest, k)'
    BY <1>1, <1>5, <1>6 DEF SourceNumbered, SeqOf, NumberOf
  <1>10. Numbered(k)'
    BY <1>1, <1>4, <1>5, <1>7, <1>8, <1>9 DEF Numbered
  <1> QED
    BY <1>1, <1>10

\* Of a queue without its first member, every member was in the queue.
LEMMA TailNumbered ==
  ASSUME mailbox \in Seq(Message), mailbox # <<>>, mailbox' = Tail(mailbox), NEW k \in Int,
         MailNumbered(k)
  PROVE  MailNumbered(k)'
  <1>1. /\ Len(mailbox) \in Nat /\ Len(mailbox) > 0 /\ Len(mailbox') = Len(mailbox) - 1
        /\ \A i \in 1..Len(mailbox') : mailbox'[i] = mailbox[i + 1]
    OBVIOUS
  <1>2. \A i \in 1..Len(mailbox') : i + 1 \in 1..Len(mailbox)
    BY <1>1
  <1> QED
    BY <1>1, <1>2 DEF MailNumbered

\* The other steps of the sink, and the loss of its session, number nothing.
LEMMA SinkNumbering ==
  ASSUME IInv, Numbering, Restart \/ OnPacketLost \/ OnError \/ UNCHANGED vars
  PROVE  Numbering'
  <1>1. CASE Restart
    BY <1>1 DEF Restart, Numbering
  <1>2. CASE OnPacketLost
    <2> SUFFICES ASSUME clean PROVE sender.from = 0 /\ \E k \in Int : Numbered(k)'
      BY <1>2 DEF OnPacketLost, Numbering, netVars
    <2>1. PICK k \in Int : Numbered(k)
      BY <1>2 DEF OnPacketLost, Numbering, NothingCame
    <2>2. mailbox \in Seq(Message) /\ mailbox # <<>> /\ mailbox' = Tail(mailbox)
      BY <1>2 DEF OnPacketLost, IInv, TypeOK, RendererTypeOK
    <2>3. MailNumbered(k)'
      BY <2>1, <2>2, TailNumbered DEF Numbered, RendererNumbered
    <2>4. Numbered(k)'
      BY <1>2, <2>1, <2>3 DEF OnPacketLost, Numbered, RendererNumbered, QueueNumbered,
         ShownNumbered, SourceNumbered, SeqOf, NumberOf, rendererVars, orderVars, historyVars,
         sinkVars, netVars
    <2> QED
      BY <2>4 DEF Numbering
  <1>3. CASE OnError \/ UNCHANGED vars
    BY <1>3 DEF OnError, Numbering, NothingCame, Numbered, RendererNumbered, MailNumbered,
       QueueNumbered, ShownNumbered, SourceNumbered, SeqOf, NumberOf, vars, rendererVars,
       orderVars, historyVars, sinkVars, netVars
  <1> QED
    BY <1>1, <1>2, <1>3

\* A packet keeps its number in the queue.
LEMMA OnQueueBufferNumbering ==
  ASSUME IInv, OnQueueBuffer, NEW k \in Int, RendererNumbered(k)
  PROVE  RendererNumbered(k)'
  <1>1. mailbox \in Seq(Message) /\ mailbox # <<>> /\ packets \in Seq(Packet)
    BY DEF OnQueueBuffer, IInv, TypeOK, RendererTypeOK
  <1>2. MailNumbered(k)'
    BY <1>1, TailNumbered DEF OnQueueBuffer, RendererNumbered
  <1>3. ShownNumbered(k)'
    BY DEF OnQueueBuffer, RendererNumbered, ShownNumbered, orderVars, historyVars
  <1> DEFINE p == Head(mailbox).packet
  <1>4. p.ext = p.pos + k /\ p \in Packet
    <2>1. Head(mailbox) = mailbox[1] /\ 1 \in 1..Len(mailbox) /\ mailbox[1] \in Message
      BY <1>1
    <2> QED
      BY <2>1 DEF OnQueueBuffer, RendererNumbered, MailNumbered, Message
  <1>5. QueueNumbered(k)'
    <2>1. CASE packets' = packets
      BY <2>1 DEF RendererNumbered, QueueNumbered
    <2>2. ASSUME NEW i \in 0..Len(packets), Follows(p, i), packets' = Insert(p, i)
          PROVE  QueueNumbered(k)'
      <3>1. Len(packets') = Len(packets) + 1
        BY <1>1, <1>4, <2>2, InsertSorted DEF IInv
      <3>2. \A j \in 1..(Len(packets) + 1) :
              packets'[j] = IF j <= i THEN packets[j] ELSE IF j = i + 1 THEN p ELSE packets[j - 1]
        BY <2>2 DEF Insert
      <3>3. Len(packets) \in Nat
        BY <1>1
      <3> HIDE DEF p
      <3> QED
        BY <1>4, <3>1, <3>2, <3>3 DEF RendererNumbered, QueueNumbered
    <2> QED
      BY <2>1, <2>2 DEF OnQueueBuffer
  <1> QED
    BY <1>2, <1>3, <1>5 DEF RendererNumbered

\* A drop of packets that come too late drops nothing new.
LEMMA DropsNothingNew ==
  ASSUME IInv, NEW d \in 0..Len(packets), Dropped(d), RecordsDrop(d),
         NEW k \in Int, RendererNumbered(k), NothingNewDropped, clean
  PROVE  ~lateDrop'
  <1>1. ASSUME NEW j \in 1..d PROVE packets[j].pos \in Nat /\ packets[j].pos <= shown
    <2>1. packets[j] \in Packet /\ j \in 1..Len(packets)
      BY DEF IInv, TypeOK, RendererTypeOK
    <2>2. packets[j].pos \in Nat /\ packets[j].ext \in Nat
      BY <2>1 DEF Packet
    <2>3. packets[j].ext = packets[j].pos + k
      BY <2>1 DEF RendererNumbered, QueueNumbered
    <2>4. lastDequeued >= 0 /\ packets[j].ext <= lastDequeued
      BY DEF Dropped, Old
    <2>5. lastDequeued = shown + k /\ shown \in Int
      BY <2>4 DEF RendererNumbered, ShownNumbered, IInv, TypeOK, RendererTypeOK
    <2> QED
      BY <2>2, <2>3, <2>4, <2>5
  <1>2. shown \in Int /\ ~lateDrop
    BY DEF IInv, TypeOK, RendererTypeOK, NothingNewDropped
  <1>3. ~(\E j \in 1..d : packets[j].pos > shown)
    BY <1>1, <1>2
  <1> QED
    BY <1>2, <1>3 DEF RecordsDrop

\* What is delivered is later in the stream than what was before.
LEMMA DeliversNumbering ==
  ASSUME IInv, NEW t \in Threads, NEW d \in 0..Len(packets),
         pc[t] = "work", available > 0, Dropped(d), d < Len(packets), RecordsDrop(d),
         Delivers(t, d), NEW k \in Int, RendererNumbered(k)
  PROVE  RendererNumbered(k)' /\ shown' > shown
  <1>1. /\ packets \in Seq(Packet) /\ QueueSorted
        /\ d + 1 \in 1..Len(packets) /\ d + 1 \in 0..Len(packets) /\ Len(packets) \in Nat
    BY DEF IInv, TypeOK, RendererTypeOK
  <1>2. packets[d + 1].ext \in Nat /\ packets[d + 1].pos \in Nat
    <2>1. packets[d + 1] \in Packet
      BY <1>1
    <2> QED
      BY <2>1 DEF Packet
  <1>3. lastDequeued' = shown' + k /\ shown' \in Nat /\ lastDequeued' \in Nat
    BY <1>1, <1>2 DEF Delivers, RendererNumbered, QueueNumbered
  <1>4. shown' \in Int /\ shown' >= 0 /\ lastDequeued' \in Int /\ lastDequeued' >= 0
    <2>1. \A i \in Nat : i \in Int /\ i >= 0
      OBVIOUS
    <2> QED
      BY <1>3, <2>1, Zenon
  <1>5. lastDequeued \in Int /\ shown \in Int
    BY DEF IInv, TypeOK, RendererTypeOK
  <1>6. lastDequeued' > lastDequeued
    BY DeliversKeeps
  <1>7. shown' > shown
    <2> DEFINE new == shown'   newDequeued == lastDequeued'
    <2>1. /\ new \in Int /\ new >= 0 /\ newDequeued \in Int /\ newDequeued > lastDequeued
          /\ newDequeued = new + k
      BY <1>3, <1>6, <1>4, Zenon
    <2>2. shown = -1 \/ lastDequeued = shown + k
      BY DEF RendererNumbered, ShownNumbered
    <2> HIDE DEF new, newDequeued
    <2>3. new > shown
      BY <1>5, <2>1, <2>2
    <2> QED
      BY <2>3 DEF new
  <1>8. QueueNumbered(k)'
    <2>1. /\ Len(packets') = Len(packets) - (d + 1)
          /\ \A i \in 1..(Len(packets) - (d + 1)) : packets'[i] = packets[i + (d + 1)]
      BY <1>1, RestSorted DEF Delivers
    <2>2. \A i \in 1..Len(packets') : i + (d + 1) \in 1..Len(packets)
      BY <1>1, <2>1
    <2> QED
      BY <2>1, <2>2 DEF RendererNumbered, QueueNumbered
  <1>9. MailNumbered(k)'
    BY DEF Delivers, RendererNumbered, MailNumbered
  <1>10. ShownNumbered(k)'
    BY <1>3, <1>4 DEF ShownNumbered
  <1> QED
    BY <1>7, <1>8, <1>9, <1>10 DEF RendererNumbered

\* While nothing has come there is nothing to do.
LEMMA RendersNothing ==
  ASSUME IInv, NothingCame, Renders
  PROVE  NothingCame' /\ (lateDrop' => lateDrop) /\ ~Shows
  <1> USE DEF NothingCame
  <1>1. Len(packets) = 0 /\ \A d \in 0..Len(packets) : ~(d < Len(packets))
    OBVIOUS
  <1>2. UNCHANGED <<sources, sender, newest>>
    BY DEF Renders, sinkVars, netVars
  <1>3. /\ UNCHANGED <<mailbox, lastDequeued, shown>> /\ packets' = <<>>
        /\ lateDrop' => lateDrop
        /\ available' \in {available, available + 1}
    <2>1. CASE OnQueueBuffer
      BY <2>1 DEF OnQueueBuffer
    <2>2. ASSUME NEW t \in Binder, OnBufferAvailable(t)
          PROVE  /\ UNCHANGED <<mailbox, packets, lastDequeued, shown, lateDrop>>
                 /\ available' = available + 1
      BY <2>2 DEF OnBufferAvailable, orderVars, historyVars
    <2>3. ASSUME NEW t \in Threads, DoesSomeWork(t)
          PROVE  /\ UNCHANGED <<mailbox, lastDequeued, shown, available>>
                 /\ packets' = <<>> /\ (lateDrop' => lateDrop)
      <3>1. CASE Enter(t) \/ NoBuffer(t)
        BY <3>1 DEF Enter, NoBuffer, Leave, orderVars, historyVars
      <3>2. CASE FindsNothing(t)
        <4>1. lateDrop' = (lateDrop \/ \E j \in 1..0 : packets[j].pos > shown)
          BY <1>1, <3>2 DEF FindsNothing, RecordsDrop
        <4>2. \A j \in 1..0 : FALSE
          OBVIOUS
        <4>3. lateDrop' => lateDrop
          BY <4>1, <4>2, Zenon
        <4> QED
          BY <3>2, <4>3 DEF FindsNothing, Leave
      <3> QED
        BY <1>1, <2>3, <3>1, <3>2 DEF DoesSomeWork, FindsNext, Waits, Skips
    <2>4. CASE TimePasses
      BY <2>4 DEF TimePasses, workVars, historyVars
    <2> QED
      BY <2>1, <2>2, <2>3, <2>4 DEF Renders, RendererNext
  <1>4. available \in Int
    BY BuffersAssumption DEF IInv, TypeOK, RendererTypeOK
  <1> QED
    BY <1>2, <1>3, <1>4 DEF Shows

\* The renderer's steps keep the numbers, drop nothing new and show what is later.
LEMMA RendersNumbering ==
  ASSUME IInv, clean, NothingNewDropped, Renders, NEW k \in Int, RendererNumbered(k)
  PROVE  RendererNumbered(k)' /\ ~lateDrop' /\ (Shows => shown' > shown)
  <1> DEFINE Goal == RendererNumbered(k)' /\ ~lateDrop' /\ (Shows => shown' > shown)
  <1> USE DEF Shows
  <1>1. ~lateDrop /\ available \in Int /\ packets \in Seq(Packet) /\ mailbox \in Seq(Message)
    BY BuffersAssumption DEF NothingNewDropped, IInv, TypeOK, RendererTypeOK
  <1>2. CASE OnQueueBuffer
    BY <1>1, <1>2, OnQueueBufferNumbering DEF OnQueueBuffer, historyVars
  <1>3. ASSUME UNCHANGED <<mailbox, packets, lastDequeued, shown, lateDrop>>,
               available' \in {available, available + 1}
        PROVE  Goal
    BY <1>1, <1>3 DEF RendererNumbered, MailNumbered, QueueNumbered, ShownNumbered
  <1>4. ASSUME NEW t \in Binder, OnBufferAvailable(t) PROVE Goal
    BY <1>3, <1>4 DEF OnBufferAvailable, orderVars, historyVars
  <1>5. CASE TimePasses
    BY <1>3, <1>5 DEF TimePasses, workVars, historyVars
  <1>6. ASSUME NEW t \in Threads, DoesSomeWork(t) PROVE Goal
    <2>1. CASE Enter(t) \/ NoBuffer(t)
      BY <1>3, <2>1 DEF Enter, NoBuffer, Leave, orderVars, historyVars
    <2>2. CASE FindsNothing(t)
      <3>1. ~lateDrop'
        BY <1>1, <2>2, DropsNothingNew DEF FindsNothing
      <3>2. RendererNumbered(k)'
        BY <2>2 DEF FindsNothing, RendererNumbered, MailNumbered, QueueNumbered, ShownNumbered
      <3> QED
        BY <1>1, <2>2, <3>1, <3>2 DEF FindsNothing, Leave
    <2>3. ASSUME NEW d \in 0..Len(packets), FindsNext(t, d) \/ Skips(t, d) PROVE Goal
      <3>1. /\ pc[t] = "work" /\ available > 0 /\ Dropped(d) /\ d < Len(packets)
            /\ RecordsDrop(d) /\ Delivers(t, d)
        BY <2>3 DEF FindsNext, Skips
      <3> QED
        BY <3>1, DropsNothingNew, DeliversNumbering
    <2>4. ASSUME NEW d \in 0..Len(packets), Waits(t, d) PROVE Goal
      <3>1. ~lateDrop'
        BY <2>4, DropsNothingNew DEF Waits
      <3>2. QueueNumbered(k)'
        <4>1. /\ Len(packets') = Len(packets) - d
              /\ \A i \in 1..(Len(packets) - d) : packets'[i] = packets[i + d]
          BY <1>1, <2>4, RestSorted DEF Waits, IInv
        <4>2. \A i \in 1..Len(packets') : i + d \in 1..Len(packets)
          BY <1>1, <4>1
        <4> QED
          BY <4>1, <4>2 DEF RendererNumbered, QueueNumbered
      <3>3. MailNumbered(k)'
        <4> DEFINE message == PacketLost((lastDequeued + 1) % SeqNumbers)
        <4>1. message.what # "queueBuffer"
          BY DEF PacketLost
        <4> HIDE DEF message
        <4>2. CASE mailbox' = mailbox
          BY <4>2 DEF RendererNumbered, MailNumbered
        <4>3. CASE mailbox' = Append(mailbox, message)
          <5>1. /\ Len(mailbox') = Len(mailbox) + 1 /\ Len(mailbox) \in Nat
                /\ \A i \in 1..Len(mailbox) : mailbox'[i] = mailbox[i]
                /\ mailbox'[Len(mailbox) + 1] = message
            BY <1>1, <4>3
          <5>2. \A i \in 1..Len(mailbox') : i \in 1..Len(mailbox) \/ mailbox'[i] = message
            BY <5>1
          <5> QED
            BY <4>1, <5>1, <5>2 DEF RendererNumbered, MailNumbered
        <4> QED
          BY <2>4, <4>2, <4>3 DEF Waits, message
      <3>4. ShownNumbered(k)' /\ available' = available
        BY <2>4 DEF Waits, Leave, RendererNumbered, ShownNumbered
      <3> QED
        BY <1>1, <3>1, <3>2, <3>3, <3>4 DEF RendererNumbered
    <2> QED
      BY <1>6, <2>1, <2>2, <2>3, <2>4 DEF DoesSomeWork
  <1> QED
    BY <1>2, <1>4, <1>5, <1>6 DEF Renders, RendererNext

\* Numbering is kept, and what it is needed for.
NumberedWell == IInv /\ Numbering /\ NothingNewDropped

LEMMA StepNumbering ==
  ASSUME Wide, NumberedWell, [Next]_vars
  PROVE  NumberedWell' /\ (Next /\ clean' /\ Shows => shown' > shown)
  <1> USE DEF NumberedWell
  <1>1. IInv'
    BY StepIInv
  <1>2. available \in Int
    BY BuffersAssumption DEF IInv, TypeOK, RendererTypeOK
  <1>3. ASSUME Restart \/ OnPacketLost \/ OnError \/ UNCHANGED vars
        PROVE  Numbering' /\ NothingNewDropped' /\ ~Shows
    <2>1. Numbering'
      BY <1>3, SinkNumbering
    <2>2. lateDrop' = lateDrop /\ available' = available /\ (clean' => clean)
      BY <1>3 DEF Restart, OnPacketLost, OnError, vars, rendererVars, workVars, historyVars
    <2> QED
      BY <1>2, <2>1, <2>2 DEF NothingNewDropped, Shows
  <1>4. ASSUME NEW n \in 0..MaxPos, OnDatagram(n)
        PROVE  Numbering' /\ NothingNewDropped' /\ ~Shows
    <2>1. Numbering'
      BY <1>4, OnDatagramNumbering
    <2>2. lateDrop' = lateDrop /\ available' = available /\ (clean' => clean)
      BY <1>4 DEF OnDatagram, Comes, rendererVars, workVars, historyVars
    <2> QED
      BY <1>2, <2>1, <2>2 DEF NothingNewDropped, Shows
  <1>5. ASSUME Renders
        PROVE  Numbering' /\ NothingNewDropped' /\ (clean' /\ Shows => shown' > shown)
    <2>1. UNCHANGED <<sources, sender, newest, clean>>
      BY <1>5 DEF Renders, sinkVars, netVars
    <2>2. CASE ~clean
      BY <2>1, <2>2 DEF Numbering, NothingNewDropped
    <2>3. CASE clean /\ NothingCame
      BY <1>5, <2>1, <2>3, RendersNothing DEF Numbering, NothingNewDropped
    <2>4. ASSUME clean, NEW k \in Int, Numbered(k)
          PROVE  Numbering' /\ NothingNewDropped' /\ (clean' /\ Shows => shown' > shown)
      <3>1. RendererNumbered(k)' /\ ~lateDrop' /\ (Shows => shown' > shown)
        BY <1>5, <2>4, RendersNumbering DEF Numbered
      <3>2. Numbered(k)'
        BY <2>1, <2>4, <3>1 DEF Numbered, SourceNumbered, SeqOf, NumberOf
      <3> QED
        BY <2>1, <2>4, <3>1, <3>2 DEF Numbering, NothingNewDropped
    <2> QED
      BY <2>2, <2>3, <2>4 DEF Numbering
  <1> QED
    BY <1>1, <1>3, <1>4, <1>5 DEF Next

\* As long as nothing upsets the numbering, across any number of wraps of the 16 bits, what is
\* dropped as too late is older than what was shown: the extended number that Source counts
\* grows with the position in the stream.
THEOREM NothingNewIsDropped ==
  ASSUME Wide
  PROVE  Spec => []NothingNewDropped
  <1>1. Init => NumberedWell
    BY InitIInv, InitNumbering DEF NumberedWell
  <1>2. NumberedWell /\ [Next]_vars => NumberedWell'
    BY StepNumbering
  <1>3. NumberedWell => NothingNewDropped
    BY DEF NumberedWell
  <1> QED
    BY <1>1, <1>2, <1>3, PTL DEF Spec

\* The player is given the payloads in the order in which the source sent them, as long as
\* nothing upsets the numbering that Source::updateSeq counts.
THEOREM ShownAsSent ==
  ASSUME Wide
  PROVE  Spec => SendingOrder
  <1>1. Init => NumberedWell
    BY InitIInv, InitNumbering DEF NumberedWell
  <1>2. NumberedWell /\ [Next]_vars => NumberedWell'
    BY StepNumbering
  <1>3. NumberedWell /\ [Next]_vars => [clean' /\ Shows => shown' > shown]_vars
    BY StepNumbering
  <1> QED
    BY <1>1, <1>2, <1>3, PTL DEF Spec, SendingOrder

=============================================================================
