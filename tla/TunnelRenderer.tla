--------------------------- MODULE TunnelRenderer ---------------------------
(***************************************************************************)
(* TunnelRenderer of the WiFi Display sink: it puts the RTP packets back   *)
(* into order and copies them into the buffers of the media player.  The   *)
(* looper's thread queues a packet; it and the player's binder threads,    *)
(* which return a buffer, both run StreamSource::doSomeWork, one at a time *)
(* under the lock of StreamSource, while queueBuffer takes only the lock   *)
(* of the renderer.                                                        *)
(*                                                                         *)
(* A packet is its extended sequence number and, as its payload, its       *)
(* position in the stream that was sent.  Payloads are whole, not empty    *)
(* and fit the player's buffers, so mTotalBytesQueued is positive wherever *)
(* it is read.  The looper's queue is shared with RTPSink (RtpSink.tla).   *)
(***************************************************************************)
EXTENDS Integers, Sequences

CONSTANTS
  Looper,      \* the thread of the looper
  Binder,      \* the threads on which the player calls onBufferAvailable
  NumBuffers,  \* how many buffers the player has
  SeqNumbers,  \* 2^16: a lost packet is named by its number modulo this
  NoThread     \* a lock that is free

ASSUME ThreadsAssumption == Looper \notin Binder /\ NoThread \notin Binder \cup {Looper}
ASSUME BuffersAssumption == NumBuffers \in Nat
ASSUME SeqNumbersAssumption == SeqNumbers \in Nat \ {0}

VARIABLES
  mailbox,       \* the looper's messages, for RTPSink and the renderer
  packets,       \* mPackets
  lastDequeued,  \* mLastDequeuedExtSeqNo
  firstFailed,   \* mFirstFailedAttemptUs: not set, less than 50 ms ago, longer ago
  requested,     \* mRequestedRetransmission
  player,        \* mStreamSource # NULL: the player was started
  available,     \* how many indices mIndicesAvailable holds
  streamLock,    \* who holds StreamSource::mLock
  pc,            \* thread -> its place in doSomeWork
  shown,         \* history: the payload given to the player last, -1 before the first
  asked,         \* history: the extended number that was asked for last
  lateDrop       \* history: a dropped packet was newer than all that were shown

workVars == <<player, available, streamLock, pc>>
orderVars == <<lastDequeued, firstFailed, requested>>
historyVars == <<shown, asked, lateDrop>>
rendererVars == <<packets, orderVars, workVars, historyVars>>

Threads == Binder \cup {Looper}
Packet == [ext : Nat, pos : Nat]

Message == [what : {"queueBuffer"}, packet : Packet] \cup [what : {"packetLost"}, seqNo : Nat]
QueueBuffer(p) == [what |-> "queueBuffer", packet |-> p]
PacketLost(n) == [what |-> "packetLost", seqNo |-> n]

RendererTypeOK ==
  /\ mailbox \in Seq(Message)
  /\ packets \in Seq(Packet)
  /\ lastDequeued \in Nat \cup {-1}
  /\ firstFailed \in {"fresh", "waiting", "expired"}
  /\ requested \in BOOLEAN
  /\ player \in BOOLEAN
  /\ available \in 0..NumBuffers
  /\ streamLock \in Threads \cup {NoThread}
  /\ pc \in [Threads -> {"idle", "wait", "work"}]
  /\ shown \in Nat \cup {-1}
  /\ asked \in Nat \cup {-1}
  /\ lateDrop \in BOOLEAN

RendererInit ==
  /\ packets = <<>>
  /\ lastDequeued = -1 /\ firstFailed = "fresh" /\ requested = FALSE
  /\ player = FALSE /\ available = 0
  /\ streamLock = NoThread /\ pc = [t \in Threads |-> "idle"]
  /\ shown = -1 /\ asked = -1 /\ lateDrop = FALSE

-----------------------------------------------------------------------------
(* The looper's thread: the message that queues a packet. *)

\* The place of a packet: after the first i of the queue, which the scan from its end finds.
Follows(p, i) ==
  /\ i \in 0..Len(packets)
  /\ i > 0 => packets[i].ext < p.ext
  /\ \A j \in (i + 1)..Len(packets) : packets[j].ext > p.ext

Duplicate(p) == \E j \in 1..Len(packets) : packets[j].ext = p.ext

Insert(p, i) ==
  [k \in 1..(Len(packets) + 1) |->
     IF k <= i THEN packets[k] ELSE IF k = i + 1 THEN p ELSE packets[k - 1]]

\* Mutant: the thread does not work although the player runs.
RestsAfterQueueing == pc
\* The first packet starts the player, later ones let the thread work.
WorksAfterQueueing == IF player THEN [pc EXCEPT ![Looper] = "wait"] ELSE pc

OnQueueBuffer ==
  /\ pc[Looper] = "idle" /\ mailbox # <<>> /\ Head(mailbox).what = "queueBuffer"
  /\ LET p == Head(mailbox).packet IN
       \/ Duplicate(p) /\ UNCHANGED packets
       \/ ~Duplicate(p) /\ \E i \in 0..Len(packets) : Follows(p, i) /\ packets' = Insert(p, i)
  /\ mailbox' = Tail(mailbox)
  /\ player' = TRUE
  /\ pc' = WorksAfterQueueing
  /\ UNCHANGED <<available, streamLock, orderVars, historyVars>>

-----------------------------------------------------------------------------
(* A binder thread: the player returns a buffer. *)

OnBufferAvailable(t) ==
  /\ player /\ pc[t] = "idle" /\ available < NumBuffers
  /\ streamLock = NoThread
  /\ available' = available + 1
  /\ pc' = [pc EXCEPT ![t] = "wait"]
  /\ UNCHANGED <<mailbox, packets, player, streamLock, orderVars, historyVars>>

-----------------------------------------------------------------------------
(* StreamSource::doSomeWork, on every thread. *)

Enter(t) ==
  /\ pc[t] = "wait" /\ streamLock = NoThread
  /\ streamLock' = t
  /\ pc' = [pc EXCEPT ![t] = "work"]
  /\ UNCHANGED <<mailbox, packets, player, available, orderVars, historyVars>>

Leave(t) ==
  /\ streamLock' = NoThread
  /\ pc' = [pc EXCEPT ![t] = "idle"]
  /\ UNCHANGED <<player, available>>

NoBuffer(t) ==
  /\ pc[t] = "work" /\ available = 0
  /\ Leave(t)
  /\ UNCHANGED <<mailbox, packets, orderVars, historyVars>>

\* dequeueBuffer first drops the heads that come too late: d of them.
Old(p) == lastDequeued >= 0 /\ p.ext <= lastDequeued
Dropped(d) ==
  /\ d \in 0..Len(packets)
  /\ \A j \in 1..d : Old(packets[j])
  /\ d < Len(packets) => ~Old(packets[d + 1])
Rest(d) == [k \in 1..(Len(packets) - d) |-> packets[k + d]]
RecordsDrop(d) == lateDrop' = (lateDrop \/ \E j \in 1..d : packets[j].pos > shown)

\* Nothing is left: the patience with the next packet starts here already.
FindsNothing(t) ==
  /\ pc[t] = "work" /\ available > 0
  /\ Dropped(Len(packets))
  /\ RecordsDrop(Len(packets))
  /\ packets' = <<>>
  /\ IF firstFailed = "fresh"
     THEN firstFailed' = "waiting" /\ requested' = FALSE
     ELSE UNCHANGED <<firstFailed, requested>>
  /\ Leave(t)
  /\ UNCHANGED <<mailbox, lastDequeued, shown, asked>>

\* The packet is copied into a buffer of the player, and the loop goes on.
Delivers(t, d) ==
  /\ packets' = Rest(d + 1)
  /\ lastDequeued' = packets[d + 1].ext
  /\ shown' = packets[d + 1].pos
  /\ firstFailed' = "fresh" /\ requested' = FALSE
  /\ available' = available - 1
  /\ UNCHANGED <<mailbox, player, streamLock, pc, asked>>

\* Mutant: a packet that is one too far counts as the next.
InOrderLoosely(p) == lastDequeued < 0 \/ p.ext \in {lastDequeued + 1, lastDequeued + 2}
InOrder(p) == lastDequeued < 0 \/ p.ext = lastDequeued + 1

FindsNext(t, d) ==
  /\ pc[t] = "work" /\ available > 0
  /\ Dropped(d) /\ d < Len(packets) /\ InOrder(packets[d + 1])
  /\ RecordsDrop(d)
  /\ Delivers(t, d)

\* Mutant: the loss is reported on every attempt.
MayAskAgain == TRUE
MayAsk == ~requested

\* The packet behind a gap is not handed out before the patience is over.
Waits(t, d) ==
  /\ pc[t] = "work" /\ available > 0
  /\ Dropped(d) /\ d < Len(packets) /\ ~InOrder(packets[d + 1])
  /\ RecordsDrop(d)
  /\ packets' = Rest(d)
  /\ \/ /\ firstFailed = "fresh"
        /\ firstFailed' = "waiting"
        /\ UNCHANGED <<mailbox, requested, asked>>
     \/ /\ firstFailed = "waiting" /\ MayAsk
        /\ mailbox' = Append(mailbox, PacketLost((lastDequeued + 1) % SeqNumbers))
        /\ requested' = TRUE
        /\ asked' = lastDequeued + 1
        /\ UNCHANGED firstFailed
     \/ /\ firstFailed = "waiting" /\ ~MayAsk
        /\ UNCHANGED <<mailbox, firstFailed, requested, asked>>
  /\ Leave(t)
  /\ UNCHANGED <<lastDequeued, shown>>

Skips(t, d) ==
  /\ pc[t] = "work" /\ available > 0
  /\ Dropped(d) /\ d < Len(packets) /\ ~InOrder(packets[d + 1])
  /\ firstFailed = "expired"
  /\ RecordsDrop(d)
  /\ Delivers(t, d)

\* 50 ms go by since the first failed attempt.
TimePasses ==
  /\ firstFailed = "waiting" /\ firstFailed' = "expired"
  /\ UNCHANGED <<mailbox, packets, lastDequeued, requested, workVars, historyVars>>

DoesSomeWork(t) ==
  \/ Enter(t) \/ NoBuffer(t) \/ FindsNothing(t)
  \/ \E d \in 0..Len(packets) : FindsNext(t, d) \/ Waits(t, d) \/ Skips(t, d)

RendererNext ==
  \/ OnQueueBuffer
  \/ \E t \in Binder : OnBufferAvailable(t)
  \/ \E t \in Threads : DoesSomeWork(t)
  \/ TimePasses

=============================================================================
